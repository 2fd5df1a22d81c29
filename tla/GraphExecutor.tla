----------------------------- MODULE GraphExecutor -----------------------------
(***************************************************************************)
(* RuntimeGraph (src/core/graph.cc): finalizing a graph of nodes and       *)
(* running it, serially or in rounds on the worker pool.                   *)
(*                                                                         *)
(* A graph is its input slots: slot s belongs to node owner[s] and reads   *)
(* the value reads[s], which node producer[v] writes, or nobody (a graph   *)
(* input or a weight).  A node that reads a value twice has two slots, as  *)
(* the code has two entries in input_ids, predecessors and successors.     *)
(*                                                                         *)
(* A node's run is four steps: it starts, its kernel runs (or fails), the  *)
(* inputs nobody needs any more are released, and its end is recorded.     *)
(* The worker pool is abstracted to what ThreadPool shows of it: queued    *)
(* nodes start in order, on at most `workers` threads, and a future is     *)
(* ready once its node ended.                                              *)
(***************************************************************************)
EXTENDS Integers, Sequences, FiniteSets

CONSTANTS
  N,           \* number of nodes
  Values,      \* names of values
  Slots,       \* input slots of all nodes
  Graphs,      \* the graphs to run: records of owner, reads, producer and kept
  MaxWorkers,  \* bound on the configured thread count
  MaxRuns,     \* bound on the calls of Run
  None         \* "no producer"

Nodes == 0..(N - 1)

GraphType == [owner : [Slots -> Nodes], reads : [Slots -> Values],
              producer : [Values -> Nodes \cup {None}], kept : SUBSET Values]

ASSUME ExecutorAssumption ==
  /\ N \in Nat \ {0} /\ IsFiniteSet(Slots)
  /\ Graphs \subseteq GraphType
  /\ MaxWorkers \in Nat \ {0} /\ MaxRuns \in Nat
  /\ None \notin Nodes

VARIABLES
  owner, reads, producer,  \* the graph: nodes_, input_ids, output_ids
  kept,                    \* outputs and persistent tensors: never released
  finalized,               \* "no", "yes", or "rejected" by BuildDependencies
  workers,                 \* worker_count_
  pc,                      \* the caller: "idle", "serial", "round", "join", "result"
  status,                  \* what the last Run returned: "none", "ok", "error"
  pending,                 \* pending_dependencies of each node
  uses,                    \* remaining_uses_ of each value
  ready,                   \* nodes with no pending dependency, not started
  inFlight, completed,     \* in_flight, completed
  failed,                  \* error_status # 0
  pool,                    \* nodes handed to the pool and not started
  phase,                   \* "out", "queued", "running", "ran", "released", "failed"
  nRuns,                   \* calls of Run so far
  finished,                \* history: nodes whose kernel succeeded in this run
  ended,                   \* history: nodes whose end was recorded in this run
  count,                   \* history: starts of each node in this run
  released                 \* history: values released in this run

graphVars == <<owner, reads, producer, kept>>
setupVars == <<finalized, workers>>
schedVars == <<pending, ready, inFlight, completed, failed>>
callVars == <<pc, status, nRuns>>
history == <<finished, ended, count>>
vars == <<graphVars, setupVars, callVars, schedVars, uses, pool, phase, history, released>>

(* The input slots of node n, and those of them that depend on a node. *)
Inputs(n) == {s \in Slots : owner[s] = n}
Deps(n) == {s \in Inputs(n) : producer[reads[s]] # None}

(* The slots of node m that read an output of node n: n's successor entries. *)
Feeds(n, m) == {s \in Inputs(m) : producer[reads[s]] = n}

(* The slots of node n that read value v. *)
Reads(n, v) == {s \in Inputs(n) : reads[s] = v}

Predecessors(n) == {producer[reads[s]] : s \in Deps(n)}

(* BuildDependencies: Kahn's sweep reaches in k rounds the nodes whose
   predecessors were reached before; a cycle, or a self loop, is never reached. *)
Reached == LET after[k \in 0..N] ==
                 IF k = 0 THEN {}
                 ELSE {n \in Nodes : Predecessors(n) \subseteq after[k - 1]}
           IN  after[N]

(* The nodes of S in ascending order, as the loops over nodes_ and over a node's
   successors meet them: the one element of this set. *)
Ascending(S) ==
  LET k == Cardinality(S) IN {q \in [1..k -> S] : \A i, j \in 1..k : i < j => q[i] < q[j]}

SerialBranch == workers = 1

Init ==
  /\ \E g \in Graphs : owner = g.owner /\ reads = g.reads /\ producer = g.producer /\ kept = g.kept
  /\ finalized = "no" /\ workers = 1
  /\ pc = "idle" /\ status = "none" /\ nRuns = 0
  /\ pending = [n \in Nodes |-> 0] /\ uses = [v \in Values |-> 0]
  /\ ready = <<>> /\ inFlight = 0 /\ completed = 0 /\ failed = FALSE
  /\ pool = <<>> /\ phase = [n \in Nodes |-> "out"]
  /\ finished = {} /\ ended = {} /\ count = [n \in Nodes |-> 0] /\ released = {}

-------------------------------------------------------------------------------
(* FinalizeStatus: dependencies are built, a graph with a cycle (or one whose
   kernels cannot be prepared) is refused, and a pool of min(threads, nodes)
   workers is made if that is more than one. *)
Finalize ==
  /\ pc = "idle" /\ finalized = "no"
  /\ \/ /\ Reached = Nodes
        /\ finalized' = "yes"
        /\ workers' \in {IF t < N THEN t ELSE N : t \in 1..MaxWorkers}
     \/ finalized' = "rejected" /\ workers' = 1
  /\ pending' = [n \in Nodes |-> Cardinality(Deps(n))]
  /\ UNCHANGED <<graphVars, callVars, uses, ready, inFlight, completed, failed, pool, phase,
                 history, released>>

BugRun ==                   \* ResetPendingDependencies and ResetRemainingUses are skipped
  /\ pc = "idle" /\ finalized = "yes" /\ nRuns < MaxRuns
  /\ nRuns' = nRuns + 1
  /\ uses' = IF nRuns = 0 THEN [v \in Values |-> Cardinality({s \in Slots : reads[s] = v})] ELSE uses
  /\ ready' \in Ascending({n \in Nodes : pending[n] = 0})
  /\ inFlight' = 0 /\ completed' = 0 /\ failed' = FALSE
  /\ finished' = {} /\ ended' = {} /\ count' = [n \in Nodes |-> 0] /\ released' = {}
  /\ pc' = IF SerialBranch THEN "serial" ELSE "round"
  /\ UNCHANGED <<graphVars, setupVars, status, pending, pool, phase>>

(* RunStatus up to the scheduling loop. *)
Run ==
  /\ pc = "idle" /\ finalized = "yes" /\ nRuns < MaxRuns
  /\ nRuns' = nRuns + 1
  /\ pending' = [n \in Nodes |-> Cardinality(Deps(n))]
  /\ uses' = [v \in Values |-> Cardinality({s \in Slots : reads[s] = v})]
  /\ ready' \in Ascending({n \in Nodes : pending'[n] = 0})
  /\ inFlight' = 0 /\ completed' = 0 /\ failed' = FALSE
  /\ finished' = {} /\ ended' = {} /\ count' = [n \in Nodes |-> 0] /\ released' = {}
  /\ pc' = IF SerialBranch THEN "serial" ELSE "round"
  /\ UNCHANGED <<graphVars, setupVars, status, pool, phase>>

(* RunStatus returns before it touches the schedule: the graph is not finalized,
   or a check of its tensors, bindings or preflights fails. *)
Reject ==
  /\ pc = "idle" /\ nRuns < MaxRuns
  /\ nRuns' = nRuns + 1 /\ status' = "error"
  /\ UNCHANGED <<graphVars, setupVars, pc, schedVars, uses, pool, phase, history, released>>

-------------------------------------------------------------------------------
(* RunNode, in the caller's thread or in a worker's. *)

KernelRuns(n) ==
  /\ phase[n] = "running"
  /\ phase' = [phase EXCEPT ![n] = "ran"]
  /\ finished' = finished \cup {n}
  /\ UNCHANGED <<graphVars, setupVars, callVars, schedVars, uses, pool, ended, count, released>>

(* PrepareNodeForRun, Supports or the kernel fails. *)
KernelFails(n) ==
  /\ phase[n] = "running"
  /\ phase' = [phase EXCEPT ![n] = "failed"]
  /\ UNCHANGED <<graphVars, setupVars, callVars, schedVars, uses, pool, history, released>>

BugReleaseInputs(n) ==      \* an input read in two slots counts once per node
  /\ phase[n] = "ran"
  /\ uses' = [v \in Values |-> uses[v] - Cardinality(Reads(n, v))]
  /\ released' = released \cup {v \in Values : \E s \in Inputs(n) : reads[s] = v /\ v \notin kept}
  /\ phase' = [phase EXCEPT ![n] = "released"]
  /\ UNCHANGED <<graphVars, setupVars, callVars, schedVars, pool, history>>

(* ReleaseUnusedInputs, under uses_mutex_. *)
ReleaseInputs(n) ==
  /\ phase[n] = "ran"
  /\ uses' = [v \in Values |-> uses[v] - Cardinality(Reads(n, v))]
  /\ released' = released \cup {v \in Values \ kept : uses[v] # 0 /\ uses'[v] = 0}
  /\ phase' = [phase EXCEPT ![n] = "released"]
  /\ UNCHANGED <<graphVars, setupVars, callVars, schedVars, pool, history>>

-------------------------------------------------------------------------------
BugEndNode(n) ==            \* a successor is ready as soon as one input is there
  /\ phase[n] = "released"
  /\ ended' = ended \cup {n}
  /\ pending' = [m \in Nodes |-> pending[m] - Cardinality(Feeds(n, m))]
  /\ \E q \in Ascending({m \in Nodes : Feeds(n, m) # {}}) : ready' = ready \o q
  /\ completed' = completed + 1
  /\ inFlight' = inFlight - 1
  /\ phase' = [phase EXCEPT ![n] = "out"]
  /\ UNCHANGED <<graphVars, setupVars, callVars, failed, uses, pool, finished, count, released>>

(* The end of a node that succeeded: its successors lose a dependency per slot. *)
EndNode(n) ==
  /\ phase[n] = "released"
  /\ ended' = ended \cup {n}
  /\ pending' = [m \in Nodes |-> pending[m] - Cardinality(Feeds(n, m))]
  /\ \E q \in Ascending({m \in Nodes : Feeds(n, m) # {} /\ pending'[m] = 0}) : ready' = ready \o q
  /\ completed' = completed + 1
  /\ inFlight' = inFlight - 1
  /\ phase' = [phase EXCEPT ![n] = "out"]
  /\ UNCHANGED <<graphVars, setupVars, callVars, failed, uses, pool, finished, count, released>>

(* The end of a node that failed; the serial loop returns at once. *)
EndFailed(n) ==
  /\ phase[n] = "failed"
  /\ failed' = TRUE
  /\ inFlight' = inFlight - 1
  /\ phase' = [phase EXCEPT ![n] = "out"]
  /\ pc' = IF pc = "serial" THEN "result" ELSE pc
  /\ UNCHANGED <<graphVars, setupVars, status, nRuns, pending, ready, completed, uses, pool,
                 history, released>>

-------------------------------------------------------------------------------
(* The serial loop takes the ready node of the lowest index. *)
Pick(n) ==
  /\ pc = "serial" /\ \A m \in Nodes : phase[m] = "out"
  /\ \E i \in 1..Len(ready) :
       /\ ready[i] = n /\ \A j \in 1..Len(ready) : ready[i] <= ready[j]
       /\ ready' = SubSeq(ready, 1, i - 1) \o SubSeq(ready, i + 1, Len(ready))
  /\ phase' = [phase EXCEPT ![n] = "running"]
  /\ count' = [count EXCEPT ![n] = @ + 1]
  /\ inFlight' = inFlight + 1
  /\ UNCHANGED <<graphVars, setupVars, callVars, pending, completed, failed, uses, pool,
                 finished, ended, released>>

SerialEnd ==
  /\ pc = "serial" /\ \A n \in Nodes : phase[n] = "out"
  /\ ready = <<>>
  /\ pc' = "result"
  /\ UNCHANGED <<graphVars, setupVars, status, nRuns, schedVars, uses, pool, phase, history,
                 released>>

-------------------------------------------------------------------------------
(* The parallel loop. *)

(* A round hands as many ready nodes to the pool as it has workers. *)
Launch ==
  LET k == IF Len(ready) < workers THEN Len(ready) ELSE workers
      batch == SubSeq(ready, 1, k)
  IN  /\ pc = "round" /\ ~failed /\ completed < N
      /\ ready # <<>>
      /\ ready' = SubSeq(ready, k + 1, Len(ready))
      /\ pool' = pool \o batch
      /\ phase' = [n \in Nodes |-> IF \E i \in 1..k : batch[i] = n THEN "queued" ELSE phase[n]]
      /\ inFlight' = inFlight + k
      /\ pc' = "join"
      /\ UNCHANGED <<graphVars, setupVars, status, nRuns, pending, completed, failed, uses,
                     history, released>>

(* A worker takes the oldest queued node. *)
Start(n) ==
  /\ pool # <<>> /\ n = Head(pool)
  /\ Cardinality({m \in Nodes : phase[m] \notin {"out", "queued"}}) < workers
  /\ pool' = Tail(pool)
  /\ phase' = [phase EXCEPT ![n] = "running"]
  /\ count' = [count EXCEPT ![n] = @ + 1]
  /\ UNCHANGED <<graphVars, setupVars, callVars, schedVars, uses, finished, ended, released>>

BugJoin ==                  \* the first failed future ends the wait
  /\ pc = "join"
  /\ failed \/ \A n \in Nodes : phase[n] = "out"
  /\ pc' = "round"
  /\ UNCHANGED <<graphVars, setupVars, status, nRuns, schedVars, uses, pool, phase, history,
                 released>>

(* future.get() on every future of the round. *)
Join ==
  /\ pc = "join"
  /\ \A n \in Nodes : phase[n] = "out"
  /\ pc' = "round"
  /\ UNCHANGED <<graphVars, setupVars, status, nRuns, schedVars, uses, pool, phase, history,
                 released>>

BugLeave ==                 \* an error does not end the loop
  /\ pc = "round"
  /\ completed = N \/ failed
  /\ pc' = IF failed THEN "round" ELSE "result"
  /\ UNCHANGED <<graphVars, setupVars, status, nRuns, schedVars, uses, pool, phase, history,
                 released>>

(* The loop ends: all nodes completed, or one failed. *)
Leave ==
  /\ pc = "round"
  /\ completed = N \/ failed
  /\ pc' = "result"
  /\ UNCHANGED <<graphVars, setupVars, status, nRuns, schedVars, uses, pool, phase, history,
                 released>>

Return ==
  /\ pc = "result"
  /\ status' = IF failed \/ completed # N THEN "error" ELSE "ok"
  /\ pc' = "idle"
  /\ UNCHANGED <<graphVars, setupVars, nRuns, schedVars, uses, pool, phase, history, released>>

(* The caller makes no further call. *)
Rest ==
  /\ pc = "idle" /\ nRuns = MaxRuns
  /\ UNCHANGED vars

NodeStep(n) ==
  \/ KernelRuns(n) \/ KernelFails(n) \/ ReleaseInputs(n) \/ EndNode(n) \/ EndFailed(n)
  \/ Pick(n) \/ Start(n)

CallerStep == SerialEnd \/ Launch \/ Join \/ Leave \/ Return

Next == Finalize \/ Run \/ Reject \/ CallerStep \/ (\E n \in Nodes : NodeStep(n)) \/ Rest

Spec == Init /\ [][Next]_vars

(* The pool's threads and the calling thread are scheduled. *)
FairSpec == Spec /\ WF_vars(CallerStep) /\ \A n \in Nodes : WF_vars(NodeStep(n))

-------------------------------------------------------------------------------
Phases == {"out", "queued", "running", "ran", "released", "failed"}

TypeOK ==
  /\ owner \in [Slots -> Nodes] /\ reads \in [Slots -> Values]
  /\ producer \in [Values -> Nodes \cup {None}] /\ kept \subseteq Values
  /\ finalized \in {"no", "yes", "rejected"} /\ workers \in 1..N
  /\ pc \in {"idle", "serial", "round", "join", "result"}
  /\ status \in {"none", "ok", "error"} /\ nRuns \in 0..MaxRuns
  /\ pending \in [Nodes -> Nat] /\ uses \in [Values -> Nat]
  /\ ready \in Seq(Nodes) /\ pool \in Seq(Nodes)
  /\ inFlight \in Nat /\ completed \in 0..N /\ failed \in BOOLEAN
  /\ phase \in [Nodes -> Phases]
  /\ finished \subseteq Nodes /\ ended \subseteq Nodes /\ released \subseteq Values
  /\ count \in [Nodes -> Nat]

(* A node starts only after every node it reads from has run in the same call,
   so it never computes on values a previous call left behind. *)
PredecessorsFirst ==
  \A n \in Nodes : phase[n] # "out" => Predecessors(n) \subseteq finished

(* No node is started twice in one call, however many of its slots read the same
   value and whatever order its predecessors end in. *)
RunsOnce ==
  \A n \in Nodes : count[n] <= 1 /\ (phase[n] = "queued" => count[n] = 0)

(* The device copy of a value is released only when no node still has to read it,
   and never if the value is an output or persistent. *)
ReleasedIsDead ==
  /\ released \cap kept = {}
  /\ \A s \in Slots : pc \in {"serial", "round", "join"} /\ reads[s] \in released =>
       owner[s] \in finished /\ phase[owner[s]] # "running"

(* A call that succeeded has evaluated every node, and has released every value
   that somebody reads and nobody keeps. *)
SuccessIsComplete ==
  pc = "idle" /\ status = "ok" /\ nRuns > 0 =>
    /\ finished = Nodes
    /\ \A s \in Slots : reads[s] \in released \cup kept

(* Whether it succeeded or failed, the call returns with no node queued or
   running: workers hold references to its local variables. *)
QuietOnReturn ==
  pc \in {"idle", "result"} => pool = <<>> /\ \A n \in Nodes : phase[n] = "out"

(* Run returns. *)
RunReturns == pc # "idle" ~> pc = "idle"

(* The scheduler implements the dataflow run. *)
Dataflow == INSTANCE DataflowRun WITH
  Graphs <- {[n \in Nodes |-> {g.producer[g.reads[s]] :
                 s \in {t \in Slots : g.owner[t] = n /\ g.producer[g.reads[t]] # None}}] :
             g \in Graphs},
  preds <- [n \in Nodes |-> Predecessors(n)],
  status <- IF pc # "idle" THEN "running" ELSE IF status = "none" THEN "idle" ELSE status,
  finished <- finished

ImplementsDataflow == Dataflow!Spec

-------------------------------------------------------------------------------
(* The strengthening under which the properties above are inductive. *)

Busy(n) == phase[n] # "out"

(* Slots whose producer has not ended, and those whose owner has not let go. *)
Awaited(m) == {s \in Deps(m) : producer[reads[s]] \notin ended}
Readers(v) == {s \in Slots : reads[s] = v /\ owner[s] \notin ended /\ phase[owner[s]] # "released"}

(* Whoever is ready, queued, running or started had all its predecessors ended. *)
ReadyInv ==
  /\ \A i \in 1..Len(ready) : phase[ready[i]] = "out" /\ count[ready[i]] = 0
  /\ \A i, j \in 1..Len(ready) : ready[i] = ready[j] => i = j
  /\ \A m \in Nodes : (\E i \in 1..Len(ready) : ready[i] = m) => Predecessors(m) \subseteq ended
  /\ \A n \in Nodes : Busy(n) \/ count[n] > 0 => Predecessors(n) \subseteq ended

(* What a node's phase says of it. *)
PhaseInv ==
  /\ ended \subseteq finished
  /\ \A n \in Nodes :
       /\ n \in finished => count[n] = 1
       /\ count[n] \in {0, 1}
       /\ phase[n] = "queued" => count[n] = 0
       /\ phase[n] \notin {"out", "queued"} => count[n] = 1
       /\ Busy(n) => n \notin ended
       /\ phase[n] \in {"ran", "released"} => n \in finished
       /\ phase[n] \in {"queued", "running", "failed"} => n \notin finished

(* The pool holds the queued nodes, once each. *)
QueueInv ==
  /\ \A i \in 1..Len(pool) : phase[pool[i]] = "queued"
  /\ \A i, j \in 1..Len(pool) : pool[i] = pool[j] => i = j

(* Where the caller can be while nodes are busy. *)
CallerInv ==
  /\ pc \in {"idle", "round", "result"} => \A n \in Nodes : ~Busy(n)
  /\ pc = "serial" => /\ \A n \in Nodes : phase[n] # "queued"
                      /\ \A m, n \in Nodes : Busy(m) /\ Busy(n) => m = n

(* The two counters are the sizes of the sets they stand for. *)
DependencyInv == pc # "idle" => \A m \in Nodes : pending[m] = Cardinality(Awaited(m))
UseInv ==
  /\ released \cap kept = {}
  /\ pc # "idle" => /\ \A v \in Values : uses[v] = Cardinality(Readers(v))
                    /\ \A v \in released : Readers(v) = {}

(* What a successful call can rely on: every end is counted, and what nobody has
   to read any more is released or kept. *)
CompletionInv ==
  pc # "idle" => /\ completed = Cardinality(ended)
                 /\ \A v \in Values \ (released \cup kept) :
                      Readers(v) = {} => \A s \in Slots : reads[s] # v

SchedulerInv ==
  ReadyInv /\ PhaseInv /\ QueueInv /\ CallerInv /\ DependencyInv /\ UseInv /\ CompletionInv
===============================================================================
