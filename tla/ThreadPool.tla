------------------------------ MODULE ThreadPool ------------------------------
(***************************************************************************)
(* ThreadPoolNv (include/util/thread_pool_nv.h): a fixed set of workers    *)
(* that serve a FIFO of tasks (enqueue) and, in preference to it, one      *)
(* active batch of index-parallel work (RunBatch).                         *)
(*                                                                         *)
(* A critical section under queue_mutex is one action: every field it      *)
(* touches is guarded by that mutex.  The lock-free steps of a batch       *)
(* (fetch_add on the next index, the user function, fetch_sub on the       *)
(* remaining count) are actions of their own, and so is every notify_one   *)
(* issued after the mutex was released.  A thread blocked on a condition   *)
(* variable is in a sleeping pc; a notification, or a spurious wakeup,     *)
(* moves it to the pc where it re-evaluates its predicate.                 *)
(***************************************************************************)
EXTENDS Integers, Sequences, FiniteSets

CONSTANTS
  Workers,      \* the pool's threads
  Clients,      \* threads that call enqueue, RunBatch and wait
  MaxSize,      \* bound on the task_count of a RunBatch call
  MaxBatches,   \* bound on the RunBatch calls of a behaviour
  MaxTasks,     \* bound on the enqueue calls of a behaviour
  MaxWaits,     \* bound on the wait calls of a behaviour
  Disciplined,  \* TRUE: no batch overlaps a queued task, and wait has one caller
  None          \* "no batch", "no client"

ASSUME PoolAssumption ==
  /\ Workers # {} /\ IsFiniteSet(Workers)
  /\ MaxSize \in Nat /\ MaxBatches \in Nat /\ MaxTasks \in Nat /\ MaxWaits \in Nat
  /\ Disciplined \in BOOLEAN
  /\ None \notin Clients /\ None \notin Nat

VARIABLES
  stop, tasks, inFlight,   \* stop, tasks, in_flight
  active,                  \* active_batch_: a batch number or None
  batchMutex,              \* holder of batch_mutex
  nBatches,                \* Batch objects made so far; they are numbered from 1
  size, target,            \* task_count_, target_workers_ of each
  registered, next,        \* registered_workers_, next_task_index_
  remaining,               \* remaining_
  wpc, wbatch, wtask,      \* a worker's place, its Batch, its task or index
  cpc, cbatch,             \* a client's place and the batch it runs
  left, mine,              \* notifications it has to send, futures it holds
  nTasks, nWaits,          \* enqueue and wait calls so far
  done,                    \* history: tasks whose function has returned
  runs,                    \* history: runs[b][i] executions of index i of batch b
  snapshot                 \* history: tasks enqueued before a client's wait began

queueVars == <<stop, tasks, inFlight, active>>
batchVars == <<nBatches, size, target, registered, next, remaining>>
workerVars == <<wpc, wbatch, wtask>>
clientVars == <<cpc, cbatch, left, mine, batchMutex>>
countVars == <<nTasks, nWaits>>
history == <<done, runs, snapshot>>
vars == <<queueVars, batchVars, workerVars, clientVars, countVars, history>>

Batches == 1..MaxBatches
Indices == 0..(MaxSize - 1)

(* Workers blocked on `condition`, in either of its two waits. *)
Sleepers == {w \in Workers : wpc[w] \in {"idle", "parked"}}

(* Where a sleeper goes when it is woken: back to its wait's predicate. *)
Woken(w) == IF wpc[w] = "idle" THEN "poll" ELSE "rejoin"

(* condition.notify_one: some sleeper wakes, or the notification is lost. *)
NotifyOneWorker ==
  IF Sleepers = {} THEN UNCHANGED wpc
  ELSE \E w \in Sleepers : wpc' = [wpc EXCEPT ![w] = Woken(w)]

(* min(task_count, workers.size()) *)
TargetWorkers(n) == IF n < Cardinality(Workers) THEN n ELSE Cardinality(Workers)

Init ==
  /\ stop = FALSE /\ tasks = <<>> /\ inFlight = 0
  /\ active = None /\ batchMutex = None
  /\ nBatches = 0
  /\ size = [b \in Batches |-> 0] /\ target = [b \in Batches |-> 0]
  /\ registered = [b \in Batches |-> 0] /\ next = [b \in Batches |-> 0]
  /\ remaining = [b \in Batches |-> 0]
  /\ wpc = [w \in Workers |-> "poll"]
  /\ wbatch = [w \in Workers |-> 0] /\ wtask = [w \in Workers |-> 0]
  /\ cpc = [c \in Clients |-> "ready"] /\ cbatch = [c \in Clients |-> 0]
  /\ left = [c \in Clients |-> 0] /\ mine = [c \in Clients |-> {}]
  /\ nTasks = 0 /\ nWaits = 0
  /\ done = {} /\ runs = [b \in Batches |-> [i \in Indices |-> 0]]
  /\ snapshot = [c \in Clients |-> {}]

-------------------------------------------------------------------------------
(* The worker loop: the critical section at the top of an iteration. *)

BugExit(w) ==               \* stop alone ends the loop: the queue is abandoned
  /\ wpc[w] = "poll" /\ stop
  /\ wpc' = [wpc EXCEPT ![w] = "exited"]
  /\ UNCHANGED <<queueVars, batchVars, wbatch, wtask, clientVars, countVars, history>>

Exit(w) ==
  /\ wpc[w] = "poll"
  /\ stop /\ tasks = <<>> /\ active = None
  /\ wpc' = [wpc EXCEPT ![w] = "exited"]
  /\ UNCHANGED <<queueVars, batchVars, wbatch, wtask, clientVars, countVars, history>>

Sleep(w) ==
  /\ wpc[w] = "poll"
  /\ ~stop /\ tasks = <<>> /\ active = None
  /\ wpc' = [wpc EXCEPT ![w] = "idle"]
  /\ UNCHANGED <<queueVars, batchVars, wbatch, wtask, clientVars, countVars, history>>

(* TryRegisterWorker succeeds. *)
Register(w) ==
  /\ wpc[w] = "poll" /\ active # None
  /\ registered[active] < target[active]
  /\ registered' = [registered EXCEPT ![active] = @ + 1]
  /\ wpc' = [wpc EXCEPT ![w] = "claim"]
  /\ wbatch' = [wbatch EXCEPT ![w] = active]
  /\ UNCHANGED <<queueVars, nBatches, size, target, next, remaining, wtask, clientVars,
                 countVars, history>>

(* TryRegisterWorker fails: a surplus worker waits for the batch to retire.
   Its predicate is false here: stop is never set while a batch is active. *)
Surplus(w) ==
  /\ wpc[w] = "poll" /\ active # None
  /\ registered[active] >= target[active]
  /\ wpc' = [wpc EXCEPT ![w] = "parked"]
  /\ wbatch' = [wbatch EXCEPT ![w] = active]
  /\ UNCHANGED <<queueVars, batchVars, wtask, clientVars, countVars, history>>

TakeTask(w) ==
  /\ wpc[w] = "poll" /\ active = None /\ tasks # <<>>
  /\ wpc' = [wpc EXCEPT ![w] = "task"]
  /\ wtask' = [wtask EXCEPT ![w] = Head(tasks)]
  /\ tasks' = Tail(tasks)
  /\ inFlight' = inFlight + 1
  /\ UNCHANGED <<stop, active, batchVars, wbatch, clientVars, countVars, history>>

-------------------------------------------------------------------------------
(* A worker inside Batch::RunTasks, and the wait that follows it. *)

BugClaim(w) ==              \* task_index > task_count_ as the end test
  LET b == wbatch[w]  i == next[b]  over == i > size[b] IN
  /\ wpc[w] = "claim"
  /\ next' = [next EXCEPT ![b] = @ + 1]
  /\ wpc' = [wpc EXCEPT ![w] = IF over THEN "rejoin" ELSE "exec"]
  /\ wtask' = [wtask EXCEPT ![w] = IF over THEN 0 ELSE i]
  /\ UNCHANGED <<queueVars, nBatches, size, target, registered, remaining, wbatch,
                 clientVars, countVars, history>>

(* fetch_add on next_task_index_. *)
Claim(w) ==
  LET b == wbatch[w]  i == next[b]  over == i >= size[b] IN
  /\ wpc[w] = "claim"
  /\ next' = [next EXCEPT ![b] = @ + 1]
  /\ wpc' = [wpc EXCEPT ![w] = IF over THEN "rejoin" ELSE "exec"]
  /\ wtask' = [wtask EXCEPT ![w] = IF over THEN 0 ELSE i]
  /\ UNCHANGED <<queueVars, nBatches, size, target, registered, remaining, wbatch,
                 clientVars, countVars, history>>

(* function_(task_index) returns or throws: the catch makes both end here. *)
Execute(w) ==
  /\ wpc[w] = "exec"
  /\ runs' = [runs EXCEPT ![wbatch[w]][wtask[w]] = @ + 1]
  /\ wpc' = [wpc EXCEPT ![w] = "count"]
  /\ UNCHANGED <<queueVars, batchVars, wbatch, wtask, clientVars, countVars, done, snapshot>>

BugCount(w) ==              \* fetch_sub returns the old value: nobody sees 0
  LET b == wbatch[w] IN
  /\ wpc[w] = "count"
  /\ remaining' = [remaining EXCEPT ![b] = @ - 1]
  /\ wpc' = [wpc EXCEPT ![w] = IF remaining[b] = 0 THEN "signal" ELSE "claim"]
  /\ wtask' = [wtask EXCEPT ![w] = 0]
  /\ UNCHANGED <<queueVars, nBatches, size, target, registered, next, wbatch, clientVars,
                 countVars, history>>

(* fetch_sub on remaining_; whoever takes it to zero must signal. *)
Count(w) ==
  LET b == wbatch[w] IN
  /\ wpc[w] = "count"
  /\ remaining' = [remaining EXCEPT ![b] = @ - 1]
  /\ wpc' = [wpc EXCEPT ![w] = IF remaining[b] = 1 THEN "signal" ELSE "claim"]
  /\ wtask' = [wtask EXCEPT ![w] = 0]
  /\ UNCHANGED <<queueVars, nBatches, size, target, registered, next, wbatch, clientVars,
                 countVars, history>>

(* completed_.notify_one of the batch: its one waiter is the RunBatch caller. *)
Signal(w) ==
  /\ wpc[w] = "signal"
  /\ cpc' = [c \in Clients |-> IF cpc[c] = "batchAsleep" /\ cbatch[c] = wbatch[w]
                               THEN "await" ELSE cpc[c]]
  /\ wpc' = [wpc EXCEPT ![w] = "claim"]
  /\ UNCHANGED <<queueVars, batchVars, wbatch, wtask, cbatch, left, mine, batchMutex,
                 countVars, history>>

(* The predicate stop || active_batch_ != batch of the retirement wait. *)
Rejoin(w) ==
  LET leave == stop \/ active # wbatch[w] IN
  /\ wpc[w] = "rejoin"
  /\ wpc' = [wpc EXCEPT ![w] = IF leave THEN "poll" ELSE "parked"]
  /\ wbatch' = [wbatch EXCEPT ![w] = IF leave THEN 0 ELSE @]
  /\ UNCHANGED <<queueVars, batchVars, wtask, clientVars, countVars, history>>

-------------------------------------------------------------------------------
(* A worker with an ordinary task. *)

RunTask(w) ==
  /\ wpc[w] = "task"
  /\ done' = done \cup {wtask[w]}
  /\ wpc' = [wpc EXCEPT ![w] = "finish"]
  /\ wtask' = [wtask EXCEPT ![w] = 0]
  /\ UNCHANGED <<queueVars, batchVars, wbatch, clientVars, countVars, runs, snapshot>>

(* in_flight-- and, when that leaves the pool empty, completed.notify_one. *)
Finish(w) ==
  LET waiting == {c \in Clients : cpc[c] = "waitAsleep"} IN
  /\ wpc[w] = "finish"
  /\ inFlight' = inFlight - 1
  /\ IF inFlight = 1 /\ tasks = <<>> /\ waiting # {}
     THEN \E c \in waiting : cpc' = [cpc EXCEPT ![c] = "wait"]
     ELSE UNCHANGED cpc
  /\ wpc' = [wpc EXCEPT ![w] = "poll"]
  /\ UNCHANGED <<stop, tasks, active, batchVars, wbatch, wtask, cbatch, left, mine,
                 batchMutex, countVars, history>>

SpuriousWakeup(w) ==
  /\ w \in Sleepers
  /\ wpc' = [wpc EXCEPT ![w] = Woken(w)]
  /\ UNCHANGED <<queueVars, batchVars, wbatch, wtask, clientVars, countVars, history>>

-------------------------------------------------------------------------------
(* Clients: RunBatch. *)

StartBatch(c) ==
  /\ cpc[c] = "ready" /\ nBatches < MaxBatches
  /\ batchMutex = None
  /\ Disciplined => 1..nTasks \subseteq done
  /\ batchMutex' = c
  /\ cpc' = [cpc EXCEPT ![c] = "install"]
  /\ UNCHANGED <<queueVars, batchVars, workerVars, cbatch, left, mine, countVars, history>>

BugInstall(c) ==            \* remaining_ starts one short
  /\ cpc[c] = "install"
  /\ nBatches' = nBatches + 1
  /\ active' = nBatches + 1
  /\ \E n \in 1..MaxSize :
       /\ size' = [size EXCEPT ![nBatches + 1] = n]
       /\ remaining' = [remaining EXCEPT ![nBatches + 1] = n - 1]
       /\ target' = [target EXCEPT ![nBatches + 1] = TargetWorkers(n)]
       /\ left' = [left EXCEPT ![c] = TargetWorkers(n)]
  /\ cpc' = [cpc EXCEPT ![c] = "notify"]
  /\ cbatch' = [cbatch EXCEPT ![c] = nBatches + 1]
  /\ UNCHANGED <<stop, tasks, inFlight, registered, next, workerVars, mine, batchMutex,
                 countVars, history>>

(* The Batch is made and becomes active_batch_. *)
Install(c) ==
  /\ cpc[c] = "install"
  /\ nBatches' = nBatches + 1
  /\ active' = nBatches + 1
  /\ \E n \in 1..MaxSize :
       /\ size' = [size EXCEPT ![nBatches + 1] = n]
       /\ remaining' = [remaining EXCEPT ![nBatches + 1] = n]
       /\ target' = [target EXCEPT ![nBatches + 1] = TargetWorkers(n)]
       /\ left' = [left EXCEPT ![c] = TargetWorkers(n)]
  /\ cpc' = [cpc EXCEPT ![c] = "notify"]
  /\ cbatch' = [cbatch EXCEPT ![c] = nBatches + 1]
  /\ UNCHANGED <<stop, tasks, inFlight, registered, next, workerVars, mine, batchMutex,
                 countVars, history>>

NotifyTarget(c) ==
  /\ cpc[c] = "notify"
  /\ NotifyOneWorker
  /\ left' = [left EXCEPT ![c] = @ - 1]
  /\ cpc' = [cpc EXCEPT ![c] = IF left[c] = 1 THEN "await" ELSE "notify"]
  /\ UNCHANGED <<queueVars, batchVars, wbatch, wtask, cbatch, mine, batchMutex, countVars,
                 history>>

(* WaitForTasks: remaining_ is read under the batch's mutex. *)
AwaitBatch(c) ==
  /\ cpc[c] = "await"
  /\ cpc' = [cpc EXCEPT ![c] = IF remaining[cbatch[c]] = 0 THEN "retire" ELSE "batchAsleep"]
  /\ UNCHANGED <<queueVars, batchVars, workerVars, cbatch, left, mine, batchMutex,
                 countVars, history>>

(* active_batch_.reset() and completed.notify_all; `condition` is not notified. *)
Retire(c) ==
  /\ cpc[c] = "retire"
  /\ active' = None
  /\ cpc' = [d \in Clients |-> IF d = c THEN "rethrow"
                               ELSE IF cpc[d] = "waitAsleep" THEN "wait" ELSE cpc[d]]
  /\ UNCHANGED <<stop, tasks, inFlight, batchVars, workerVars, cbatch, left, mine,
                 batchMutex, countVars, history>>

(* RethrowIfFailed, then batch_lock is released on the way out. *)
Rethrow(c) ==
  /\ cpc[c] = "rethrow"
  /\ batchMutex' = None
  /\ cpc' = [cpc EXCEPT ![c] = "ready"]
  /\ cbatch' = [cbatch EXCEPT ![c] = 0]
  /\ UNCHANGED <<queueVars, batchVars, workerVars, left, mine, countVars, history>>

-------------------------------------------------------------------------------
(* Clients: enqueue, future.get, wait, and the destructor. *)

Enqueue(c) ==
  /\ cpc[c] = "ready" /\ nTasks < MaxTasks
  /\ Disciplined => batchMutex = None
  /\ nTasks' = nTasks + 1
  /\ tasks' = Append(tasks, nTasks + 1)
  /\ mine' = [mine EXCEPT ![c] = @ \cup {nTasks + 1}]
  /\ cpc' = [cpc EXCEPT ![c] = "enqueued"]
  /\ UNCHANGED <<stop, inFlight, active, batchVars, workerVars, cbatch, left, batchMutex,
                 nWaits, history>>

BugNotifyEnqueued(c) ==     \* the notification is forgotten
  /\ cpc[c] = "enqueued"
  /\ cpc' = [cpc EXCEPT ![c] = "ready"]
  /\ UNCHANGED <<queueVars, batchVars, workerVars, cbatch, left, mine, batchMutex,
                 countVars, history>>

NotifyEnqueued(c) ==
  /\ cpc[c] = "enqueued"
  /\ NotifyOneWorker
  /\ cpc' = [cpc EXCEPT ![c] = "ready"]
  /\ UNCHANGED <<queueVars, batchVars, wbatch, wtask, cbatch, left, mine, batchMutex,
                 countVars, history>>

(* future.get() on each of the caller's futures. *)
CallGet(c) ==
  /\ cpc[c] = "ready" /\ mine[c] # {}
  /\ cpc' = [cpc EXCEPT ![c] = "get"]
  /\ UNCHANGED <<queueVars, batchVars, workerVars, cbatch, left, mine, batchMutex,
                 countVars, history>>

GetReturns(c) ==
  /\ cpc[c] = "get" /\ mine[c] \subseteq done
  /\ cpc' = [cpc EXCEPT ![c] = "ready"]
  /\ mine' = [mine EXCEPT ![c] = {}]
  /\ UNCHANGED <<queueVars, batchVars, workerVars, cbatch, left, batchMutex, countVars,
                 history>>

CallWait(c) ==
  /\ cpc[c] = "ready" /\ nWaits < MaxWaits
  /\ Disciplined => \A d \in Clients : cpc[d] \notin {"wait", "waitAsleep"}
  /\ nWaits' = nWaits + 1
  /\ snapshot' = [snapshot EXCEPT ![c] = 1..nTasks]
  /\ cpc' = [cpc EXCEPT ![c] = "wait"]
  /\ UNCHANGED <<queueVars, batchVars, workerVars, cbatch, left, mine, batchMutex, nTasks,
                 done, runs>>

BugCheckWait(c) ==          \* a task already taken from the queue is forgotten
  /\ cpc[c] = "wait"
  /\ cpc' = [cpc EXCEPT ![c] = IF tasks = <<>> /\ active = None THEN "waited"
                               ELSE "waitAsleep"]
  /\ UNCHANGED <<queueVars, batchVars, workerVars, cbatch, left, mine, batchMutex,
                 countVars, history>>

CheckWait(c) ==
  /\ cpc[c] = "wait"
  /\ cpc' = [cpc EXCEPT ![c] = IF inFlight = 0 /\ tasks = <<>> /\ active = None
                               THEN "waited" ELSE "waitAsleep"]
  /\ UNCHANGED <<queueVars, batchVars, workerVars, cbatch, left, mine, batchMutex,
                 countVars, history>>

WaitReturns(c) ==
  /\ cpc[c] = "waited"
  /\ cpc' = [cpc EXCEPT ![c] = "ready"]
  /\ snapshot' = [snapshot EXCEPT ![c] = {}]
  /\ UNCHANGED <<queueVars, batchVars, workerVars, cbatch, left, mine, batchMutex,
                 countVars, done, runs>>

(* The client stops using the pool. *)
Leave(c) ==
  /\ cpc[c] = "ready"
  /\ cpc' = [cpc EXCEPT ![c] = "left"]
  /\ UNCHANGED <<queueVars, batchVars, workerVars, cbatch, left, mine, batchMutex,
                 countVars, history>>

BugDestroy ==               \* condition.notify_one instead of notify_all
  /\ ~stop
  /\ \A c \in Clients : cpc[c] = "left"
  /\ stop' = TRUE
  /\ NotifyOneWorker
  /\ UNCHANGED <<tasks, inFlight, active, batchVars, wbatch, wtask, clientVars, countVars,
                 history>>

(* ~ThreadPoolNv, called once nobody uses the pool any more. *)
Destroy ==
  /\ ~stop
  /\ \A c \in Clients : cpc[c] = "left"
  /\ stop' = TRUE
  /\ wpc' = [w \in Workers |-> IF w \in Sleepers THEN Woken(w) ELSE wpc[w]]
  /\ UNCHANGED <<tasks, inFlight, active, batchVars, wbatch, wtask, clientVars, countVars,
                 history>>

Joined == \A w \in Workers : wpc[w] = "exited"

Destroyed == Joined /\ UNCHANGED vars

-------------------------------------------------------------------------------
WorkerStep(w) ==
  \/ Exit(w) \/ Sleep(w) \/ Register(w) \/ Surplus(w) \/ TakeTask(w)
  \/ Claim(w) \/ Execute(w) \/ Count(w) \/ Signal(w) \/ Rejoin(w)
  \/ RunTask(w) \/ Finish(w)

(* What a client does once it has made a call, until the call returns. *)
ClientStep(c) ==
  \/ Install(c) \/ NotifyTarget(c) \/ AwaitBatch(c) \/ Retire(c) \/ Rethrow(c)
  \/ NotifyEnqueued(c) \/ GetReturns(c) \/ CheckWait(c) \/ WaitReturns(c)

Call(c) == StartBatch(c) \/ Enqueue(c) \/ CallGet(c) \/ CallWait(c) \/ Leave(c)

Next ==
  \/ \E w \in Workers : WorkerStep(w) \/ SpuriousWakeup(w)
  \/ \E c \in Clients : ClientStep(c) \/ Call(c)
  \/ Destroy
  \/ Destroyed

Spec == Init /\ [][Next]_vars

(* The scheduler runs every thread that can run; nobody has to make a call,
   and a spurious wakeup never has to happen. *)
Fairness ==
  /\ \A w \in Workers : WF_vars(WorkerStep(w))
  /\ \A c \in Clients : WF_vars(ClientStep(c))

FairSpec == Spec /\ Fairness

-------------------------------------------------------------------------------
WorkerPcs == {"poll", "idle", "claim", "exec", "count", "signal", "rejoin", "parked",
              "task", "finish", "exited"}
ClientPcs == {"ready", "install", "notify", "await", "batchAsleep", "retire", "rethrow",
              "enqueued", "get", "wait", "waitAsleep", "waited", "left"}

(* The types of the batch machinery: 0 stands for "holds no batch". *)
BatchTypeOK ==
  /\ nBatches \in 0..MaxBatches
  /\ active \in 1..nBatches \cup {None}
  /\ batchMutex \in Clients \cup {None}
  /\ size \in [Batches -> 0..MaxSize]
  /\ target \in [Batches -> Nat] /\ registered \in [Batches -> Nat]
  /\ next \in [Batches -> Nat] /\ remaining \in [Batches -> Int]
  /\ wpc \in [Workers -> WorkerPcs] /\ wbatch \in [Workers -> 0..nBatches]
  /\ wtask \in [Workers -> Nat]
  /\ cpc \in [Clients -> ClientPcs] /\ cbatch \in [Clients -> 0..nBatches]
  /\ runs \in [Batches -> [Indices -> Nat]]

(* Every field has its type. *)
TypeOK ==
  /\ BatchTypeOK
  /\ stop \in BOOLEAN
  /\ nTasks \in 0..MaxTasks /\ nWaits \in 0..MaxWaits
  /\ tasks \in Seq(1..nTasks)
  /\ inFlight \in Nat
  /\ remaining \in [Batches -> Nat]
  /\ left \in [Clients -> Nat] /\ mine \in [Clients -> SUBSET (1..nTasks)]
  /\ done \subseteq 1..nTasks
  /\ snapshot \in [Clients -> SUBSET (1..nTasks)]

(* The worker is inside RunTask of batch b: in its function or about to count. *)
InBatch(w, b) == wbatch[w] = b /\ wpc[w] \in {"exec", "count"}

(* The indices of batch b that remaining_ still has to count down. *)
Uncounted(b) ==
  {i \in 0..(size[b] - 1) :
     runs[b][i] = 0 \/ \E w \in Workers : wpc[w] = "count" /\ wbatch[w] = b /\ wtask[w] = i}

(* When RunBatch passes its wait, every index of the batch has been executed
   exactly once and no worker is still inside the batch's function, whose
   captures live in the caller's frame. *)
BatchCompleteBeforeReturn ==
  \A c \in Clients : cpc[c] \in {"retire", "rethrow"} =>
    /\ \A i \in 0..(size[cbatch[c]] - 1) : runs[cbatch[c]][i] = 1
    /\ \A w \in Workers : ~InBatch(w, cbatch[c])

(* The function of a batch is never entered once its RunBatch has returned, by a
   worker that registered late and still holds the retired Batch object. *)
NoRunAfterRetire ==
  \A w \in Workers : wpc[w] \in {"exec", "count"} => active = wbatch[w]

(* The lock-free count never runs ahead of the work: remaining_ is the number of
   indices not yet executed, or executed and not yet subtracted. *)
RemainingIsUncounted ==
  \A b \in 1..nBatches : remaining[b] = Cardinality(Uncounted(b))

(* wait() returns only when every task enqueued before the call has run, whatever
   was enqueued or batched meanwhile. *)
WaitCoversEarlierTasks ==
  \A c \in Clients : cpc[c] = "waited" => snapshot[c] \subseteq done

(* The destructor's join finds nothing left to run: stop does not drop the queue. *)
JoinDrainsQueue == Joined => 1..nTasks \subseteq done

(* RunBatch, future.get() and wait() return. *)
CallsReturn ==
  \A c \in Clients :
    (cpc[c] = "install" ~> cpc[c] = "ready") /\ (cpc[c] \in {"get", "wait"} ~> cpc[c] = "ready")

(* A task that was enqueued is run. *)
QueuedTaskRuns == \A t \in 1..MaxTasks : t \in 1..nTasks ~> t \in done

(* The destructor returns: once stop is set every worker leaves its loop. *)
DestructorReturns == stop ~> Joined

-------------------------------------------------------------------------------
(* The strengthening under which the batch properties are inductive. *)

Holding == {"install", "notify", "await", "batchAsleep", "retire", "rethrow"}
Inside == {"notify", "await", "batchAsleep", "retire"}

(* Who holds batch_mutex, and whose batch is active. *)
CallerInv ==
  /\ \A c \in Clients :
       /\ cpc[c] \in Holding => batchMutex = c
       /\ cpc[c] = "install" => active = None /\ nBatches < MaxBatches
       /\ cpc[c] \in Inside => active # None /\ cbatch[c] = active
       /\ cpc[c] = "rethrow" => cbatch[c] \in 1..nBatches
  /\ active # None => batchMutex # None /\ cpc[batchMutex] \in Inside

(* Which indices a worker may hold, and that no two hold the same one. *)
WorkerInv ==
  /\ \A w \in Workers :
       /\ wpc[w] \in {"claim", "exec", "count", "signal"} => wbatch[w] # 0
       /\ wpc[w] \in {"exec", "count"} =>
            /\ wtask[w] < size[wbatch[w]]
            /\ wtask[w] < next[wbatch[w]]
            /\ runs[wbatch[w]][wtask[w]] = IF wpc[w] = "exec" THEN 0 ELSE 1
  /\ \A v, w \in Workers :
       /\ wpc[v] \in {"exec", "count"} /\ wpc[w] \in {"exec", "count"}
       /\ wbatch[v] = wbatch[w] /\ wtask[v] = wtask[w]
       => v = w

(* An index nobody has claimed has not run, and none runs twice. *)
RunsInv ==
  \A b \in Batches : \A i \in Indices :
    /\ runs[b][i] \in {0, 1}
    /\ i >= next[b] => runs[b][i] = 0

(* A Batch not yet made is untouched. *)
FreshInv == \A b \in (nBatches + 1)..MaxBatches : next[b] = 0

(* Only the active batch is unfinished, and its caller waits until it is not. *)
CountInv ==
  /\ RemainingIsUncounted
  /\ \A b \in 1..nBatches : b # active => remaining[b] = 0
  /\ \A c \in Clients : cpc[c] = "retire" => remaining[active] = 0

PoolInv == CallerInv /\ WorkerInv /\ RunsInv /\ FreshInv /\ CountInv

-------------------------------------------------------------------------------
(* The strengthening for the task queue. *)

Taken == {w \in Workers : wpc[w] \in {"task", "finish"}}

(* Every task enqueued is queued, in a worker's hands or done, and in_flight
   counts the hands. *)
TrackInv ==
  /\ inFlight = Cardinality(Taken)
  /\ \A w \in Workers : wpc[w] = "task" => wtask[w] \in 1..nTasks
  /\ \A t \in 1..nTasks :
       \/ t \in done
       \/ \E i \in 1..Len(tasks) : tasks[i] = t
       \/ \E w \in Workers : wpc[w] = "task" /\ wtask[w] = t

(* What wait has seen stays true; the pool is stopped when its clients are gone, and
   no worker leaves before the queue is empty. *)
EndInv ==
  /\ \A c \in Clients : cpc[c] = "waited" => snapshot[c] \subseteq done
  /\ stop => \A c \in Clients : cpc[c] = "left"
  /\ \A w \in Workers : wpc[w] = "exited" => stop /\ tasks = <<>>

(* A notifying client has notifications left, and a Batch not made counts nothing. *)
NotifyInv ==
  /\ \A c \in Clients : cpc[c] = "notify" => left[c] > 0
  /\ \A b \in (nBatches + 1)..MaxBatches : remaining[b] = 0

TaskInv == TrackInv /\ EndInv /\ NotifyInv

===============================================================================
