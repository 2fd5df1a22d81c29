--------------------------- MODULE ThreadPoolProofs ---------------------------
(***************************************************************************)
(* Proofs about ThreadPool for any number of workers, clients, batches,    *)
(* indices and tasks: a batch's count matches its work, so RunBatch        *)
(* returns only when every index has been executed exactly once, and no    *)
(* worker enters the batch's function afterwards; and no task is lost.     *)
(***************************************************************************)
EXTENDS ThreadPool, FiniteSetTheorems, SequenceTheorems, TLAPS

(* The queue holds task numbers, which TakeTask puts in a worker. *)
QueueType == tasks \in Seq(Nat) /\ nTasks \in Nat

IInv == BatchTypeOK /\ QueueType /\ PoolInv

-------------------------------------------------------------------------------
(* RunBatch asks for a natural number of workers. *)
LEMMA TargetWorkersNat == \A n \in Nat : TargetWorkers(n) \in Nat
  BY FS_CardinalityType, PoolAssumption DEF TargetWorkers, PoolAssumption

(* The queue only ever holds task numbers. *)
LEMMA QueueTypeStep == QueueType /\ [Next]_vars => QueueType'
<1> SUFFICES ASSUME QueueType, [Next]_vars PROVE QueueType'
  OBVIOUS
<1> USE DEF QueueType
<1>1. ASSUME NEW w \in Workers, TakeTask(w) PROVE QueueType'
  BY <1>1 DEF TakeTask, countVars
<1>2. ASSUME NEW c \in Clients, Enqueue(c) PROVE QueueType'
  BY <1>2 DEF Enqueue
<1>3. ASSUME UNCHANGED <<tasks, nTasks>> PROVE QueueType'
  BY <1>3
<1>4. ASSUME NEW w \in Workers, WorkerStep(w) \/ SpuriousWakeup(w), ~TakeTask(w)
      PROVE UNCHANGED <<tasks, nTasks>>
  BY <1>4 DEF WorkerStep, SpuriousWakeup, Exit, Sleep, Register, Surplus, Claim,
       Execute, Count, Signal, Rejoin, RunTask, Finish, queueVars, countVars
<1>5. ASSUME NEW c \in Clients, ClientStep(c) \/ Call(c), ~Enqueue(c)
      PROVE UNCHANGED <<tasks, nTasks>>
  BY <1>5 DEF ClientStep, Call, Install, NotifyTarget, AwaitBatch, Retire, Rethrow,
       NotifyEnqueued, GetReturns, CheckWait, WaitReturns, StartBatch, CallGet,
       CallWait, Leave, queueVars, countVars
<1>6. Destroy \/ Destroyed \/ UNCHANGED vars => UNCHANGED <<tasks, nTasks>>
  BY DEF Destroy, Destroyed, vars, queueVars, countVars
<1> QED
  BY <1>1, <1>2, <1>3, <1>4, <1>5, <1>6 DEF Next

(* notify_one moves a sleeper to a pc outside every batch. *)
LEMMA NotifyOneWorkerType ==
  ASSUME wpc \in [Workers -> WorkerPcs], NotifyOneWorker
  PROVE  wpc' \in [Workers -> WorkerPcs]
  BY DEF NotifyOneWorker, Sleepers, Woken, WorkerPcs

(* A worker inside RunTasks holds a batch that exists, and an index of it. *)
LEMMA BatchOfWorker ==
  ASSUME BatchTypeOK, WorkerInv, NEW w \in Workers,
         wpc[w] \in {"claim", "exec", "count", "signal"}
  PROVE  /\ wbatch[w] \in Batches /\ wbatch[w] \in 1..nBatches
         /\ wpc[w] \in {"exec", "count"} =>
              wtask[w] \in Indices /\ wtask[w] \in 0..(size[wbatch[w]] - 1)
<1>1. MaxBatches \in Nat /\ MaxSize \in Nat
  BY PoolAssumption DEF PoolAssumption
<1>2. wbatch[w] # 0
  BY DEF WorkerInv
<1>3. wbatch[w] \in 1..nBatches /\ nBatches \in 0..MaxBatches
  BY <1>2 DEF BatchTypeOK
<1>4. wbatch[w] \in Batches
  BY <1>1, <1>3 DEF Batches
<1>5. size[wbatch[w]] \in 0..MaxSize /\ wtask[w] \in Nat
  BY <1>4 DEF BatchTypeOK
<1>6. wpc[w] \in {"exec", "count"} => wtask[w] < size[wbatch[w]]
  BY DEF WorkerInv
<1> QED
  BY <1>1, <1>3, <1>4, <1>5, <1>6 DEF Indices

(* Every step keeps the types of the batch machinery. *)
LEMMA BatchTypeStep == BatchTypeOK /\ QueueType /\ CallerInv /\ WorkerInv /\ [Next]_vars
                         => BatchTypeOK'
<1> SUFFICES ASSUME BatchTypeOK, QueueType, CallerInv, WorkerInv, [Next]_vars PROVE BatchTypeOK'
  OBVIOUS
<1>0. MaxBatches \in Nat /\ MaxSize \in Nat /\ None \notin Clients
  BY PoolAssumption DEF PoolAssumption
<1> USE <1>0 DEF BatchTypeOK, queueVars, batchVars, workerVars, clientVars, history
<1>1. ASSUME NEW w \in Workers, WorkerStep(w) \/ SpuriousWakeup(w) PROVE BatchTypeOK'
  <2>1. CASE Exit(w) BY <2>1 DEF Exit, WorkerPcs
  <2>2. CASE Sleep(w) BY <2>2 DEF Sleep, WorkerPcs
  <2>3. CASE Register(w)
    <3>1. active \in Batches /\ active \in 0..nBatches
      BY <2>3 DEF Register, Batches
    <3> QED
      BY <2>3, <3>1 DEF Register, WorkerPcs
  <2>4. CASE Surplus(w) BY <2>4 DEF Surplus, WorkerPcs
  <2>5. CASE TakeTask(w)
    <3>1. Head(tasks) \in Nat
      BY <2>5 DEF TakeTask, QueueType
    <3> QED
      BY <2>5, <3>1 DEF TakeTask, WorkerPcs
  <2>6. CASE Claim(w)
    <3>1. wbatch[w] \in Batches
      BY <2>6, BatchOfWorker DEF Claim
    <3>2. next' \in [Batches -> Nat] /\ wtask' \in [Workers -> Nat]
      BY <2>6, <3>1 DEF Claim
    <3>3. wpc' \in [Workers -> WorkerPcs]
      BY <2>6 DEF Claim, WorkerPcs
    <3> QED
      BY <2>6, <3>2, <3>3 DEF Claim
  <2>7. CASE Execute(w)
    <3>1. wbatch[w] \in Batches /\ wtask[w] \in Indices
      BY <2>7, BatchOfWorker DEF Execute
    <3>2. runs' \in [Batches -> [Indices -> Nat]]
      BY <2>7, <3>1 DEF Execute
    <3>3. wpc' \in [Workers -> WorkerPcs]
      BY <2>7 DEF Execute, WorkerPcs
    <3> QED
      BY <2>7, <3>2, <3>3 DEF Execute
  <2>8. CASE Count(w)
    <3>1. wbatch[w] \in Batches
      BY <2>8, BatchOfWorker DEF Count
    <3>2. remaining' \in [Batches -> Int] /\ wtask' \in [Workers -> Nat]
      BY <2>8, <3>1 DEF Count
    <3>3. wpc' \in [Workers -> WorkerPcs]
      BY <2>8 DEF Count, WorkerPcs
    <3> QED
      BY <2>8, <3>2, <3>3 DEF Count
  <2>9. CASE Signal(w) BY <2>9 DEF Signal, WorkerPcs, ClientPcs
  <2>10. CASE Rejoin(w) BY <2>10 DEF Rejoin, WorkerPcs
  <2>11. CASE RunTask(w) BY <2>11 DEF RunTask, WorkerPcs
  <2>12. CASE Finish(w) BY <2>12 DEF Finish, WorkerPcs, ClientPcs
  <2>13. CASE SpuriousWakeup(w) BY <2>13 DEF SpuriousWakeup, Sleepers, Woken, WorkerPcs
  <2> QED
    BY <1>1, <2>1, <2>2, <2>3, <2>4, <2>5, <2>6, <2>7, <2>8, <2>9, <2>10, <2>11, <2>12,
       <2>13 DEF WorkerStep
<1>2. ASSUME NEW c \in Clients, ClientStep(c) \/ Call(c) PROVE BatchTypeOK'
  <2>1. CASE Install(c)
    <3>1. nBatches + 1 \in Batches /\ nBatches' = nBatches + 1 /\ nBatches' \in 0..MaxBatches
      BY <2>1 DEF Install, CallerInv, Batches
    <3>2. PICK n \in 1..MaxSize :
            /\ size' = [size EXCEPT ![nBatches + 1] = n]
            /\ target' = [target EXCEPT ![nBatches + 1] = TargetWorkers(n)]
            /\ remaining' = [remaining EXCEPT ![nBatches + 1] = n]
      BY <2>1 DEF Install
    <3>3. /\ size' \in [Batches -> 0..MaxSize] /\ target' \in [Batches -> Nat]
          /\ remaining' \in [Batches -> Int]
      BY <3>1, <3>2, TargetWorkersNat
    <3>4. wbatch' \in [Workers -> 0..nBatches'] /\ cbatch' \in [Clients -> 0..nBatches']
      BY <2>1, <3>1 DEF Install
    <3> QED
      BY <2>1, <3>1, <3>3, <3>4 DEF Install, ClientPcs
  <2>2. CASE NotifyTarget(c)
    BY <2>2, NotifyOneWorkerType DEF NotifyTarget, ClientPcs
  <2>3. CASE AwaitBatch(c) BY <2>3 DEF AwaitBatch, ClientPcs
  <2>4. CASE Retire(c) BY <2>4 DEF Retire, ClientPcs
  <2>5. CASE Rethrow(c) BY <2>5 DEF Rethrow, ClientPcs
  <2>6. CASE NotifyEnqueued(c)
    BY <2>6, NotifyOneWorkerType DEF NotifyEnqueued, ClientPcs
  <2>7. CASE GetReturns(c) BY <2>7 DEF GetReturns, ClientPcs
  <2>8. CASE CheckWait(c) BY <2>8 DEF CheckWait, ClientPcs
  <2>9. CASE WaitReturns(c) BY <2>9 DEF WaitReturns, ClientPcs
  <2>10. CASE StartBatch(c) BY <2>10 DEF StartBatch, ClientPcs
  <2>11. CASE Enqueue(c) BY <2>11 DEF Enqueue, ClientPcs
  <2>12. CASE CallGet(c) BY <2>12 DEF CallGet, ClientPcs
  <2>13. CASE CallWait(c) BY <2>13 DEF CallWait, ClientPcs
  <2>14. CASE Leave(c) BY <2>14 DEF Leave, ClientPcs
  <2> QED
    BY <1>2, <2>1, <2>2, <2>3, <2>4, <2>5, <2>6, <2>7, <2>8, <2>9, <2>10, <2>11, <2>12,
       <2>13, <2>14 DEF ClientStep, Call
<1>3. CASE Destroy BY <1>3 DEF Destroy, Sleepers, Woken, WorkerPcs
<1>4. CASE Destroyed \/ UNCHANGED vars BY <1>4 DEF Destroyed, vars
<1> QED
  BY <1>1, <1>2, <1>3, <1>4 DEF Next

-------------------------------------------------------------------------------
(* Which actions write which variable. *)
LEMMA Frames ==
  ASSUME [Next]_vars
  PROVE  /\ UNCHANGED runs \/ \E w \in Workers : Execute(w)
         /\ UNCHANGED next \/ \E w \in Workers : Claim(w)
         /\ UNCHANGED <<nBatches, size>> \/ \E c \in Clients : Install(c)
<1> USE DEF queueVars, batchVars, workerVars, clientVars, history, vars, countVars
<1>1. ASSUME NEW w \in Workers, WorkerStep(w)
      PROVE  /\ UNCHANGED runs \/ Execute(w)
             /\ UNCHANGED next \/ Claim(w)
             /\ UNCHANGED <<nBatches, size>>
  BY <1>1 DEF WorkerStep, Exit, Sleep, Register, Surplus, TakeTask, Claim, Execute, Count,
       Signal, Rejoin, RunTask, Finish
<1>2. ASSUME NEW w \in Workers, SpuriousWakeup(w)
      PROVE  UNCHANGED <<runs, next, nBatches, size>>
  BY <1>2 DEF SpuriousWakeup
<1>3. ASSUME NEW c \in Clients, ClientStep(c) \/ Call(c)
      PROVE  /\ UNCHANGED <<runs, next>>
             /\ UNCHANGED <<nBatches, size>> \/ Install(c)
  BY <1>3 DEF ClientStep, Call, Install, NotifyTarget, AwaitBatch, Retire, Rethrow,
       NotifyEnqueued, GetReturns, CheckWait, WaitReturns, StartBatch, Enqueue, CallGet,
       CallWait, Leave
<1>4. Destroy \/ Destroyed \/ UNCHANGED vars => UNCHANGED <<runs, next, nBatches, size>>
  BY DEF Destroy, Destroyed
<1> QED
  BY <1>1, <1>2, <1>3, <1>4 DEF Next

(* An index is run only by the worker that claimed it. *)
LEMMA RunsInvStep == BatchTypeOK /\ WorkerInv /\ RunsInv /\ [Next]_vars => RunsInv'
<1> SUFFICES ASSUME BatchTypeOK, WorkerInv, RunsInv, [Next]_vars PROVE RunsInv'
  OBVIOUS
<1>0. runs \in [Batches -> [Indices -> Nat]] /\ next \in [Batches -> Nat]
  BY DEF BatchTypeOK
<1>1. ASSUME NEW w \in Workers, Execute(w) PROVE RunsInv'
  <2>1. /\ wbatch[w] \in Batches /\ wtask[w] \in Indices
        /\ wtask[w] < next[wbatch[w]] /\ runs[wbatch[w]][wtask[w]] = 0
    BY <1>1, BatchOfWorker DEF Execute, WorkerInv
  <2>2. /\ runs' = [runs EXCEPT ![wbatch[w]][wtask[w]] = @ + 1]
        /\ next' = next
    BY <1>1 DEF Execute, batchVars
  <2>3. ASSUME NEW b \in Batches, NEW i \in Indices
        PROVE  runs'[b][i] \in {0, 1} /\ (i >= next'[b] => runs'[b][i] = 0)
    <3>1. CASE b = wbatch[w] /\ i = wtask[w]
      BY <1>0, <2>1, <2>2, <3>1 DEF Indices
    <3>2. CASE ~(b = wbatch[w] /\ i = wtask[w])
      BY <1>0, <2>1, <2>2, <3>2 DEF RunsInv
    <3> QED
      BY <3>1, <3>2
  <2> QED
    BY <2>3 DEF RunsInv
<1>2. ASSUME NEW w \in Workers, Claim(w), UNCHANGED runs PROVE RunsInv'
  <2>1. wbatch[w] \in Batches /\ next' = [next EXCEPT ![wbatch[w]] = @ + 1]
    BY <1>2, BatchOfWorker DEF Claim
  <2> QED
    BY <1>0, <1>2, <2>1 DEF RunsInv, Indices
<1>3. CASE UNCHANGED <<runs, next>>
  BY <1>3 DEF RunsInv
<1> QED
  BY <1>1, <1>2, <1>3, Frames

(* Only a batch that exists hands out indices. *)
LEMMA FreshInvStep == BatchTypeOK /\ WorkerInv /\ FreshInv /\ [Next]_vars => FreshInv'
<1> SUFFICES ASSUME BatchTypeOK, WorkerInv, FreshInv, [Next]_vars PROVE FreshInv'
  OBVIOUS
<1>0. MaxBatches \in Nat /\ nBatches \in Nat /\ next \in [Batches -> Nat]
  BY PoolAssumption DEF PoolAssumption, BatchTypeOK
<1>1. ASSUME NEW w \in Workers, Claim(w) PROVE FreshInv'
  <2>1. /\ wbatch[w] \in Batches /\ wbatch[w] \in 1..nBatches
        /\ next' = [next EXCEPT ![wbatch[w]] = @ + 1] /\ nBatches' = nBatches
    BY <1>1, BatchOfWorker DEF Claim
  <2> QED
    BY <1>0, <2>1 DEF FreshInv, Batches
<1>2. ASSUME NEW c \in Clients, Install(c), UNCHANGED next PROVE FreshInv'
  BY <1>0, <1>2 DEF Install, FreshInv
<1>3. CASE UNCHANGED <<next, nBatches>>
  BY <1>3 DEF FreshInv
<1> QED
  BY <1>1, <1>2, <1>3, Frames

(* batch_mutex has one holder, whose batch is the active one. *)
LEMMA CallerInvStep == BatchTypeOK /\ CallerInv /\ [Next]_vars => CallerInv'
<1> SUFFICES ASSUME BatchTypeOK, CallerInv, [Next]_vars PROVE CallerInv'
  OBVIOUS
<1>0. None \notin Clients /\ None \notin Nat /\ nBatches \in Nat
  BY PoolAssumption DEF PoolAssumption, BatchTypeOK
<1>1. cpc \in [Clients -> ClientPcs] /\ cbatch \in [Clients -> 0..nBatches]
      /\ active \in 1..nBatches \cup {None} /\ batchMutex \in Clients \cup {None}
  BY DEF BatchTypeOK
<1> USE <1>0, <1>1 DEF CallerInv, Holding, Inside
<1>2. ASSUME UNCHANGED <<active, batchMutex, nBatches, cbatch, cpc>> PROVE CallerInv'
  BY <1>2
<1>3. ASSUME NEW w \in Workers, Signal(w) PROVE CallerInv'
  BY <1>3 DEF Signal, queueVars, batchVars
<1>4. ASSUME NEW w \in Workers, Finish(w) PROVE CallerInv'
  BY <1>4 DEF Finish, batchVars
<1>5. ASSUME NEW w \in Workers, WorkerStep(w) \/ SpuriousWakeup(w), ~Signal(w), ~Finish(w)
      PROVE  UNCHANGED <<active, batchMutex, nBatches, cbatch, cpc>>
  BY <1>5 DEF WorkerStep, SpuriousWakeup, Exit, Sleep, Register, Surplus, TakeTask, Claim,
       Execute, Count, Rejoin, RunTask, queueVars, batchVars, clientVars
<1>6. ASSUME NEW c \in Clients, ClientStep(c) \/ Call(c) PROVE CallerInv'
  <2> USE DEF queueVars, batchVars, clientVars
  <2>1. CASE Install(c) BY <2>1 DEF Install
  <2>2. CASE NotifyTarget(c) BY <2>2 DEF NotifyTarget
  <2>3. CASE AwaitBatch(c) BY <2>3 DEF AwaitBatch
  <2>4. CASE Retire(c) BY <2>4 DEF Retire
  <2>5. CASE Rethrow(c) BY <2>5 DEF Rethrow
  <2>6. CASE NotifyEnqueued(c) BY <2>6 DEF NotifyEnqueued
  <2>7. CASE GetReturns(c) BY <2>7 DEF GetReturns
  <2>8. CASE CheckWait(c) BY <2>8 DEF CheckWait
  <2>9. CASE WaitReturns(c) BY <2>9 DEF WaitReturns
  <2>10. CASE StartBatch(c) BY <2>10 DEF StartBatch
  <2>11. CASE Enqueue(c) BY <2>11 DEF Enqueue
  <2>12. CASE CallGet(c) BY <2>12 DEF CallGet
  <2>13. CASE CallWait(c) BY <2>13 DEF CallWait
  <2>14. CASE Leave(c) BY <2>14 DEF Leave
  <2> QED
    BY <1>6, <2>1, <2>2, <2>3, <2>4, <2>5, <2>6, <2>7, <2>8, <2>9, <2>10, <2>11, <2>12,
       <2>13, <2>14 DEF ClientStep, Call
<1>7. CASE Destroy BY <1>7, <1>2 DEF Destroy, batchVars, clientVars
<1>8. CASE Destroyed \/ UNCHANGED vars
  BY <1>8, <1>2 DEF Destroyed, vars, queueVars, batchVars, clientVars
<1> QED
  BY <1>2, <1>3, <1>4, <1>5, <1>6, <1>7, <1>8 DEF Next

-------------------------------------------------------------------------------
Busy == {"exec", "count"}

(* A step after which no further worker is inside a batch keeps WorkerInv. *)
LEMMA WorkerInvFrame ==
  ASSUME BatchTypeOK, WorkerInv, UNCHANGED <<next, runs>>,
         \A b \in 1..nBatches : size'[b] = size[b],
         \A v \in Workers :
           \/ wpc'[v] = wpc[v] /\ wbatch'[v] = wbatch[v] /\ wtask'[v] = wtask[v]
           \/ wpc'[v] \notin {"claim", "exec", "count", "signal"}
           \/ wpc'[v] \in {"claim", "signal"} /\ wbatch'[v] # 0
  PROVE  WorkerInv'
<1>1. ASSUME NEW w \in Workers
      PROVE  /\ wpc'[w] \in {"claim", "exec", "count", "signal"} => wbatch'[w] # 0
             /\ wpc'[w] \in {"exec", "count"} =>
                  /\ wtask'[w] < size'[wbatch'[w]]
                  /\ wtask'[w] < next'[wbatch'[w]]
                  /\ runs'[wbatch'[w]][wtask'[w]] = IF wpc'[w] = "exec" THEN 0 ELSE 1
  <2>1. CASE wpc'[w] = wpc[w] /\ wbatch'[w] = wbatch[w] /\ wtask'[w] = wtask[w]
    <3>1. wpc[w] \in {"exec", "count"} => wbatch[w] \in 1..nBatches
      BY BatchOfWorker
    <3> QED
      BY <2>1, <3>1 DEF WorkerInv
  <2>2. CASE ~(wpc'[w] = wpc[w] /\ wbatch'[w] = wbatch[w] /\ wtask'[w] = wtask[w])
    BY <2>2
  <2> QED
    BY <2>1, <2>2
<1>2. ASSUME NEW v \in Workers, NEW w \in Workers,
             wpc'[v] \in {"exec", "count"}, wpc'[w] \in {"exec", "count"},
             wbatch'[v] = wbatch'[w], wtask'[v] = wtask'[w]
      PROVE  v = w
  BY <1>2 DEF WorkerInv
<1> QED
  BY <1>1, <1>2 DEF WorkerInv

(* A worker's claim on its index is exclusive and stays so. *)
LEMMA WorkerInvStep ==
  BatchTypeOK /\ CallerInv /\ WorkerInv /\ RunsInv /\ [Next]_vars => WorkerInv'
<1> SUFFICES ASSUME BatchTypeOK, CallerInv, WorkerInv, RunsInv, [Next]_vars PROVE WorkerInv'
  OBVIOUS
<1>0. /\ wpc \in [Workers -> WorkerPcs] /\ wbatch \in [Workers -> 0..nBatches]
      /\ wtask \in [Workers -> Nat] /\ next \in [Batches -> Nat]
      /\ size \in [Batches -> 0..MaxSize] /\ runs \in [Batches -> [Indices -> Nat]]
      /\ nBatches \in 0..MaxBatches /\ MaxBatches \in Nat /\ MaxSize \in Nat
      /\ None \notin Nat /\ active \in 1..nBatches \cup {None}
  BY PoolAssumption DEF PoolAssumption, BatchTypeOK
<1>1. ASSUME UNCHANGED <<next, runs, size, wbatch, wtask>>,
             NEW w \in Workers, NEW pc, wpc' = [wpc EXCEPT ![w] = pc],
             pc \notin {"claim", "exec", "count", "signal"}
      PROVE  WorkerInv'
  BY <1>0, <1>1, WorkerInvFrame
<1>2. ASSUME UNCHANGED <<next, runs, size, workerVars>> PROVE WorkerInv'
  BY <1>0, <1>2, WorkerInvFrame DEF workerVars
<1>3. ASSUME NotifyOneWorker, UNCHANGED <<next, runs, size, wbatch, wtask>> PROVE WorkerInv'
  <2>1. CASE UNCHANGED wpc
    BY <1>2, <1>3, <2>1 DEF workerVars
  <2>2. CASE \E w \in Sleepers : wpc' = [wpc EXCEPT ![w] = Woken(w)]
    <3>1. PICK w \in Workers : wpc' = [wpc EXCEPT ![w] = Woken(w)]
      BY <2>2 DEF Sleepers
    <3>2. Woken(w) \notin {"claim", "exec", "count", "signal"}
      BY DEF Woken
    <3> QED
      BY <1>1, <1>3, <3>1, <3>2
  <2> QED
    BY <1>3, <2>1, <2>2 DEF NotifyOneWorker
<1>4. ASSUME NEW w \in Workers, WorkerStep(w) \/ SpuriousWakeup(w) PROVE WorkerInv'
  <2> USE DEF batchVars, workerVars, history
  <2>1. CASE Exit(w) BY <1>1, <2>1 DEF Exit
  <2>2. CASE Sleep(w) BY <1>1, <2>2 DEF Sleep
  <2>3. CASE Register(w) BY <1>0, <2>3, WorkerInvFrame DEF Register
  <2>4. CASE Surplus(w) BY <1>0, <2>4, WorkerInvFrame DEF Surplus
  <2>5. CASE TakeTask(w) BY <1>0, <2>5, WorkerInvFrame DEF TakeTask
  <2>6. CASE Claim(w)
    <3> DEFINE b == wbatch[w]
    <3>1. b \in Batches /\ b # 0
      BY <2>6, BatchOfWorker, <1>0 DEF Claim
    <3>2. /\ next' = [next EXCEPT ![b] = @ + 1]
          /\ UNCHANGED <<runs, size, wbatch>>
      BY <2>6 DEF Claim
    <3>3. CASE next[b] >= size[b]
      <4>1. wpc' = [wpc EXCEPT ![w] = "rejoin"] /\ wtask' = [wtask EXCEPT ![w] = 0]
        BY <2>6, <3>3 DEF Claim
      <4>2. ASSUME NEW v \in Workers
            PROVE  /\ wpc'[v] \in {"claim", "exec", "count", "signal"} => wbatch'[v] # 0
                   /\ wpc'[v] \in {"exec", "count"} =>
                        /\ wtask'[v] < size'[wbatch'[v]]
                        /\ wtask'[v] < next'[wbatch'[v]]
                        /\ runs'[wbatch'[v]][wtask'[v]] = IF wpc'[v] = "exec" THEN 0 ELSE 1
        <5>1. wpc[v] \in {"exec", "count"} => wbatch[v] \in Batches
          BY BatchOfWorker
        <5> QED
          BY <1>0, <3>1, <3>2, <4>1, <5>1 DEF WorkerInv
      <4>3. ASSUME NEW v \in Workers, NEW u \in Workers,
                   wpc'[v] \in {"exec", "count"}, wpc'[u] \in {"exec", "count"},
                   wbatch'[v] = wbatch'[u], wtask'[v] = wtask'[u]
            PROVE  v = u
        BY <1>0, <3>2, <4>1, <4>3 DEF WorkerInv
      <4> QED
        BY <4>2, <4>3 DEF WorkerInv
    <3>4. CASE next[b] < size[b]
      <4>1. /\ wpc' = [wpc EXCEPT ![w] = "exec"]
            /\ wtask' = [wtask EXCEPT ![w] = next[b]]
        <5>1. ~(next[b] >= size[b])
          BY <1>0, <3>1, <3>4
        <5> HIDE DEF b
        <5>2. /\ wpc' = [wpc EXCEPT ![w] = IF next[b] >= size[b] THEN "rejoin" ELSE "exec"]
              /\ wtask' = [wtask EXCEPT ![w] = IF next[b] >= size[b] THEN 0 ELSE next[b]]
          BY <2>6 DEF Claim, b
        <5> QED
          BY <5>1, <5>2
      <4>2. next[b] \in Indices /\ runs[b][next[b]] = 0
        BY <1>0, <3>1, <3>4 DEF RunsInv, Indices
      <4>3. \A v \in Workers : wpc[v] \in Busy /\ wbatch[v] = b => wtask[v] < next[b]
        BY DEF WorkerInv, Busy
      <4>4. ASSUME NEW v \in Workers
            PROVE  /\ wpc'[v] \in {"claim", "exec", "count", "signal"} => wbatch'[v] # 0
                   /\ wpc'[v] \in {"exec", "count"} =>
                        /\ wtask'[v] < size'[wbatch'[v]]
                        /\ wtask'[v] < next'[wbatch'[v]]
                        /\ runs'[wbatch'[v]][wtask'[v]] = IF wpc'[v] = "exec" THEN 0 ELSE 1
        <5>1. CASE v = w
          BY <1>0, <3>1, <3>2, <3>4, <4>1, <4>2, <5>1
        <5>2. CASE v # w
          <6>1. wpc[v] \in {"exec", "count"} => wbatch[v] \in Batches
            BY BatchOfWorker
          <6> QED
            BY <1>0, <3>1, <3>2, <4>1, <5>2, <6>1 DEF WorkerInv
        <5> QED
          BY <5>1, <5>2
      <4>5. ASSUME NEW v \in Workers, NEW u \in Workers,
                   wpc'[v] \in {"exec", "count"}, wpc'[u] \in {"exec", "count"},
                   wbatch'[v] = wbatch'[u], wtask'[v] = wtask'[u]
            PROVE  v = u
        BY <1>0, <3>1, <3>2, <4>1, <4>3, <4>5 DEF WorkerInv, Busy
      <4> QED
        BY <4>4, <4>5 DEF WorkerInv
    <3> QED
      BY <1>0, <3>1, <3>3, <3>4
  <2>7. CASE Execute(w)
    <3> DEFINE b == wbatch[w]
    <3>1. /\ b \in Batches /\ wtask[w] \in Indices /\ runs[b][wtask[w]] = 0
          /\ wtask[w] < size[b] /\ wtask[w] < next[b] /\ b # 0
      BY <2>7, BatchOfWorker, <1>0 DEF Execute, WorkerInv
    <3>2. /\ runs' = [runs EXCEPT ![b][wtask[w]] = 1]
          /\ wpc' = [wpc EXCEPT ![w] = "count"]
          /\ UNCHANGED <<next, size, wbatch, wtask>>
      BY <1>0, <2>7, <3>1 DEF Execute
    <3>3. \A v \in Workers : v # w /\ wpc[v] \in {"exec", "count"}
                               => /\ wbatch[v] \in Batches /\ wtask[v] \in Indices
                                  /\ ~(wbatch[v] = b /\ wtask[v] = wtask[w])
      BY <2>7, BatchOfWorker DEF WorkerInv, Execute
    <3>4. ASSUME NEW v \in Workers
          PROVE  /\ wpc'[v] \in {"claim", "exec", "count", "signal"} => wbatch'[v] # 0
                 /\ wpc'[v] \in {"exec", "count"} =>
                      /\ wtask'[v] < size'[wbatch'[v]]
                      /\ wtask'[v] < next'[wbatch'[v]]
                      /\ runs'[wbatch'[v]][wtask'[v]] = IF wpc'[v] = "exec" THEN 0 ELSE 1
      <4>1. CASE v = w
        BY <1>0, <3>1, <3>2, <4>1
      <4>2. CASE v # w
        BY <1>0, <3>1, <3>2, <3>3, <4>2 DEF WorkerInv
      <4> QED
        BY <4>1, <4>2
    <3>5. ASSUME NEW v \in Workers, NEW u \in Workers,
                 wpc'[v] \in {"exec", "count"}, wpc'[u] \in {"exec", "count"},
                 wbatch'[v] = wbatch'[u], wtask'[v] = wtask'[u]
          PROVE  v = u
      BY <1>0, <2>7, <3>2, <3>5 DEF WorkerInv, Execute
    <3> QED
      BY <3>4, <3>5 DEF WorkerInv
  <2>8. CASE Count(w)
    <3>1. wbatch[w] # 0
      BY <2>8 DEF Count, WorkerInv
    <3> QED
      BY <1>0, <2>8, <3>1, WorkerInvFrame DEF Count
  <2>9. CASE Signal(w)
    <3>1. wbatch[w] # 0
      BY <2>9 DEF Signal, WorkerInv
    <3> QED
      BY <1>0, <2>9, <3>1, WorkerInvFrame DEF Signal
  <2>10. CASE Rejoin(w) BY <1>0, <2>10, WorkerInvFrame DEF Rejoin
  <2>11. CASE RunTask(w) BY <1>0, <2>11, WorkerInvFrame DEF RunTask
  <2>12. CASE Finish(w) BY <1>1, <2>12 DEF Finish
  <2>13. CASE SpuriousWakeup(w)
    <3>1. Woken(w) \notin {"claim", "exec", "count", "signal"}
      BY DEF Woken
    <3> QED
      BY <1>1, <2>13, <3>1 DEF SpuriousWakeup
  <2> QED
    BY <1>4, <2>1, <2>2, <2>3, <2>4, <2>5, <2>6, <2>7, <2>8, <2>9, <2>10, <2>11, <2>12,
       <2>13 DEF WorkerStep
<1>5. ASSUME NEW c \in Clients, ClientStep(c) \/ Call(c) PROVE WorkerInv'
  <2> USE DEF batchVars, history
  <2>1. CASE Install(c)
    <3>1. /\ UNCHANGED <<next, runs, wpc, wbatch, wtask>>
          /\ \E n : size' = [size EXCEPT ![nBatches + 1] = n]
      BY <2>1 DEF Install, workerVars
    <3>2. \A b \in 1..nBatches : size'[b] = size[b]
      BY <1>0, <3>1 DEF Batches
    <3> QED
      BY <3>1, <3>2, WorkerInvFrame
  <2>2. CASE NotifyTarget(c) BY <1>3, <2>2 DEF NotifyTarget
  <2>3. CASE NotifyEnqueued(c) BY <1>3, <2>3 DEF NotifyEnqueued
  <2>4. CASE ~Install(c) /\ ~NotifyTarget(c) /\ ~NotifyEnqueued(c)
    BY <1>2, <1>5, <2>4 DEF ClientStep, Call, AwaitBatch, Retire, Rethrow, GetReturns,
         CheckWait, WaitReturns, StartBatch, Enqueue, CallGet, CallWait, Leave
  <2> QED
    BY <2>1, <2>2, <2>3, <2>4
<1>6. CASE Destroy
  <2>1. /\ UNCHANGED <<next, runs, size, wbatch, wtask>>
        /\ wpc' = [w \in Workers |-> IF w \in Sleepers THEN Woken(w) ELSE wpc[w]]
    BY <1>6 DEF Destroy, batchVars, history
  <2> QED
    BY <1>0, <2>1, WorkerInvFrame DEF Woken
<1>7. CASE Destroyed \/ UNCHANGED vars
  BY <1>7, <1>2 DEF Destroyed, vars, batchVars, history
<1> QED
  BY <1>4, <1>5, <1>6, <1>7 DEF Next

-------------------------------------------------------------------------------
(* Uncounted(b) only depends on the runs and on who is about to count. *)
LEMMA UncountedFrame ==
  ASSUME NEW b, UNCHANGED runs, size'[b] = size[b],
         \A v \in Workers : (wpc'[v] = "count") <=> (wpc[v] = "count"),
         \A v \in Workers : wpc[v] = "count" => wbatch'[v] = wbatch[v] /\ wtask'[v] = wtask[v]
  PROVE  Uncounted(b)' = Uncounted(b)
  BY DEF Uncounted

(* The indices of a batch are finitely many. *)
LEMMA UncountedFinite ==
  ASSUME BatchTypeOK, NEW b \in Batches
  PROVE  IsFiniteSet(Uncounted(b)) /\ Cardinality(Uncounted(b)) \in Nat
<1>1. size[b] \in 0..MaxSize /\ MaxSize \in Nat
  BY PoolAssumption DEF BatchTypeOK, PoolAssumption
<1>2. IsFiniteSet(0..(size[b] - 1))
  BY <1>1, FS_Interval
<1>3. IsFiniteSet(Uncounted(b))
  BY <1>2, FS_Subset DEF Uncounted
<1> QED
  BY <1>3, FS_CardinalityType

(* remaining_ follows the work, and only the active batch has any left. *)
LEMMA CountInvStep ==
  BatchTypeOK /\ CallerInv /\ WorkerInv /\ RunsInv /\ FreshInv /\ CountInv /\ [Next]_vars
    => CountInv'
<1> SUFFICES ASSUME BatchTypeOK, CallerInv, WorkerInv, RunsInv, FreshInv, CountInv, [Next]_vars
             PROVE  CountInv'
  OBVIOUS
<1>0. /\ wpc \in [Workers -> WorkerPcs] /\ wbatch \in [Workers -> 0..nBatches]
      /\ wtask \in [Workers -> Nat] /\ next \in [Batches -> Nat]
      /\ size \in [Batches -> 0..MaxSize] /\ runs \in [Batches -> [Indices -> Nat]]
      /\ nBatches \in 0..MaxBatches /\ MaxBatches \in Nat /\ MaxSize \in Nat
      /\ None \notin Nat /\ active \in 1..nBatches \cup {None}
      /\ cpc \in [Clients -> ClientPcs] /\ cbatch \in [Clients -> 0..nBatches]
      /\ remaining \in [Batches -> Int]
  BY PoolAssumption DEF PoolAssumption, BatchTypeOK
<1>1. 1..nBatches \subseteq Batches
  BY <1>0 DEF Batches
(* A step that neither counts, runs nor installs. *)
<1>2. ASSUME UNCHANGED <<runs, size, nBatches, remaining, active>>,
             \A v \in Workers : (wpc'[v] = "count") <=> (wpc[v] = "count"),
             \A v \in Workers : wpc[v] = "count" => wbatch'[v] = wbatch[v] /\ wtask'[v] = wtask[v],
             \A c \in Clients : cpc'[c] = "retire" => cpc[c] = "retire" \/ remaining[active] = 0
      PROVE  CountInv'
  <2>1. \A b \in 1..nBatches : Uncounted(b)' = Uncounted(b)
    BY <1>2, UncountedFrame
  <2> QED
    BY <1>2, <2>1 DEF CountInv, RemainingIsUncounted
<1>3. ASSUME NotifyOneWorker
      PROVE  \A v \in Workers : (wpc'[v] = "count") <=> (wpc[v] = "count")
  BY <1>0, <1>3 DEF NotifyOneWorker, Sleepers, Woken
<1>4. ASSUME NEW w \in Workers, Execute(w) PROVE CountInv'
  <2>1. /\ wbatch[w] \in Batches /\ wtask[w] \in Indices
        /\ wtask[w] \in 0..(size[wbatch[w]] - 1)
        /\ runs[wbatch[w]][wtask[w]] = 0
    BY <1>4, BatchOfWorker DEF Execute, WorkerInv
  <2>2. /\ runs' = [runs EXCEPT ![wbatch[w]][wtask[w]] = 1]
        /\ wpc' = [wpc EXCEPT ![w] = "count"]
        /\ UNCHANGED <<size, nBatches, remaining, active, wbatch, wtask, cpc>>
    BY <1>0, <1>4, <2>1 DEF Execute, batchVars, queueVars, clientVars
  <2>3. ASSUME NEW b \in 1..nBatches PROVE Uncounted(b)' = Uncounted(b)
    <3>1. ASSUME NEW i \in 0..(size[b] - 1)
          PROVE  /\ (runs'[b][i] = 0 \/ \E v \in Workers : wpc'[v] = "count" /\ wbatch'[v] = b
                                                            /\ wtask'[v] = i)
                 <=> (runs[b][i] = 0 \/ \E v \in Workers : wpc[v] = "count" /\ wbatch[v] = b
                                                            /\ wtask[v] = i)
      <4>0. b \in Batches /\ i \in Indices
        BY <1>0, <1>1 DEF Indices
      <4>1. CASE b = wbatch[w] /\ i = wtask[w]
        BY <1>0, <2>1, <2>2, <4>1
      <4>2. CASE ~(b = wbatch[w] /\ i = wtask[w])
        <5>1. runs'[b][i] = runs[b][i]
          BY <1>0, <2>1, <2>2, <4>0, <4>2
        <5>2. \A v \in Workers : (wpc'[v] = "count" /\ wbatch'[v] = b /\ wtask'[v] = i)
                                   <=> (wpc[v] = "count" /\ wbatch[v] = b /\ wtask[v] = i)
          BY <1>0, <2>2, <4>2
        <5> QED
          BY <5>1, <5>2
      <4> QED
        BY <4>1, <4>2
    <3>2. size' = size
      BY <2>2
    <3> QED
      BY <3>1, <3>2 DEF Uncounted
  <2> QED
    BY <2>2, <2>3 DEF CountInv, RemainingIsUncounted
<1>5. ASSUME NEW w \in Workers, Count(w) PROVE CountInv'
  <2> DEFINE b == wbatch[w]  k == wtask[w]
  <2>1. /\ b \in Batches /\ b \in 1..nBatches /\ k \in 0..(size[b] - 1)
        /\ runs[b][k] = 1 /\ wpc[w] = "count"
    BY <1>5, BatchOfWorker DEF Count, WorkerInv
  <2>2. /\ remaining' = [remaining EXCEPT ![b] = @ - 1]
        /\ wtask' = [wtask EXCEPT ![w] = 0]
        /\ wpc'[w] # "count" /\ \A v \in Workers \ {w} : wpc'[v] = wpc[v]
        /\ UNCHANGED <<runs, size, nBatches, active, wbatch, cpc>>
    BY <1>0, <1>5 DEF Count, queueVars, clientVars, history
  <2>3. \A v \in Workers : wpc[v] = "count" /\ wbatch[v] = b /\ wtask[v] = k => v = w
    BY <2>1 DEF WorkerInv
  <2>4. k \in Uncounted(b)
    BY <2>1 DEF Uncounted
  <2>5. Uncounted(b)' = Uncounted(b) \ {k}
    BY <1>0, <2>1, <2>2, <2>3 DEF Uncounted
  <2>6. Cardinality(Uncounted(b)') = Cardinality(Uncounted(b)) - 1
    BY <2>1, <2>4, <2>5, UncountedFinite, FS_RemoveElement
  <2>7. ASSUME NEW a \in 1..nBatches, a # b PROVE Uncounted(a)' = Uncounted(a)
    BY <1>0, <2>2, <2>7 DEF Uncounted
  <2>8. remaining[b] = Cardinality(Uncounted(b)) /\ Cardinality(Uncounted(b)) \in Nat
    BY <2>1, UncountedFinite DEF CountInv, RemainingIsUncounted
  <2>9. remaining[b] # 0
    <3>1. Cardinality(Uncounted(b)) # 0
      BY <2>1, <2>4, UncountedFinite, FS_EmptySet
    <3> QED
      BY <2>8, <3>1
  <2>10. b = active
    BY <2>1, <2>9 DEF CountInv
  <2>11. \A a \in 1..nBatches : a # b => remaining'[a] = remaining[a]
    BY <1>0, <1>1, <2>2
  <2>12. \A c \in Clients : cpc[c] # "retire"
    BY <2>9, <2>10 DEF CountInv
  <2>13. remaining'[b] = Cardinality(Uncounted(b)')
    <3>1. remaining'[b] = remaining[b] - 1
      BY <1>0, <2>1, <2>2
    <3> QED
      BY <2>6, <2>8, <3>1
  <2> QED
    BY <2>2, <2>7, <2>10, <2>11, <2>12, <2>13 DEF CountInv, RemainingIsUncounted
<1>6. ASSUME NEW c \in Clients, Install(c) PROVE CountInv'
  <2>0. nBatches + 1 \in Batches /\ active = None /\ nBatches \in Nat
    BY <1>0, <1>6 DEF Install, CallerInv, Batches
  <2>1. PICK b \in Batches : b = nBatches + 1 /\ active = None /\ nBatches \in Nat
    BY <2>0
  <2>2. PICK n \in 1..MaxSize : /\ size' = [size EXCEPT ![b] = n]
                                /\ remaining' = [remaining EXCEPT ![b] = n]
    BY <1>6, <2>1 DEF Install
  <2>3. /\ nBatches' = b /\ active' = b /\ cpc' = [cpc EXCEPT ![c] = "notify"]
        /\ UNCHANGED <<runs, wpc, wbatch, wtask>>
    BY <1>6, <2>1 DEF Install, workerVars, history
  <2>4. \A a \in 1..nBatches :
          /\ Uncounted(a)' = Uncounted(a) /\ remaining'[a] = remaining[a] /\ remaining[a] = 0
    BY <1>0, <1>1, <2>1, <2>2, <2>3, UncountedFrame DEF CountInv
  <2>5. remaining'[b] = n /\ size'[b] = n
    BY <1>0, <2>1, <2>2
  <2>6. Uncounted(b)' = 0..(n - 1)
    <3>1. \A i \in 0..(n - 1) : runs[b][i] = 0
      <4>1. \A i \in 0..(n - 1) : i \in Indices
        <5>1. n \in Int /\ n <= MaxSize /\ MaxSize \in Nat
          BY <2>2, PoolAssumption
        <5> QED
          BY <5>1 DEF Indices
      <4>2. next[b] = 0
        BY <1>0, <2>1 DEF FreshInv, Batches
      <4> QED
        BY <2>1, <4>1, <4>2 DEF RunsInv
    <3> QED
      BY <2>3, <2>5, <3>1 DEF Uncounted
  <2>7. Cardinality(0..(n - 1)) = n
    <3>1. n \in Nat /\ n >= 1
      BY <2>2, PoolAssumption
    <3>2. Cardinality(0..(n - 1)) = IF 0 > n - 1 THEN 0 ELSE (n - 1) - 0 + 1
      BY <3>1, FS_Interval
    <3> QED
      BY <3>1, <3>2
  <2>8. \A d \in Clients : cpc'[d] # "retire"
    BY <1>0, <2>1, <2>3 DEF CallerInv, Inside
  <2>9. \A a \in 1..b : a = b \/ a \in 1..nBatches
    BY <2>1
  <2>10. \A a \in 1..nBatches' : remaining'[a] = Cardinality(Uncounted(a)')
    BY <2>3, <2>4, <2>5, <2>6, <2>7, <2>9 DEF CountInv, RemainingIsUncounted
  <2>11. \A a \in 1..nBatches' : a # active' => remaining'[a] = 0
    BY <2>3, <2>4, <2>9
  <2> QED
    BY <2>8, <2>10, <2>11 DEF CountInv, RemainingIsUncounted
<1>7. ASSUME NEW c \in Clients, Retire(c) PROVE CountInv'
  <2>1. /\ UNCHANGED <<runs, size, nBatches, remaining, wpc, wbatch, wtask>>
        /\ active' = None /\ batchMutex = c /\ remaining[active] = 0
        /\ \A d \in Clients : cpc'[d] = "retire" => cpc[d] = "retire" /\ d # c
    BY <1>0, <1>7 DEF Retire, batchVars, workerVars, history, CallerInv, Holding, CountInv
  <2>2. \A d \in Clients : cpc'[d] # "retire"
    BY <2>1 DEF CallerInv, Holding
  <2>3. \A b \in 1..nBatches : Uncounted(b)' = Uncounted(b)
    BY <2>1, UncountedFrame
  <2>4. \A b \in 1..nBatches : remaining[b] = 0
    BY <2>1 DEF CountInv
  <2> QED
    BY <2>1, <2>2, <2>3, <2>4 DEF CountInv, RemainingIsUncounted
<1>8. ASSUME NEW w \in Workers, WorkerStep(w) \/ SpuriousWakeup(w) PROVE CountInv'
  <2> USE <1>0, <1>2 DEF queueVars, batchVars, workerVars, clientVars, history
  <2>1. CASE Exit(w) BY <2>1 DEF Exit
  <2>2. CASE Sleep(w) BY <2>2 DEF Sleep
  <2>3. CASE Register(w) BY <2>3 DEF Register
  <2>4. CASE Surplus(w) BY <2>4 DEF Surplus
  <2>5. CASE TakeTask(w) BY <2>5 DEF TakeTask
  <2>6. CASE Claim(w) BY <2>6 DEF Claim
  <2>7. CASE Signal(w) BY <2>7 DEF Signal
  <2>8. CASE Rejoin(w) BY <2>8 DEF Rejoin
  <2>9. CASE RunTask(w) BY <2>9 DEF RunTask
  <2>10. CASE Finish(w) BY <2>10 DEF Finish
  <2>11. CASE SpuriousWakeup(w) BY <2>11 DEF SpuriousWakeup, Sleepers, Woken
  <2> QED
    BY <1>4, <1>5, <1>8, <2>1, <2>2, <2>3, <2>4, <2>5, <2>6, <2>7, <2>8, <2>9, <2>10, <2>11
    DEF WorkerStep
<1>9. ASSUME NEW c \in Clients, ClientStep(c) \/ Call(c) PROVE CountInv'
  <2> USE <1>0, <1>2, <1>3 DEF queueVars, batchVars, workerVars, clientVars, history
  <2>1. CASE NotifyTarget(c) BY <2>1 DEF NotifyTarget
  <2>2. CASE AwaitBatch(c) BY <2>2 DEF AwaitBatch, CallerInv, Inside
  <2>3. CASE Rethrow(c) BY <2>3 DEF Rethrow
  <2>4. CASE NotifyEnqueued(c) BY <2>4 DEF NotifyEnqueued
  <2>5. CASE GetReturns(c) BY <2>5 DEF GetReturns
  <2>6. CASE CheckWait(c) BY <2>6 DEF CheckWait
  <2>7. CASE WaitReturns(c) BY <2>7 DEF WaitReturns
  <2>8. CASE StartBatch(c) BY <2>8 DEF StartBatch
  <2>9. CASE Enqueue(c) BY <2>9 DEF Enqueue
  <2>10. CASE CallGet(c) BY <2>10 DEF CallGet
  <2>11. CASE CallWait(c) BY <2>11 DEF CallWait
  <2>12. CASE Leave(c) BY <2>12 DEF Leave
  <2> QED
    BY <1>6, <1>7, <1>9, <2>1, <2>2, <2>3, <2>4, <2>5, <2>6, <2>7, <2>8, <2>9, <2>10, <2>11,
       <2>12 DEF ClientStep, Call
<1>10. CASE Destroy
  BY <1>0, <1>2, <1>10 DEF Destroy, Sleepers, Woken, batchVars, clientVars, history
<1>11. CASE Destroyed \/ UNCHANGED vars
  BY <1>2, <1>11 DEF Destroyed, vars, queueVars, batchVars, workerVars, clientVars, history
<1> QED
  BY <1>8, <1>9, <1>10, <1>11 DEF Next

-------------------------------------------------------------------------------
(* Nothing has been done when the pool is made. *)
LEMMA InitInv == Init => IInv
<1> SUFFICES ASSUME Init PROVE IInv
  OBVIOUS
<1>0. MaxBatches \in Nat /\ MaxSize \in Nat /\ None \notin Clients
  BY PoolAssumption DEF PoolAssumption
<1>1. BatchTypeOK
  BY <1>0 DEF Init, BatchTypeOK, WorkerPcs, ClientPcs
<1>2. QueueType
  BY DEF Init, QueueType
<1>3. CallerInv /\ WorkerInv
  BY DEF Init, CallerInv, WorkerInv, Holding, Inside
<1>4. RunsInv /\ FreshInv
  BY <1>0 DEF Init, RunsInv, FreshInv, Batches
<1>5. CountInv
  BY DEF Init, CountInv, RemainingIsUncounted
<1> QED
  BY <1>1, <1>2, <1>3, <1>4, <1>5 DEF IInv, PoolInv

(* Every step keeps the invariant. *)
LEMMA StepInv == IInv /\ [Next]_vars => IInv'
  BY BatchTypeStep, QueueTypeStep, CallerInvStep, WorkerInvStep, RunsInvStep, FreshInvStep,
     CountInvStep DEF IInv, PoolInv

(* The pool's fields keep their types and the strengthening holds throughout. *)
THEOREM PoolInvariant == Spec => []IInv
<1>1. IInv /\ UNCHANGED vars => IInv'
  BY StepInv
<1> QED
  BY InitInv, StepInv, PTL DEF Spec

-------------------------------------------------------------------------------
(* A worker in the batch's function or about to count holds an index that
   remaining_ still covers, so the count of its batch is not zero. *)
LEMMA WorkerIsUncounted ==
  ASSUME IInv, NEW w \in Workers, wpc[w] \in {"exec", "count"}
  PROVE  wbatch[w] \in 1..nBatches /\ remaining[wbatch[w]] # 0
<1>1. /\ wbatch[w] \in Batches /\ wbatch[w] \in 1..nBatches
      /\ wtask[w] \in Nat /\ wtask[w] < size[wbatch[w]] /\ size[wbatch[w]] \in Nat
  BY BatchOfWorker, PoolAssumption DEF IInv, PoolInv, BatchTypeOK, WorkerInv, PoolAssumption
<1>2. wpc[w] = "exec" => runs[wbatch[w]][wtask[w]] = 0
  BY DEF IInv, PoolInv, WorkerInv
<1>3. wtask[w] \in Uncounted(wbatch[w])
  BY <1>1, <1>2 DEF Uncounted
<1>4. Cardinality(Uncounted(wbatch[w])) # 0
  BY <1>1, <1>3, UncountedFinite, FS_EmptySet DEF IInv
<1> QED
  BY <1>1, <1>4 DEF IInv, PoolInv, CountInv, RemainingIsUncounted

(* The remaining count is the number of indices not yet counted, at every step. *)
THEOREM CountMatchesWork == Spec => []RemainingIsUncounted
<1>1. IInv => RemainingIsUncounted
  BY DEF IInv, PoolInv, CountInv
<1> QED
  BY <1>1, PoolInvariant, PTL

(* No worker enters the function of a batch that was retired. *)
THEOREM RetiredBatchesAreQuiet == Spec => []NoRunAfterRetire
<1>1. IInv => NoRunAfterRetire
  BY WorkerIsUncounted DEF IInv, PoolInv, CountInv, NoRunAfterRetire
<1> QED
  BY <1>1, PoolInvariant, PTL

(* RunBatch passes its wait only when each index has run once and no worker is
   inside the function. *)
THEOREM BatchCompletes == Spec => []BatchCompleteBeforeReturn
<1>1. ASSUME IInv, NEW c \in Clients, cpc[c] \in {"retire", "rethrow"}
      PROVE  /\ \A i \in 0..(size[cbatch[c]] - 1) : runs[cbatch[c]][i] = 1
             /\ \A w \in Workers : ~InBatch(w, cbatch[c])
  <2> DEFINE b == cbatch[c]
  <2>0. None \notin Clients /\ None \notin Nat /\ nBatches \in 0..MaxBatches /\ MaxBatches \in Nat
    BY <1>1, PoolAssumption DEF PoolAssumption, IInv, BatchTypeOK
  <2>1. b \in 1..nBatches /\ remaining[b] = 0
    <3>1. CASE cpc[c] = "retire"
      BY <1>1, <2>0, <3>1 DEF IInv, PoolInv, CountInv, CallerInv, Inside, BatchTypeOK
    <3>2. CASE cpc[c] = "rethrow"
      <4>1. batchMutex = c /\ b \in 1..nBatches
        BY <1>1, <3>2 DEF IInv, PoolInv, CallerInv, Holding
      <4>2. active = None
        BY <1>1, <3>2, <4>1 DEF IInv, PoolInv, CallerInv, Inside
      <4> QED
        BY <1>1, <2>0, <4>1, <4>2 DEF IInv, PoolInv, CountInv
    <3> QED
      BY <1>1, <3>1, <3>2
  <2>2. b \in Batches /\ size[b] \in 0..MaxSize /\ MaxSize \in Nat
    BY <1>1, <2>0, <2>1, PoolAssumption DEF PoolAssumption, IInv, BatchTypeOK, Batches
  <2>3. Uncounted(b) = {}
    BY <1>1, <2>1, <2>2, UncountedFinite, FS_EmptySet
    DEF IInv, PoolInv, CountInv, RemainingIsUncounted
  <2>4. ASSUME NEW i \in 0..(size[b] - 1) PROVE runs[b][i] = 1
    <3>1. i \in Indices
      BY <2>2 DEF Indices
    <3>2. runs[b][i] # 0
      BY <2>3 DEF Uncounted
    <3> QED
      BY <1>1, <2>2, <3>1, <3>2 DEF IInv, PoolInv, RunsInv
  <2>5. \A w \in Workers : ~InBatch(w, b)
    BY <1>1, <2>1, WorkerIsUncounted DEF InBatch
  <2> QED
    BY <2>4, <2>5
<1>2. IInv => BatchCompleteBeforeReturn
  BY <1>1 DEF BatchCompleteBeforeReturn
<1> QED
  BY <1>2, PoolInvariant, PTL

-------------------------------------------------------------------------------
(* The task queue: no task is lost, so wait and the destructor cover every *)
(* task enqueued before them; and every field keeps its type.              *)

(* The types of the task queue; the numbers in it are tasks already enqueued. *)
TaskType ==
  /\ stop \in BOOLEAN
  /\ nTasks \in 0..MaxTasks /\ nWaits \in 0..MaxWaits
  /\ tasks \in Seq(Nat) /\ \A i \in 1..Len(tasks) : tasks[i] \in 1..nTasks
  /\ left \in [Clients -> Nat] /\ mine \in [Clients -> SUBSET (1..nTasks)]
  /\ done \subseteq 1..nTasks
  /\ snapshot \in [Clients -> SUBSET (1..nTasks)]

TInv == TaskType /\ TaskInv

-------------------------------------------------------------------------------
LEMMA Sizes == MaxTasks \in Nat /\ MaxWaits \in Nat /\ MaxBatches \in Nat /\ IsFiniteSet(Workers)
  BY PoolAssumption DEF PoolAssumption

(* A batch of one index or more asks for one worker or more. *)
LEMMA TargetIsPositive == \A n \in 1..MaxSize : TargetWorkers(n) \in Nat /\ TargetWorkers(n) > 0
<1>1. Cardinality(Workers) \in Nat /\ Cardinality(Workers) # 0 /\ MaxSize \in Nat
  BY FS_CardinalityType, FS_EmptySet, PoolAssumption DEF PoolAssumption
<1> QED
  BY <1>1 DEF TargetWorkers

LEMMA TakenIsFinite ==
  /\ IsFiniteSet(Taken) /\ Cardinality(Taken) \in Nat
  /\ \A w \in Workers : /\ w \notin Taken => Cardinality(Taken \cup {w}) = Cardinality(Taken) + 1
                        /\ w \in Taken => Cardinality(Taken \ {w}) = Cardinality(Taken) - 1
<1>1. IsFiniteSet(Taken)
  BY Sizes, FS_Subset DEF Taken
<1>2. Cardinality(Taken) \in Nat
  BY <1>1, FS_CardinalityType
<1>3. \A w \in Workers : w \notin Taken => Cardinality(Taken \cup {w}) = Cardinality(Taken) + 1
  BY <1>1, FS_AddElement
<1>4. \A w \in Workers : w \in Taken => Cardinality(Taken \ {w}) = Cardinality(Taken) - 1
  BY <1>1, FS_RemoveElement
<1> QED
  BY <1>1, <1>2, <1>3, <1>4

(* What a notification does to the workers leaves the task queue alone. *)
LEMMA NotifyKeepsWork ==
  ASSUME wpc \in [Workers -> WorkerPcs],
         NotifyOneWorker \/ wpc' = [w \in Workers |-> IF w \in Sleepers THEN Woken(w) ELSE wpc[w]]
  PROVE  \A w \in Workers : /\ (wpc'[w] = "task") <=> (wpc[w] = "task")
                            /\ (wpc'[w] = "finish") <=> (wpc[w] = "finish")
                            /\ (wpc'[w] = "exited") <=> (wpc[w] = "exited")
  BY DEF NotifyOneWorker, Sleepers, Woken, WorkerPcs

-------------------------------------------------------------------------------
(* The steps that leave the queue, the tasks in hand and what is done alone. *)
Idle ==
  /\ UNCHANGED <<tasks, inFlight, done, nTasks>>
  /\ \A w \in Workers : /\ (wpc'[w] = "task") <=> (wpc[w] = "task")
                        /\ (wpc'[w] = "finish") <=> (wpc[w] = "finish")
                        /\ wpc[w] = "task" => wtask'[w] = wtask[w]

LEMMA WorkerIdles ==
  ASSUME BatchTypeOK, NEW w \in Workers,
         WorkerStep(w) \/ SpuriousWakeup(w), ~TakeTask(w), ~RunTask(w), ~Finish(w)
  PROVE  Idle /\ UNCHANGED <<stop, left, nWaits, mine, snapshot>>
<1> USE DEF Idle, BatchTypeOK, WorkerPcs, queueVars, clientVars, countVars, history
<1>1. CASE Exit(w) BY <1>1 DEF Exit
<1>2. CASE Sleep(w) BY <1>2 DEF Sleep
<1>3. CASE Register(w) BY <1>3 DEF Register
<1>4. CASE Surplus(w) BY <1>4 DEF Surplus
<1>5. CASE Claim(w) BY <1>5 DEF Claim
<1>6. CASE Execute(w) BY <1>6 DEF Execute
<1>7. CASE Count(w) BY <1>7 DEF Count
<1>8. CASE Signal(w) BY <1>8 DEF Signal
<1>9. CASE Rejoin(w) BY <1>9 DEF Rejoin
<1>10. CASE SpuriousWakeup(w) BY <1>10 DEF SpuriousWakeup, Woken, Sleepers
<1> QED
  BY <1>1, <1>2, <1>3, <1>4, <1>5, <1>6, <1>7, <1>8, <1>9, <1>10 DEF WorkerStep

LEMMA ClientIdles ==
  ASSUME BatchTypeOK, NEW c \in Clients, ClientStep(c) \/ Call(c), ~Enqueue(c)
  PROVE  Idle /\ UNCHANGED stop
<1>1. CASE UNCHANGED workerVars /\ UNCHANGED <<stop, tasks, inFlight, done, nTasks>>
  BY <1>1 DEF Idle, workerVars
<1>2. CASE NotifyTarget(c) \/ NotifyEnqueued(c)
  BY <1>2, NotifyKeepsWork DEF NotifyTarget, NotifyEnqueued, Idle, BatchTypeOK, queueVars, countVars, history
<1> QED
  BY <1>1, <1>2 DEF ClientStep, Call, Install, AwaitBatch, Retire, Rethrow, GetReturns,
       CheckWait, WaitReturns, StartBatch, CallGet, CallWait, Leave, queueVars, countVars, history

LEMMA DestroyIdles == BatchTypeOK /\ Destroy => Idle
  BY NotifyKeepsWork DEF BatchTypeOK, Destroy, Idle, countVars, history

(* A step that leaves them alone keeps track of them. *)
LEMMA IdleTracks ==
  ASSUME TrackInv, Idle
  PROVE  TrackInv'
<1>1. Taken' = Taken
  BY DEF Idle, Taken
<1> QED
  BY <1>1 DEF Idle, TrackInv

-------------------------------------------------------------------------------
(* The four steps that move a task. *)
LEMMA EnqueueMoves ==
  ASSUME TaskType, NEW c \in Clients, Enqueue(c)
  PROVE  /\ nTasks' = nTasks + 1 /\ nTasks' \in 0..MaxTasks /\ nTasks \in Nat
         /\ tasks' \in Seq(Nat) /\ Len(tasks') = Len(tasks) + 1 /\ Len(tasks) \in Nat
         /\ tasks'[Len(tasks) + 1] = nTasks + 1
         /\ \A i \in 1..Len(tasks) : tasks'[i] = tasks[i]
<1>1. /\ nTasks' = nTasks + 1 /\ nTasks < MaxTasks /\ tasks' = Append(tasks, nTasks + 1)
      /\ nTasks \in 0..MaxTasks /\ tasks \in Seq(Nat)
  BY DEF Enqueue, TaskType
<1>2. nTasks + 1 \in Nat /\ nTasks' \in 0..MaxTasks
  BY <1>1, Sizes
<1> QED
  BY <1>1, <1>2, AppendProperties, LenProperties

LEMMA EnqueueTracks ==
  ASSUME TInv, BatchTypeOK, NEW c \in Clients, Enqueue(c)
  PROVE  TrackInv'
<1>1. UNCHANGED <<inFlight, done, wpc, wtask>> /\ TrackInv /\ TaskType
  BY DEF Enqueue, TInv, TaskInv, workerVars, history
<1>2. Taken' = Taken
  BY <1>1 DEF Taken
<1>3. /\ nTasks' = nTasks + 1 /\ nTasks \in Nat /\ Len(tasks') = Len(tasks) + 1 /\ Len(tasks) \in Nat
      /\ tasks'[Len(tasks) + 1] = nTasks + 1
      /\ \A i \in 1..Len(tasks) : tasks'[i] = tasks[i]
  BY <1>1, EnqueueMoves
<1>4. \A i \in 1..Len(tasks) : i \in 1..Len(tasks')
  BY <1>3
<1>5. \A t \in 1..nTasks' : t \in 1..nTasks \/ t = nTasks + 1
  BY <1>3
<1>6. ASSUME NEW t \in 1..nTasks'
      PROVE  \/ t \in done
             \/ \E i \in 1..Len(tasks') : tasks'[i] = t
             \/ \E w \in Workers : wpc[w] = "task" /\ wtask[w] = t
  <2>1. CASE t = nTasks + 1
    BY <2>1, <1>3
  <2>2. CASE t \in 1..nTasks
    BY <2>2, <1>1, <1>3, <1>4 DEF TrackInv
  <2> QED
    BY <2>1, <2>2, <1>5
<1>7. \A w \in Workers : wpc[w] = "task" => wtask[w] \in 1..nTasks'
  BY <1>1, <1>3 DEF TrackInv
<1> QED
  BY <1>1, <1>2, <1>6, <1>7 DEF TrackInv

LEMMA TakeMoves ==
  ASSUME TaskType, NEW w \in Workers, TakeTask(w)
  PROVE  /\ Len(tasks) \in Nat /\ Len(tasks) >= 1 /\ Head(tasks) = tasks[1] /\ tasks[1] \in 1..nTasks
         /\ tasks' \in Seq(Nat) /\ Len(tasks') = Len(tasks) - 1
         /\ \A i \in 1..Len(tasks') : tasks'[i] = tasks[i + 1]
<1>1. tasks \in Seq(Nat) /\ tasks # <<>> /\ tasks' = Tail(tasks)
  BY DEF TakeTask, TaskType
<1>2. Len(tasks) \in Nat /\ Len(tasks) >= 1
  BY <1>1, LenProperties, EmptySeq
<1>3. tasks[1] \in 1..nTasks
  BY <1>2 DEF TaskType
<1> QED
  BY <1>1, <1>2, <1>3, HeadTailProperties

LEMMA TakeTracks ==
  ASSUME TInv, BatchTypeOK, NEW w \in Workers, TakeTask(w)
  PROVE  TrackInv'
<1>1. /\ wpc[w] = "poll" /\ wpc' = [wpc EXCEPT ![w] = "task"] /\ wtask' = [wtask EXCEPT ![w] = Head(tasks)]
      /\ inFlight' = inFlight + 1 /\ UNCHANGED <<done, nTasks>>
      /\ TrackInv /\ TaskType /\ wpc \in [Workers -> WorkerPcs] /\ wtask \in [Workers -> Nat]
  BY DEF TakeTask, TInv, TaskInv, countVars, history, BatchTypeOK
<1>2. /\ Len(tasks) \in Nat /\ Len(tasks) >= 1 /\ Head(tasks) = tasks[1] /\ tasks[1] \in 1..nTasks
      /\ Len(tasks') = Len(tasks) - 1
      /\ \A i \in 1..Len(tasks') : tasks'[i] = tasks[i + 1]
  BY <1>1, TakeMoves
<1>3. w \notin Taken /\ Taken' = Taken \cup {w}
  BY <1>1 DEF Taken
<1>4. inFlight' = Cardinality(Taken')
  BY <1>1, <1>3, TakenIsFinite DEF TrackInv
<1>5. wpc'[w] = "task" /\ wtask'[w] = tasks[1]
  BY <1>1, <1>2
<1>6. \A v \in Workers : v # w => wpc'[v] = wpc[v] /\ wtask'[v] = wtask[v]
  BY <1>1
<1>7. \A v \in Workers : wpc'[v] = "task" => wtask'[v] \in 1..nTasks
  BY <1>1, <1>2, <1>5, <1>6 DEF TrackInv
<1>8. ASSUME NEW t \in 1..nTasks
      PROVE  \/ t \in done
             \/ \E i \in 1..Len(tasks') : tasks'[i] = t
             \/ \E v \in Workers : wpc'[v] = "task" /\ wtask'[v] = t
  <2>1. CASE t \in done
    BY <2>1
  <2>2. CASE \E i \in 1..Len(tasks) : tasks[i] = t
    <3>1. PICK i \in 1..Len(tasks) : tasks[i] = t
      BY <2>2
    <3>2. CASE i = 1
      BY <3>1, <3>2, <1>5
    <3>3. CASE i # 1
      <4>1. i - 1 \in 1..Len(tasks') /\ (i - 1) + 1 = i
        BY <3>1, <3>3, <1>2
      <4> QED
        BY <4>1, <3>1, <1>2
    <3> QED
      BY <3>2, <3>3
  <2>3. CASE \E v \in Workers : wpc[v] = "task" /\ wtask[v] = t
    BY <2>3, <1>1, <1>6
  <2> QED
    BY <2>1, <2>2, <2>3, <1>1 DEF TrackInv
<1>9. nTasks' = nTasks /\ done' = done
  BY <1>1
<1> QED
  BY <1>4, <1>7, <1>8, <1>9 DEF TrackInv

LEMMA RunTracks ==
  ASSUME TInv, BatchTypeOK, NEW w \in Workers, RunTask(w)
  PROVE  TrackInv'
<1>1. /\ wpc[w] = "task" /\ wpc' = [wpc EXCEPT ![w] = "finish"] /\ wtask' = [wtask EXCEPT ![w] = 0]
      /\ done' = done \cup {wtask[w]} /\ UNCHANGED <<tasks, inFlight, nTasks>>
      /\ TrackInv /\ wpc \in [Workers -> WorkerPcs] /\ wtask \in [Workers -> Nat]
  BY DEF RunTask, TInv, TaskInv, queueVars, countVars, BatchTypeOK
<1>2. Taken' = Taken
  BY <1>1 DEF Taken
<1>3. \A v \in Workers : wpc'[v] = "task" => wpc[v] = "task" /\ wtask'[v] = wtask[v]
  BY <1>1
<1>4. \A v \in Workers : wpc[v] = "task" => (wpc'[v] = "task" /\ wtask'[v] = wtask[v]) \/ wtask[v] \in done'
  BY <1>1
<1>5. \A t \in 1..nTasks :
        \/ t \in done'
        \/ \E i \in 1..Len(tasks) : tasks[i] = t
        \/ \E v \in Workers : wpc'[v] = "task" /\ wtask'[v] = t
  BY <1>1, <1>4 DEF TrackInv
<1> QED
  BY <1>1, <1>2, <1>3, <1>5 DEF TrackInv

LEMMA FinishTracks ==
  ASSUME TInv, BatchTypeOK, NEW w \in Workers, Finish(w)
  PROVE  TrackInv'
<1>1. /\ wpc[w] = "finish" /\ wpc' = [wpc EXCEPT ![w] = "poll"]
      /\ inFlight' = inFlight - 1 /\ UNCHANGED <<tasks, done, nTasks, wtask>>
      /\ TrackInv /\ wpc \in [Workers -> WorkerPcs]
  BY DEF Finish, TInv, TaskInv, countVars, history, BatchTypeOK
<1>2. w \in Taken /\ Taken' = Taken \ {w}
  BY <1>1 DEF Taken
<1>3. inFlight' = Cardinality(Taken')
  BY <1>1, <1>2, TakenIsFinite DEF TrackInv
<1>4. \A v \in Workers : (wpc'[v] = "task") <=> (wpc[v] = "task")
  BY <1>1
<1> QED
  BY <1>1, <1>3, <1>4 DEF TrackInv

LEMMA TrackInvStep == TInv /\ BatchTypeOK /\ [Next]_vars => TrackInv'
<1> SUFFICES ASSUME TInv, BatchTypeOK, [Next]_vars PROVE TrackInv'
  OBVIOUS
<1>1. TrackInv
  BY DEF TInv, TaskInv
<1>2. ASSUME NEW w \in Workers, WorkerStep(w) \/ SpuriousWakeup(w) PROVE TrackInv'
  BY <1>1, <1>2, TakeTracks, RunTracks, FinishTracks, WorkerIdles, IdleTracks
<1>3. ASSUME NEW c \in Clients, ClientStep(c) \/ Call(c) PROVE TrackInv'
  BY <1>1, <1>3, EnqueueTracks, ClientIdles, IdleTracks
<1>4. CASE Destroy
  BY <1>1, <1>4, DestroyIdles, IdleTracks
<1>5. CASE UNCHANGED vars
  <2>1. Idle
    BY <1>5 DEF vars, queueVars, workerVars, countVars, history, Idle
  <2> QED
    BY <1>1, <2>1, IdleTracks
<1> QED
  BY <1>2, <1>3, <1>4, <1>5 DEF Next, Destroyed

-------------------------------------------------------------------------------
(* Types of the task queue. *)
LEMMA TaskTypeStep == TInv /\ BatchTypeOK /\ [Next]_vars => TaskType'
<1> SUFFICES ASSUME TInv, BatchTypeOK, [Next]_vars PROVE TaskType'
  OBVIOUS
<1>1. TaskType /\ TrackInv /\ NotifyInv
  BY DEF TInv, TaskInv
<1>2. ASSUME NEW w \in Workers, WorkerStep(w) \/ SpuriousWakeup(w) PROVE TaskType'
  <2>1. CASE TakeTask(w)
    <3>1. UNCHANGED <<stop, nTasks, nWaits, left, mine, done, snapshot>>
      BY <2>1 DEF TakeTask, clientVars, countVars, history
    <3>2. /\ Len(tasks) \in Nat /\ tasks' \in Seq(Nat) /\ Len(tasks') = Len(tasks) - 1
          /\ \A i \in 1..Len(tasks') : tasks'[i] = tasks[i + 1]
      BY <1>1, <2>1, TakeMoves
    <3>3. \A i \in 1..Len(tasks') : i + 1 \in 1..Len(tasks)
      BY <3>2
    <3> QED
      BY <1>1, <3>1, <3>2, <3>3 DEF TaskType
  <2>2. CASE RunTask(w)
    <3>1. UNCHANGED <<stop, nTasks, nWaits, tasks, left, mine, snapshot>> /\ done' = done \cup {wtask[w]}
      BY <2>2 DEF RunTask, queueVars, clientVars, countVars
    <3>2. wtask[w] \in 1..nTasks
      BY <1>1, <2>2 DEF RunTask, TrackInv
    <3> QED
      BY <1>1, <3>1, <3>2 DEF TaskType
  <2>3. CASE Finish(w)
    BY <1>1, <2>3 DEF Finish, TaskType, countVars, history
  <2>4. CASE ~TakeTask(w) /\ ~RunTask(w) /\ ~Finish(w)
    BY <1>1, <1>2, <2>4, WorkerIdles DEF Idle, TaskType
  <2> QED
    BY <2>1, <2>2, <2>3, <2>4
<1>3. ASSUME NEW c \in Clients, ClientStep(c) \/ Call(c) PROVE TaskType'
  <2>1. CASE Enqueue(c)
    <3>1. UNCHANGED <<stop, nWaits, left, done, snapshot>> /\ mine' = [mine EXCEPT ![c] = @ \cup {nTasks + 1}]
      BY <2>1 DEF Enqueue, history
    <3>2. /\ nTasks' = nTasks + 1 /\ nTasks' \in 0..MaxTasks /\ nTasks \in Nat
          /\ tasks' \in Seq(Nat) /\ Len(tasks') = Len(tasks) + 1 /\ Len(tasks) \in Nat
          /\ tasks'[Len(tasks) + 1] = nTasks + 1
          /\ \A i \in 1..Len(tasks) : tasks'[i] = tasks[i]
      BY <1>1, <2>1, EnqueueMoves
    <3>3. 1..nTasks \subseteq 1..nTasks' /\ nTasks + 1 \in 1..nTasks'
      BY <3>2
    <3>4. \A i \in 1..Len(tasks') : i \in 1..Len(tasks) \/ i = Len(tasks) + 1
      BY <3>2
    <3>5. \A i \in 1..Len(tasks') : tasks'[i] \in 1..nTasks'
      BY <1>1, <3>2, <3>3, <3>4 DEF TaskType
    <3>6. mine' \in [Clients -> SUBSET (1..nTasks')]
      BY <1>1, <3>1, <3>3 DEF TaskType
    <3>7. done' \subseteq 1..nTasks' /\ snapshot' \in [Clients -> SUBSET (1..nTasks')]
      BY <1>1, <3>1, <3>3 DEF TaskType
    <3> QED
      BY <1>1, <3>1, <3>2, <3>5, <3>6, <3>7 DEF TaskType
  <2>2. CASE ~Enqueue(c)
    <3>1. UNCHANGED <<stop, tasks, done, nTasks>>
      BY <1>3, <2>2, ClientIdles DEF Idle
    <3>2. left' \in [Clients -> Nat]
      <4>1. CASE Install(c)
        BY <1>1, <4>1, TargetIsPositive DEF Install, TaskType
      <4>2. CASE NotifyTarget(c)
        BY <1>1, <4>2 DEF NotifyTarget, TaskType, NotifyInv
      <4>3. CASE ~Install(c) /\ ~NotifyTarget(c)
        <5>1. UNCHANGED left
          BY <1>3, <2>2, <4>3 DEF ClientStep, Call, AwaitBatch, Retire, Rethrow, NotifyEnqueued,
             GetReturns, CheckWait, WaitReturns, StartBatch, CallGet, CallWait, Leave, clientVars
        <5> QED
          BY <1>1, <5>1 DEF TaskType
      <4> QED
        BY <4>1, <4>2, <4>3
    <3>3. mine' \in [Clients -> SUBSET (1..nTasks)]
      <4>1. UNCHANGED mine \/ mine' = [mine EXCEPT ![c] = {}]
        BY <1>3, <2>2 DEF ClientStep, Call, Install, NotifyTarget, AwaitBatch, Retire, Rethrow, NotifyEnqueued,
           GetReturns, CheckWait, WaitReturns, StartBatch, CallGet, CallWait, Leave, clientVars
      <4> QED
        BY <1>1, <4>1 DEF TaskType
    <3>4. snapshot' \in [Clients -> SUBSET (1..nTasks)]
      <4>1. UNCHANGED snapshot \/ \E S \in SUBSET (1..nTasks) : snapshot' = [snapshot EXCEPT ![c] = S]
        BY <1>3, <2>2 DEF ClientStep, Call, Install, NotifyTarget, AwaitBatch, Retire, Rethrow, NotifyEnqueued,
           GetReturns, CheckWait, WaitReturns, StartBatch, CallGet, CallWait, Leave, history
      <4> QED
        BY <1>1, <4>1 DEF TaskType
    <3>5. nWaits' \in 0..MaxWaits
      <4>1. CASE CallWait(c)
        BY <1>1, <4>1, Sizes DEF CallWait, TaskType
      <4>2. CASE ~CallWait(c)
        <5>1. UNCHANGED nWaits
          BY <1>3, <2>2, <4>2 DEF ClientStep, Call, Install, NotifyTarget, AwaitBatch, Retire, Rethrow, NotifyEnqueued,
             GetReturns, CheckWait, WaitReturns, StartBatch, CallGet, Leave, countVars
        <5> QED
          BY <1>1, <5>1 DEF TaskType
      <4> QED
        BY <4>1, <4>2
    <3> QED
      BY <1>1, <3>1, <3>2, <3>3, <3>4, <3>5 DEF TaskType
  <2> QED
    BY <2>1, <2>2
<1>4. CASE Destroy
  BY <1>1, <1>4 DEF Destroy, TaskType, clientVars, countVars, history
<1>5. CASE UNCHANGED vars
  BY <1>1, <1>5 DEF vars, queueVars, clientVars, countVars, history, TaskType
<1> QED
  BY <1>2, <1>3, <1>4, <1>5 DEF Next, Destroyed

-------------------------------------------------------------------------------
(* When no worker has a task and the queue is empty, everything is done. *)
LEMMA NothingLeft ==
  ASSUME TrackInv, tasks = <<>>, \A w \in Workers : wpc[w] # "task"
  PROVE  1..nTasks \subseteq done
<1>1. Len(tasks) = 0
  OBVIOUS
<1> QED
  BY <1>1 DEF TrackInv

LEMMA EmptyHands ==
  ASSUME TrackInv, inFlight = 0
  PROVE  \A w \in Workers : wpc[w] # "task"
<1>1. IsFiniteSet(Taken) /\ Cardinality(Taken) = 0
  BY TakenIsFinite DEF TrackInv
<1>2. Taken = {}
  BY <1>1, FS_EmptySet
<1> QED
  BY <1>2 DEF Taken

(* A worker does not disturb a wait that has seen the pool empty, or a client that has
   left, and leaves its own loop only when it may. *)
Undisturbed ==
  /\ \A c \in Clients : /\ cpc'[c] = "waited" => cpc[c] = "waited"
                        /\ cpc[c] = "left" => cpc'[c] = "left"
  /\ UNCHANGED <<stop, snapshot>> /\ done \subseteq done'
  /\ tasks = <<>> => tasks' = <<>>
  /\ \A v \in Workers : wpc'[v] = "exited" => wpc[v] = "exited" \/ (stop /\ tasks = <<>>)

LEMMA WorkerEnds ==
  ASSUME BatchTypeOK, NEW w \in Workers, WorkerStep(w) \/ SpuriousWakeup(w)
  PROVE  Undisturbed
<1> USE DEF Undisturbed, BatchTypeOK, ClientPcs, WorkerPcs, queueVars, clientVars, countVars, history
<1>1. CASE Exit(w) BY <1>1 DEF Exit
<1>2. CASE Sleep(w) BY <1>2 DEF Sleep
<1>3. CASE Register(w) BY <1>3 DEF Register
<1>4. CASE Surplus(w) BY <1>4 DEF Surplus
<1>5. CASE Claim(w) BY <1>5 DEF Claim
<1>6. CASE Execute(w) BY <1>6 DEF Execute
<1>7. CASE Count(w) BY <1>7 DEF Count
<1>8. CASE Signal(w) BY <1>8 DEF Signal
<1>9. CASE Rejoin(w) BY <1>9 DEF Rejoin
<1>10. CASE SpuriousWakeup(w) BY <1>10 DEF SpuriousWakeup, Woken, Sleepers
<1>11. CASE TakeTask(w) BY <1>11 DEF TakeTask
<1>12. CASE RunTask(w) BY <1>12 DEF RunTask
<1>13. CASE Finish(w)
  <2>1. UNCHANGED cpc \/ \E c \in Clients : cpc[c] = "waitAsleep" /\ cpc' = [cpc EXCEPT ![c] = "wait"]
    BY <1>13 DEF Finish
  <2>2. \A c \in Clients : /\ cpc'[c] = "waited" => cpc[c] = "waited"
                           /\ cpc[c] = "left" => cpc'[c] = "left"
    BY <2>1
  <2>3. UNCHANGED <<stop, snapshot, done, tasks>> /\ \A v \in Workers : wpc'[v] = "exited" => wpc[v] = "exited"
    BY <1>13 DEF Finish
  <2> QED
    BY <2>2, <2>3
<1> QED
  BY <1>1, <1>2, <1>3, <1>4, <1>5, <1>6, <1>7, <1>8, <1>9, <1>10, <1>11, <1>12, <1>13 DEF WorkerStep

(* A client's wait ends only in CheckWait, and a client that left takes no step. *)
LEMMA ClientEnds ==
  ASSUME BatchTypeOK, TaskType, NEW c \in Clients, ClientStep(c) \/ Call(c)
  PROVE  /\ cpc[c] # "left"
         /\ UNCHANGED <<stop, done>>
         /\ \A v \in Workers : wpc'[v] = "exited" => wpc[v] = "exited"
         /\ \A d \in Clients : cpc'[d] = "waited" =>
              /\ snapshot'[d] = snapshot[d]
              /\ cpc[d] = "waited" \/ (inFlight = 0 /\ tasks = <<>>)
<1>1. cpc[c] # "left"
  BY DEF ClientStep, Call, Install, NotifyTarget, AwaitBatch, Retire, Rethrow, NotifyEnqueued,
     GetReturns, CheckWait, WaitReturns, StartBatch, Enqueue, CallGet, CallWait, Leave
<1>2. UNCHANGED <<stop, done>>
  BY DEF ClientStep, Call, Install, NotifyTarget, AwaitBatch, Retire, Rethrow, NotifyEnqueued, GetReturns,
     CheckWait, WaitReturns, StartBatch, Enqueue, CallGet, CallWait, Leave, queueVars, history
<1>3. \A v \in Workers : wpc'[v] = "exited" => wpc[v] = "exited"
  <2>1. UNCHANGED wpc \/ NotifyOneWorker
    BY DEF ClientStep, Call, Install, NotifyTarget, AwaitBatch, Retire, Rethrow, NotifyEnqueued, GetReturns,
       CheckWait, WaitReturns, StartBatch, Enqueue, CallGet, CallWait, Leave, workerVars
  <2> QED
    BY <2>1, NotifyKeepsWork DEF BatchTypeOK
<1>4. ASSUME NEW d \in Clients, cpc'[d] = "waited"
      PROVE  snapshot'[d] = snapshot[d] /\ (cpc[d] = "waited" \/ (inFlight = 0 /\ tasks = <<>>))
  <2> USE DEF BatchTypeOK, ClientPcs, TaskType, history
  <2>1. CASE Install(c) BY <1>4, <2>1 DEF Install
  <2>2. CASE NotifyTarget(c) BY <1>4, <2>2 DEF NotifyTarget
  <2>3. CASE AwaitBatch(c) BY <1>4, <2>3 DEF AwaitBatch
  <2>4. CASE Retire(c) BY <1>4, <2>4 DEF Retire
  <2>5. CASE Rethrow(c) BY <1>4, <2>5 DEF Rethrow
  <2>6. CASE NotifyEnqueued(c) BY <1>4, <2>6 DEF NotifyEnqueued
  <2>7. CASE GetReturns(c) BY <1>4, <2>7 DEF GetReturns
  <2>8. CASE CheckWait(c) BY <1>4, <2>8 DEF CheckWait
  <2>9. CASE WaitReturns(c) BY <1>4, <2>9 DEF WaitReturns
  <2>10. CASE StartBatch(c) BY <1>4, <2>10 DEF StartBatch
  <2>11. CASE Enqueue(c) BY <1>4, <2>11 DEF Enqueue
  <2>12. CASE CallGet(c) BY <1>4, <2>12 DEF CallGet
  <2>13. CASE CallWait(c) BY <1>4, <2>13 DEF CallWait
  <2>14. CASE Leave(c) BY <1>4, <2>14 DEF Leave
  <2> QED
    BY <2>1, <2>2, <2>3, <2>4, <2>5, <2>6, <2>7, <2>8, <2>9, <2>10, <2>11, <2>12, <2>13, <2>14
       DEF ClientStep, Call
<1> QED
  BY <1>1, <1>2, <1>3, <1>4

LEMMA EndInvStep == TInv /\ BatchTypeOK /\ [Next]_vars => EndInv'
<1> SUFFICES ASSUME TInv, BatchTypeOK, [Next]_vars PROVE EndInv'
  OBVIOUS
<1>1. TaskType /\ TrackInv /\ EndInv
  BY DEF TInv, TaskInv
<1>2. ASSUME NEW w \in Workers, WorkerStep(w) \/ SpuriousWakeup(w) PROVE EndInv'
  <2>1. Undisturbed
    BY <1>2, WorkerEnds
  <2>2. ASSUME NEW c \in Clients, cpc'[c] = "waited" PROVE snapshot'[c] \subseteq done'
    <3>1. cpc[c] = "waited"
      <4>1. cpc'[c] = "waited" => cpc[c] = "waited"
        BY <2>1, Zenon DEF Undisturbed
      <4> QED
        BY <2>2, <4>1
    <3>2. done \subseteq done'
      BY <2>1 DEF Undisturbed
    <3>3. snapshot' = snapshot
      BY <2>1 DEF Undisturbed
    <3>4. snapshot[c] \subseteq done
      BY <1>1, <3>1 DEF EndInv
    <3> QED
      BY <3>2, <3>3, <3>4
  <2>3. ASSUME stop', NEW c \in Clients PROVE cpc'[c] = "left"
    <3>1. stop' = stop
      BY <2>1 DEF Undisturbed
    <3>2. cpc[c] = "left"
      BY <1>1, <2>3, <3>1 DEF EndInv
    <3>3. cpc[c] = "left" => cpc'[c] = "left"
      BY <2>1, Zenon DEF Undisturbed
    <3> QED
      BY <3>2, <3>3
  <2>4. \A v \in Workers : wpc'[v] = "exited" => stop' /\ tasks' = <<>>
    BY <1>1, <2>1 DEF EndInv, Undisturbed
  <2> QED
    BY <2>2, <2>3, <2>4 DEF EndInv
<1>3. ASSUME NEW c \in Clients, ClientStep(c) \/ Call(c) PROVE EndInv'
  <2>1. /\ cpc[c] # "left" /\ UNCHANGED <<stop, done>>
        /\ \A v \in Workers : wpc'[v] = "exited" => wpc[v] = "exited"
        /\ \A d \in Clients : cpc'[d] = "waited" =>
             snapshot'[d] = snapshot[d] /\ (cpc[d] = "waited" \/ (inFlight = 0 /\ tasks = <<>>))
    BY <1>1, <1>3, ClientEnds
  <2>2. ~stop /\ ~stop'
    BY <1>1, <2>1 DEF EndInv
  <2>3. \A v \in Workers : wpc'[v] # "exited"
    BY <1>1, <2>1, <2>2 DEF EndInv
  <2>4. inFlight = 0 /\ tasks = <<>> => 1..nTasks \subseteq done
    BY <1>1, EmptyHands, NothingLeft
  <2>5. \A d \in Clients : snapshot[d] \subseteq 1..nTasks
    BY <1>1 DEF TaskType
  <2>6. ASSUME NEW d \in Clients, cpc'[d] = "waited" PROVE snapshot'[d] \subseteq done'
    BY <1>1, <2>1, <2>4, <2>5, <2>6 DEF EndInv
  <2> QED
    BY <2>2, <2>3, <2>6 DEF EndInv
<1>4. CASE Destroy
  <2>1. /\ UNCHANGED <<cpc, snapshot, done, tasks>> /\ ~stop
        /\ \A c \in Clients : cpc[c] = "left"
    BY <1>4 DEF Destroy, clientVars, history
  <2>2. \A v \in Workers : (wpc'[v] = "exited") <=> (wpc[v] = "exited")
    BY <1>4, NotifyKeepsWork DEF Destroy, BatchTypeOK
  <2> QED
    BY <1>1, <2>1, <2>2 DEF EndInv
<1>5. CASE UNCHANGED vars
  BY <1>1, <1>5 DEF vars, queueVars, workerVars, clientVars, countVars, history, EndInv
<1> QED
  BY <1>2, <1>3, <1>4, <1>5 DEF Next, Destroyed

LEMMA NotifyInvStep == IInv /\ IInv' /\ TInv /\ [Next]_vars => NotifyInv'
<1> SUFFICES ASSUME IInv, IInv', TInv, [Next]_vars PROVE NotifyInv'
  OBVIOUS
<1>1. BatchTypeOK /\ BatchTypeOK' /\ NotifyInv /\ TaskType /\ CallerInv /\ WorkerInv
  BY DEF IInv, PoolInv, TInv, TaskInv
<1>2. MaxBatches \in Nat /\ nBatches \in 0..MaxBatches
  BY <1>1, Sizes DEF BatchTypeOK
<1>3. ASSUME NEW w \in Workers, WorkerStep(w) \/ SpuriousWakeup(w) PROVE NotifyInv'
  <2>1. UNCHANGED <<left, nBatches>> /\ \A c \in Clients : cpc'[c] = "notify" => cpc[c] = "notify"
    <3> USE <1>1 DEF BatchTypeOK, ClientPcs, batchVars, clientVars
    <3>1. CASE Signal(w) BY <3>1 DEF Signal
    <3>2. CASE Finish(w)
      <4>1. UNCHANGED cpc \/ \E c \in Clients : cpc' = [cpc EXCEPT ![c] = "wait"]
        BY <3>2 DEF Finish
      <4> QED
        BY <3>2, <4>1 DEF Finish
    <3>3. CASE ~Signal(w) /\ ~Finish(w)
      BY <1>3, <3>3 DEF WorkerStep, SpuriousWakeup, Exit, Sleep, Register, Surplus, TakeTask, Claim,
         Execute, Count, Rejoin, RunTask
    <3> QED
      BY <3>1, <3>2, <3>3
  <2>2. CASE Count(w)
    <3>1. wbatch[w] \in 0..nBatches /\ remaining' = [remaining EXCEPT ![wbatch[w]] = @ - 1]
      BY <1>1, <2>2 DEF Count, BatchTypeOK
    <3>2. \A b \in (nBatches + 1)..MaxBatches : b \in Batches /\ b # wbatch[w]
      BY <1>2, <3>1 DEF Batches
    <3>3. \A b \in (nBatches + 1)..MaxBatches : remaining'[b] = remaining[b]
      BY <1>1, <3>1, <3>2 DEF BatchTypeOK
    <3> QED
      BY <1>1, <2>1, <3>3 DEF NotifyInv
  <2>3. CASE ~Count(w)
    <3>1. UNCHANGED remaining
      BY <1>3, <2>3 DEF WorkerStep, SpuriousWakeup, Exit, Sleep, Register, Surplus, TakeTask, Claim,
         Execute, Signal, Rejoin, RunTask, Finish, batchVars
    <3> QED
      BY <1>1, <2>1, <3>1 DEF NotifyInv
  <2> QED
    BY <2>2, <2>3
<1>4. ASSUME NEW c \in Clients, ClientStep(c) \/ Call(c) PROVE NotifyInv'
  <2>1. CASE Install(c)
    <3>1. PICK n \in 1..MaxSize :
            /\ remaining' = [remaining EXCEPT ![nBatches + 1] = n]
            /\ left' = [left EXCEPT ![c] = TargetWorkers(n)]
      BY <2>1 DEF Install
    <3>2. nBatches' = nBatches + 1 /\ cpc' = [cpc EXCEPT ![c] = "notify"]
      BY <2>1 DEF Install
    <3>3. \A d \in Clients : cpc'[d] = "notify" => left'[d] > 0
      BY <1>1, <3>1, <3>2, TargetIsPositive DEF NotifyInv, BatchTypeOK, TaskType
    <3>4. \A b \in (nBatches' + 1)..MaxBatches :
            b \in Batches /\ b # nBatches + 1 /\ b \in (nBatches + 1)..MaxBatches
      BY <1>2, <3>2 DEF Batches
    <3>5. \A b \in (nBatches' + 1)..MaxBatches : remaining'[b] = 0
      BY <1>1, <3>1, <3>4 DEF NotifyInv, BatchTypeOK
    <3> QED
      BY <3>3, <3>5 DEF NotifyInv
  <2>2. CASE ~Install(c)
    <3>1. UNCHANGED <<remaining, nBatches>>
      BY <1>4, <2>2 DEF ClientStep, Call, NotifyTarget, AwaitBatch, Retire, Rethrow, NotifyEnqueued,
         GetReturns, CheckWait, WaitReturns, StartBatch, Enqueue, CallGet, CallWait, Leave, batchVars
    <3>2. CASE NotifyTarget(c)
      <4>1. /\ left' = [left EXCEPT ![c] = @ - 1] /\ cpc[c] = "notify"
            /\ cpc' = [cpc EXCEPT ![c] = IF left[c] = 1 THEN "await" ELSE "notify"]
        BY <3>2 DEF NotifyTarget
      <4>2. left[c] \in Nat /\ left[c] > 0
        BY <1>1, <4>1 DEF NotifyInv, TaskType
      <4>3. \A d \in Clients : cpc'[d] = "notify" => left'[d] > 0
        BY <1>1, <4>1, <4>2 DEF NotifyInv, TaskType, BatchTypeOK
      <4> QED
        BY <1>1, <3>1, <4>3 DEF NotifyInv
    <3>3. CASE ~NotifyTarget(c)
      <4>1. UNCHANGED left
        BY <1>4, <2>2, <3>3 DEF ClientStep, Call, AwaitBatch, Retire, Rethrow, NotifyEnqueued, GetReturns,
           CheckWait, WaitReturns, StartBatch, Enqueue, CallGet, CallWait, Leave, clientVars
      <4>2. \A d \in Clients : cpc'[d] = "notify" => cpc[d] = "notify"
        <5> USE <1>1 DEF BatchTypeOK
        <5>1. (\E p \in ClientPcs \ {"notify"} : cpc' = [cpc EXCEPT ![c] = p]) \/ Retire(c)
          BY <1>4, <2>2, <3>3 DEF ClientStep, Call, AwaitBatch, Rethrow, NotifyEnqueued, GetReturns,
             CheckWait, WaitReturns, StartBatch, Enqueue, CallGet, CallWait, Leave, ClientPcs
        <5>2. CASE Retire(c)
          BY <5>2 DEF Retire
        <5> QED
          BY <5>1, <5>2
      <4> QED
        BY <1>1, <3>1, <4>1, <4>2 DEF NotifyInv
    <3> QED
      BY <3>2, <3>3
  <2> QED
    BY <2>1, <2>2
<1>5. CASE Destroy \/ UNCHANGED vars
  BY <1>1, <1>5 DEF Destroy, vars, queueVars, batchVars, clientVars, NotifyInv
<1> QED
  BY <1>3, <1>4, <1>5 DEF Next, Destroyed

-------------------------------------------------------------------------------
LEMMA InitTInv == Init => TInv
<1> SUFFICES ASSUME Init PROVE TInv
  OBVIOUS
<1>1. TaskType
  <2>1. tasks = <<>> /\ Len(tasks) = 0 /\ tasks \in Seq(Nat)
    BY DEF Init
  <2>2. /\ stop \in BOOLEAN /\ nTasks \in 0..MaxTasks /\ nWaits \in 0..MaxWaits /\ done \subseteq 1..nTasks
        /\ left \in [Clients -> Nat] /\ mine \in [Clients -> SUBSET (1..nTasks)]
        /\ snapshot \in [Clients -> SUBSET (1..nTasks)]
    <3>1. /\ stop = FALSE /\ nTasks = 0 /\ nWaits = 0 /\ done = {}
          /\ left = [c \in Clients |-> 0] /\ mine = [c \in Clients |-> {}]
          /\ snapshot = [c \in Clients |-> {}]
      BY DEF Init
    <3>2. nTasks \in 0..MaxTasks /\ nWaits \in 0..MaxWaits
      BY <3>1, Sizes
    <3>3. /\ mine \in [Clients -> SUBSET (1..nTasks)] /\ snapshot \in [Clients -> SUBSET (1..nTasks)]
      BY <3>1
    <3> QED
      BY <3>1, <3>2, <3>3
  <2> QED
    BY <2>1, <2>2 DEF TaskType
<1>2. Taken = {}
  BY DEF Init, Taken
<1>3. TrackInv
  BY <1>2, FS_EmptySet DEF Init, TrackInv
<1>4. EndInv
  BY DEF Init, EndInv
<1>5. NotifyInv
  BY Sizes DEF Init, NotifyInv, Batches
<1> QED
  BY <1>1, <1>3, <1>4, <1>5 DEF TInv, TaskInv

(* Every task enqueued is queued, in hand or done, throughout. *)
THEOREM TaskInvariant == Spec => []TInv
<1>1. IInv /\ IInv' /\ TInv /\ [Next]_vars => TInv'
  BY TaskTypeStep, TrackInvStep, EndInvStep, NotifyInvStep DEF TInv, TaskInv, IInv
<1> QED
  BY <1>1, InitTInv, PoolInvariant, PTL DEF Spec

(* wait returns only when every task enqueued before it has run. *)
THEOREM WaitCoversTasks == Spec => []WaitCoversEarlierTasks
<1>1. TInv => WaitCoversEarlierTasks
  BY DEF TInv, TaskInv, EndInv, WaitCoversEarlierTasks
<1> QED
  BY <1>1, TaskInvariant, PTL

(* When the destructor has joined the workers, no task was dropped. *)
THEOREM JoinLeavesNothing == Spec => []JoinDrainsQueue
<1>1. ASSUME TInv, Joined PROVE 1..nTasks \subseteq done
  <2>1. TrackInv /\ EndInv /\ \A w \in Workers : wpc[w] = "exited"
    BY <1>1 DEF TInv, TaskInv, Joined
  <2>2. tasks = <<>>
    BY <2>1, PoolAssumption DEF EndInv, PoolAssumption
  <2> QED
    BY <2>1, <2>2, NothingLeft
<1>2. TInv => JoinDrainsQueue
  BY <1>1 DEF JoinDrainsQueue
<1> QED
  BY <1>2, TaskInvariant, PTL

-------------------------------------------------------------------------------
(* Every field of the pool keeps its type, whatever its size and its clients. *)
LEMMA SeqOfElements ==
  ASSUME NEW S, NEW s \in Seq(Nat), \A i \in 1..Len(s) : s[i] \in S
  PROVE  s \in Seq(S)
<1>1. s \in [1..Len(s) -> Nat] /\ Len(s) \in Nat
  BY LenProperties
<1>2. s \in [1..Len(s) -> S]
  BY <1>1
<1> QED
  BY <1>1, <1>2, SeqDef

THEOREM PoolTypes == Spec => []TypeOK
<1>1. ASSUME IInv, TInv PROVE TypeOK
  <2>1. BatchTypeOK /\ TaskType /\ TrackInv /\ NotifyInv /\ CountInv
    BY <1>1 DEF IInv, TInv, TaskInv, PoolInv
  <2>2. inFlight \in Nat
    BY <2>1, TakenIsFinite DEF TrackInv
  <2>3. tasks \in Seq(1..nTasks)
    BY <2>1, SeqOfElements DEF TaskType
  <2>4. remaining \in [Batches -> Nat]
    <3>1. ASSUME NEW b \in Batches PROVE remaining[b] \in Nat
      <4>1. nBatches \in 0..MaxBatches /\ MaxBatches \in Nat /\ size[b] \in Nat
        BY <2>1, Sizes DEF BatchTypeOK
      <4>2. CASE b \in 1..nBatches
        <5>1. Uncounted(b) \subseteq 0..(size[b] - 1)
          BY DEF Uncounted
        <5>2. IsFiniteSet(Uncounted(b))
          <6>1. size[b] - 1 \in Int
            BY <4>1
          <6>2. IsFiniteSet(0..(size[b] - 1))
            BY <6>1, FS_Interval
          <6> QED
            BY <5>1, <6>2, FS_Subset
        <5> QED
          BY <2>1, <4>2, <5>2, FS_CardinalityType DEF CountInv, RemainingIsUncounted
      <4>3. CASE b \notin 1..nBatches
        <5>1. b \in (nBatches + 1)..MaxBatches
          BY <4>1, <4>3 DEF Batches
        <5> QED
          BY <2>1, <5>1 DEF NotifyInv
      <4> QED
        BY <4>2, <4>3
    <3> QED
      BY <2>1, <3>1 DEF BatchTypeOK
  <2> QED
    BY <2>1, <2>2, <2>3, <2>4 DEF TypeOK, TaskType
<1> QED
  BY <1>1, PoolInvariant, TaskInvariant, PTL
===============================================================================
