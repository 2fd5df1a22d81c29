------------------------------ MODULE DataflowRun ------------------------------
(***************************************************************************)
(* What one execution of a RuntimeGraph promises, whatever the scheduler:  *)
(* nodes are evaluated one by one, each once and after every node it reads *)
(* from, and the call succeeds exactly when all of them were evaluated.    *)
(***************************************************************************)
EXTENDS Integers

CONSTANTS Nodes, Graphs

VARIABLES
  preds,     \* preds[n]: the nodes whose outputs n reads
  status,    \* "idle", "running", "ok" or "error": what the last call returned
  finished   \* nodes evaluated in the current call

vars == <<preds, status, finished>>

Init == preds \in Graphs /\ status = "idle" /\ finished = {}

Begin ==
  /\ status # "running"
  /\ status' = "running" /\ finished' = {} /\ UNCHANGED preds

(* A call that is refused leaves the results of the last one. *)
Refuse == status # "running" /\ status' = "error" /\ UNCHANGED <<preds, finished>>

Evaluate(n) ==
  /\ status = "running"
  /\ n \notin finished /\ preds[n] \subseteq finished
  /\ finished' = finished \cup {n} /\ UNCHANGED <<preds, status>>

Succeed == status = "running" /\ finished = Nodes /\ status' = "ok" /\ UNCHANGED <<preds, finished>>

Fail == status = "running" /\ status' = "error" /\ UNCHANGED <<preds, finished>>

Next == Begin \/ Refuse \/ (\E n \in Nodes : Evaluate(n)) \/ Succeed \/ Fail

Spec == Init /\ [][Next]_vars
===============================================================================
