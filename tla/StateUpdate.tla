------------------------------ MODULE StateUpdate ------------------------------
(***************************************************************************)
(* What a StatefulSession promises (docs/execution_architecture.md: crossed*)
(* states are read with their values from before the update): the bound    *)
(* states change only by one simultaneous assignment, by a reset, or       *)
(* because the caller sets one.  Running the graph computes their next     *)
(* contents and leaves the states alone.  On a device an update may fail   *)
(* before it is done; no state is then left with anything but its contents *)
(* from before or after.                                                   *)
(***************************************************************************)

EXTENDS Integers

CONSTANTS
  States,       \* state inputs
  IsZero(_)     \* the contents a reset leaves in one

VARIABLES
  bound,        \* the states that have a binding
  state,        \* contents of the states
  next,         \* what the bindings would make of them
  update,       \* "none", "open" or "done"
  device,       \* the states are on a device
  calls,        \* counts what the caller does to the states: resets and new contents
  resets        \* and the resets among them

callVars == <<calls, resets>>
vars == <<bound, state, next, update, device, callVars>>

Init ==
  /\ bound = {} /\ update = "none" /\ calls = 0 /\ resets = 0
  /\ DOMAIN state = States /\ DOMAIN next = States

(* A binding says what becomes of its state. *)
Bind ==
  /\ update = "none"
  /\ \E s \in States \ bound : bound' = bound \cup {s} /\ \A t \in States \ {s} : next'[t] = next[t]
  /\ UNCHANGED <<state, update, device, callVars>>

Keep(S) == \A s \in S : state'[s] = state[s]

(* A run, or a caller that writes other tensors, gives next new values. *)
Compute == update = "none" /\ Keep(bound) /\ UNCHANGED <<bound, update, device, callVars>>

(* An update is accepted, and what it is to do is fixed. *)
Begin ==
  /\ update = "none" /\ update' \in {"open", "done"}
  /\ UNCHANGED <<bound, state, next, device, callVars>>

Complete == update = "open" /\ update' = "done" /\ UNCHANGED <<bound, state, next, device, callVars>>

(* All bound states take their next contents at once. *)
Advance ==
  /\ update = "done" /\ update' = "none"
  /\ \A s \in bound : state'[s] = next[s]
  /\ UNCHANGED <<bound, device, callVars>>

Fail ==
  /\ update = "open" /\ device /\ update' = "none"
  /\ \A s \in bound : state'[s] \in {state[s], next[s]}
  /\ UNCHANGED <<bound, device, callVars>>

Reset ==
  /\ update = "none"
  /\ \A s \in bound : IsZero(state'[s])
  /\ UNCHANGED <<bound, update, device>> /\ calls' = calls + 1 /\ resets' = resets + 1

(* The caller gives at most one state other contents. *)
Set ==
  /\ update = "none"
  /\ \A s, t \in bound : s = t \/ Keep({s}) \/ Keep({t})
  /\ UNCHANGED <<bound, update, device, resets>> /\ calls' = calls + 1

Next == Bind \/ Compute \/ Begin \/ Complete \/ Advance \/ Fail \/ Reset \/ Set

Spec == Init /\ [][Next]_vars
===============================================================================
