----------------------------- MODULE QwenRunner -----------------------------
(***************************************************************************)
(* The request state of a QwenRunner (src/demo/qwen_runner.cc and          *)
(* qwen_runner_growth.cc): the key/value, convolution and recurrent caches *)
(* as the sequence of tokens they stand for, and the counters beside them. *)
(*                                                                         *)
(* The definitions are the steps the runner's calls are made of, for the   *)
(* module that makes the calls.  An operator that names a capacity gives   *)
(* the set of capacities the call can leave, 0 for a call that fails.      *)
(***************************************************************************)
EXTENDS Integers, Sequences, FiniteSetsExt

CONSTANTS
    Token,
    ModelLimit,         \* ModelContextLimit(): what the model can be grown to
    PrefillLimit        \* the longest chunk of a prompt

ASSUME LimitAssumption == ModelLimit \in Nat \ {0} /\ PrefillLimit \in Nat \ {0}

VARIABLES
    cache,      \* the tokens the caches have been written with
    processed,  \* QwenDecodeState::tokens_processed
    invalid,    \* QwenDecodeState::invalid
    revision,   \* QwenDecodeState::revision
    capacity,   \* max_context_ of the loaded plan, 0 when none is loaded
    auto        \* auto_context_growth_

runnerVars == <<cache, processed, invalid, revision, capacity, auto>>

RunnerTypeOK ==
    /\ cache \in Seq(Token)
    /\ processed \in 0 .. Len(cache)
    /\ invalid \in BOOLEAN
    /\ revision \in Nat
    /\ capacity \in 0 .. ModelLimit
    /\ auto \in BOOLEAN

\* BUG (a mutant): the position survives a reset.
BugEmpty == cache' = <<>> /\ invalid' = FALSE /\ UNCHANGED processed

\* The state is wiped.
Empty ==
    /\ cache' = <<>>
    /\ processed' = 0
    /\ invalid' = FALSE

\* Every call that may change the state is counted, whether it succeeds or not.
Bump(calls) == revision' = revision + calls

\* Load: whatever was loaded goes first; a failure (size 0) leaves nothing.
Load(size, growing) ==
    /\ Empty
    /\ Bump(1)
    /\ capacity' = size
    /\ auto' = growing

\* Reset, which a runner without a plan refuses.
Reset ==
    /\ IF capacity > 0 THEN Empty ELSE UNCHANGED <<cache, processed, invalid>>
    /\ UNCHANGED <<capacity, auto>>

------------------------------------------------------------------------------
(* EnsureContext and ReserveContext *)

\* The capacity doubles until it is enough or the limit of the model.
Doubled(required) ==
    Min({s \in required .. ModelLimit : s = ModelLimit \/ \E k \in 1 .. s : s = capacity * 2 ^ k})

\* ReserveContextInternal: the larger plan may fail to load or to be copied
\* into, and a state that failed is not copied at all.
Reserved(size) ==
    IF capacity = 0 \/ size > ModelLimit \/ invalid THEN {0}
    ELSE IF size <= capacity THEN {capacity}
    ELSE {size, 0}

Ensured(required) ==
    IF capacity = 0 THEN {0}
    ELSE IF required <= capacity THEN {capacity}
    ELSE IF auto /\ required <= ModelLimit THEN Reserved(Doubled(required))
    ELSE {0}

\* A larger plan gets the rows of the tokens processed and no others; a growth
\* that failed leaves the old plan.
Grown(size) ==
    /\ capacity' = IF size = 0 THEN capacity ELSE size
    /\ cache' = IF size \in {0, capacity} THEN cache ELSE SubSeq(cache, 1, processed)
    /\ UNCHANGED <<processed, invalid, auto>>

------------------------------------------------------------------------------
(* RunStep and the prompts made of it *)

\* The longest power of two that the rest and the limit allow.
Chunk(rest) == Max({n \in 1 .. Min({rest, PrefillLimit}) : \E k \in 0 .. n : n = 2 ^ k})

\* The layers are executed, the states copied and the logits read.
StepRuns(tokens) ==
    /\ ~invalid
    /\ processed + Len(tokens) <= capacity
    /\ cache' = cache \o tokens
    /\ processed' = processed + Len(tokens)
    /\ UNCHANGED <<invalid, revision, capacity, auto>>

\* It fails after some of the layers may have written their caches.
StepFails(tokens) ==
    /\ ~invalid
    /\ cache' \in {cache, cache \o tokens}
    /\ invalid' = TRUE
    /\ UNCHANGED <<processed, revision, capacity, auto>>

\* GetSequencePlan cannot prepare the plan of a chunk: nothing has run.
NoPlan(tokens) == ~invalid /\ Len(tokens) > 1 /\ UNCHANGED runnerVars

\* After a failure, or without room, nothing runs; RunPrompt marks the state.
StepRefused(tokens) ==
    /\ invalid \/ processed + Len(tokens) > capacity
    /\ invalid' = TRUE
    /\ UNCHANGED <<cache, processed, revision, capacity, auto>>
=============================================================================
