------------------------------ MODULE QwenChat ------------------------------
(***************************************************************************)
(* Chats that share one runner: QwenChatSession::GenerateTurn              *)
(* (src/demo/qwen_chat_session.cc) over the runner's steps.  The calls are *)
(* made one after the other; a step of the model is what runs between two  *)
(* places where the turn can fail, be cancelled or call back.              *)
(***************************************************************************)
EXTENDS QwenRunner, SequencesExt

CONSTANTS
    Chat,
    System,             \* system_tokens_ of each chat
    Prompt,             \* the prompts each chat may be given
    Budget,             \* max_new_tokens, or -1
    Reply,              \* the tokens the model may produce,
    Stop,               \*   and those of them that end a turn
    EndOfTurn, Newline, \* end_of_turn_token_, newline_tokens_
    Foreign,            \* what others feed to the runner
    Loads,              \* the plans the runner may be loaded with
    MaxTurns,           \* bounds: the turns begun, and what disturbs them: calls
    MaxUpsets           \*   from outside, failures, cancels, nested calls

\* What the arguments may be: GenerateTurn refuses any other budget.
ASSUME ChatAssumption ==
    /\ Chat # {} /\ System \in [Chat -> Seq(Token)]
    /\ \A c \in Chat : Prompt[c] \subseteq Seq(Token)
    /\ Budget # {} /\ Budget \subseteq {-1} \cup (Nat \ {0})
    /\ Reply \subseteq Token /\ EndOfTurn \in Token
    /\ Newline \in Seq(Token) /\ Foreign \in Seq(Token)
    /\ Loads \subseteq [size : 1 .. ModelLimit, auto : BOOLEAN]

Closing == 1 + Len(Newline)     \* closure_tokens

VARIABLES
    turns,      \* QwenChatHistory::turns_
    needs,      \* needs_rebuild_
    seen,       \* runner_state_revision_
    pc, who,    \* the turn that runs, or "outside" for another call
    prompt, budget,     \* its arguments
    plan,       \* the PlanTurn it goes by
    feed,       \* the tokens the current call has still to run
    generated,
    begun, upsets       \* bounds

chatVars == <<turns, needs, seen>>
turnVars == <<pc, who, prompt, budget, plan, feed, generated>>
vars == <<runnerVars, chatVars, turnVars, begun, upsets>>

\* A call of the runner is executing.
Feeding == {"replay", "prompt", "closure", "recover", "outside"}

TypeOK ==
    /\ RunnerTypeOK
    /\ turns \in [Chat -> Seq(Seq(Token))]
    /\ needs \in [Chat -> BOOLEAN] /\ seen \in [Chat -> 0 .. revision]
    /\ pc \in Feeding \cup {"idle", "reserve", "rebuild", "generate", "decode", "token", "close",
                        "restore", "restored"}
    /\ who \in Chat /\ prompt \in Seq(Token) /\ budget \in Budget
    /\ plan.dropped \in 0 .. Len(turns[who]) \/ pc = "idle"
    /\ feed \in Seq(Token) /\ generated \in Seq(Reply)

NoPlanYet == [dropped |-> 0, replay |-> <<>>]

Init ==
    /\ cache = <<>> /\ processed = 0 /\ invalid = FALSE /\ revision = 1
    /\ \E l \in Loads : capacity = l.size /\ auto = l.auto
    /\ turns = [c \in Chat |-> <<>>]
    /\ needs = [c \in Chat |-> TRUE]
    /\ seen = [c \in Chat |-> 0]
    /\ pc = "idle" /\ who = CHOOSE c \in Chat : TRUE
    /\ prompt = <<>> /\ budget = CHOOSE m \in Budget : TRUE
    /\ plan = NoPlanYet
    /\ feed = <<>> /\ generated = <<>>
    /\ begun = 0 /\ upsets = 0

------------------------------------------------------------------------------
(* QwenChatHistory *)

Tokens(c, from) == System[c] \o FlattenSeq(SubSeq(turns[c], from, Len(turns[c])))
ReplayTokens(c) == Tokens(c, 1)
TokenCount(c) == Len(ReplayTokens(c))

\* BUG (a mutant): the closure is forgotten.
BugAvailable(c, p, size) == size - Len(System[c]) - Len(p)

\* What the system, the prompt and the closure leave of a context.
Available(c, p, size) == size - Len(System[c]) - Len(p) - Closing
Accepts(c, p, size) == Available(c, p, size) > 0

\* The generation reserve goes off first, then whole turns, the oldest first.
PlanTurn(c, p, m, size) ==
    LET available == Available(c, p, size)
        room == available - IF m = -1 THEN 1 ELSE Min({m, available})
        fits == {d \in 0 .. Len(turns[c]) : Len(Tokens(c, d + 1)) - Len(System[c]) <= room}
        dropped == Min(fits)
    IN [dropped |-> dropped, replay |-> Tokens(c, dropped + 1)]

------------------------------------------------------------------------------
(* The calls of a turn *)

unchangedTurn == <<who, budget, begun, upsets>>

Upset == upsets < MaxUpsets /\ upsets' = upsets + 1
UpsetIf(condition) == IF condition THEN Upset ELSE UNCHANGED upsets

GoTo(stage) == pc' = stage /\ feed' = <<>> /\ UNCHANGED <<prompt, plan, generated>>

\* What the chat knows of the runner is right from here on.
Trust ==
    /\ needs' = [needs EXCEPT ![who] = FALSE]
    /\ seen' = [seen EXCEPT ![who] = revision']

\* The turn is over; its local variables go.
Return == pc' = "idle" /\ feed' = <<>> /\ prompt' = <<>> /\ plan' = NoPlanYet /\ generated' = <<>>

\* BUG (a mutant): a chunk of the recovery that fails is tried again.
BugFail ==
    CASE pc = "recover" -> UNCHANGED <<pc, feed, prompt, plan, generated>>
      [] pc \in {"restored", "outside"} -> Return
      [] OTHER -> GoTo("restore")

\* A call that fails sends the turn to restore_history, whose own failure, like
\* that of a call from outside, ends it.
Fail == IF pc \in {"restored", "recover", "outside"} THEN Return ELSE GoTo("restore")

\* Consume, or the start of GenerateStream: room is made before a token runs.
StartCall(stage, tokens, required) ==
    /\ Bump(1)
    /\ \E size \in Ensured(required) :
         /\ Grown(size) /\ UpsetIf(size = 0 /\ Ensured(required) # {0})
         /\ IF size = 0 THEN Fail
            ELSE pc' = stage /\ feed' = tokens /\ UNCHANGED <<prompt, plan, generated>>
Consume(stage, tokens) == StartCall(stage, tokens, processed + Len(tokens))

\* BUG (a mutant): what others did to the runner is not asked for.
BugRebuilds(c) == needs[c]

\* The live state is not, or no longer, what this chat left behind.
Rebuilds(c) == needs[c] \/ seen[c] # revision

\* The checks, and the reset of a state that is not the chat's own.  A turn
\* that the first plan refuses changes nothing and is no action here.
BeginTurn(c, p, m) ==
    /\ pc = "idle" /\ begun < MaxTurns
    /\ capacity > 0 /\ Accepts(c, p, IF auto THEN ModelLimit ELSE capacity)
    /\ needs' = [needs EXCEPT ![c] = Rebuilds(c)]
    /\ IF Rebuilds(c) THEN Reset /\ Bump(1) ELSE UNCHANGED runnerVars
    /\ pc' = "reserve" /\ who' = c /\ prompt' = p /\ budget' = m
    /\ begun' = begun + 1
    /\ UNCHANGED <<turns, seen, plan, feed, generated, upsets>>

\* Room for the complete history and the turn, up to the model's limit; then
\* the plan.  Capacity alone is no change of state: no bump.
Required == Min({ModelLimit, TokenCount(who) + Len(prompt) + Closing + IF budget = -1 THEN 1 ELSE budget})

Reserve ==
    /\ pc = "reserve"
    /\ \E size \in IF auto THEN Reserved(Required) ELSE {capacity} :
         /\ Grown(size) /\ Bump(0) /\ UpsetIf(size = 0)
         /\ IF size # 0 /\ Accepts(who, prompt, size)
            THEN /\ pc' = "rebuild" /\ plan' = PlanTurn(who, prompt, budget, size)
                 /\ UNCHANGED <<prompt, feed, generated>>
            ELSE Return
    /\ UNCHANGED <<chatVars, who, budget, begun>>

\* The state goes when turns are dropped from it, unless it is gone already.
ResetForReplay ==
    /\ pc = "rebuild" /\ plan.dropped # 0 /\ ~needs[who]
    /\ needs' = [needs EXCEPT ![who] = TRUE]
    /\ Reset /\ Bump(1)
    /\ UNCHANGED <<turns, seen, turnVars, begun, upsets>>

\* What the plan keeps is replayed.
StartReplay ==
    /\ pc = "rebuild"
    /\ needs[who] \/ (plan.dropped = 0 /\ processed = 0 /\ plan.replay # <<>>)
    /\ IF plan.replay = <<>>
       THEN UNCHANGED <<runnerVars, upsets>> /\ Trust /\ GoTo("generate")
       ELSE /\ needs' = [needs EXCEPT ![who] = TRUE]
            /\ Consume("replay", plan.replay)
            /\ UNCHANGED seen
    /\ UNCHANGED <<turns, who, budget, begun>>

\* The live state is the chat's own history, none of it dropped: it goes on.
Continue ==
    /\ pc = "rebuild" /\ plan.dropped = 0 /\ ~needs[who]
    /\ processed # 0 \/ plan.replay = <<>>
    /\ GoTo("generate")
    /\ UNCHANGED <<runnerVars, chatVars, unchangedTurn>>

\* GenerateImpl up to RunPrompt.  The last check of the room, after a growth
\* that succeeded, repeats what EnsureContext has just established.
StartGeneration ==
    /\ pc = "generate"
    /\ StartCall("prompt", prompt, processed + Len(prompt) + Closing)
    /\ UNCHANGED <<chatVars, who, budget, begun>>

\* One pass of RunPrompt: a chunk, run by the plan of its length.
RunChunk ==
    LET tokens == SubSeq(feed, 1, Chunk(Len(feed))) IN
    /\ pc \in Feeding /\ feed # <<>>
    /\ \/ /\ StepRuns(tokens)
          /\ feed' = SubSeq(feed, Len(tokens) + 1, Len(feed))
          /\ UNCHANGED <<pc, prompt, plan, generated, upsets>>
       \/ StepFails(tokens) /\ Fail /\ UpsetIf(pc # "outside")
       \/ NoPlan(tokens) /\ Fail /\ UpsetIf(pc # "outside")
       \/ StepRefused(tokens) /\ Fail /\ UNCHANGED upsets
    /\ UNCHANGED <<chatVars, who, budget, begun>>

Replayed ==
    /\ pc = "replay" /\ feed = <<>>
    /\ UNCHANGED <<runnerVars, turns, unchangedTurn>>
    /\ Trust /\ GoTo("generate")

\* Cancelled with a part of the prompt consumed, or none.
CancelPrompt ==
    /\ pc = "prompt" /\ feed # <<>> /\ Upset
    /\ GoTo("restore")
    /\ UNCHANGED <<runnerVars, chatVars, who, budget, begun>>

Prompted ==
    /\ pc = "prompt" /\ feed = <<>>
    /\ GoTo("decode")
    /\ UNCHANGED <<runnerVars, chatVars, unchangedTurn>>

------------------------------------------------------------------------------
(* The loop of GenerateImpl *)

Spent == budget # -1 /\ Len(generated) >= budget
Full(size) == processed >= size - Closing

CancelReply ==
    /\ pc = "decode" /\ Upset
    /\ GoTo("close")
    /\ UNCHANGED <<runnerVars, chatVars, who, budget, begun>>

EndAtBudget ==
    /\ pc = "decode" /\ Spent
    /\ GoTo("close")
    /\ UNCHANGED <<runnerVars, chatVars, unchangedTurn>>

\* The checks before a token, with the growth they may call for.
CheckRoom ==
    /\ pc = "decode" /\ ~Spent
    /\ \E size \in IF Full(capacity) /\ auto /\ capacity < ModelLimit
                   THEN Ensured(processed + Closing + 1) ELSE {capacity} :
         /\ Grown(size) /\ Bump(0) /\ UpsetIf(size = 0)
         /\ IF size = 0 THEN Fail ELSE GoTo(IF Full(size) THEN "close" ELSE "token")
    /\ UNCHANGED <<chatVars, who, budget, begun>>

\* The token goes to the caller, who may throw, and then to the decoder.
EmitToken(t) ==
    /\ pc = "token"
    /\ \/ StepRuns(<<t>>) /\ generated' = Append(generated, t) /\ pc' = (IF t \in Stop THEN "close" ELSE "decode")
          /\ UNCHANGED <<feed, prompt, plan, upsets>>
       \/ StepFails(<<t>>) /\ Fail /\ Upset
       \/ UNCHANGED runnerVars /\ Fail /\ Upset
    /\ UNCHANGED <<chatVars, who, budget, begun>>

------------------------------------------------------------------------------
(* GenerateTurn after the generation *)

EndedWithStop == generated # <<>> /\ Last(generated) \in Stop

\* BUG (a mutant): an answer that stopped is closed a second time.
BugClosure == <<EndOfTurn>> \o Newline

Closure == IF EndedWithStop THEN Newline ELSE <<EndOfTurn>> \o Newline

CloseTurn ==
    /\ pc = "close"
    /\ Consume("closure", Closure)
    /\ UNCHANGED <<chatVars, who, budget, begun>>

\* ApplyPlan and AppendTurn: the only place where the history changes.
Commit ==
    /\ pc = "closure" /\ feed = <<>>
    /\ turns' = [turns EXCEPT ![who] = Append(SubSeq(@, plan.dropped + 1, Len(@)), prompt \o generated \o Closure)]
    /\ seen' = [seen EXCEPT ![who] = revision]
    /\ Return
    /\ UNCHANGED <<runnerVars, needs, unchangedTurn>>

\* restore_history: the reset, then all turns, those the plan drops included.
Restore ==
    /\ pc = "restore"
    /\ needs' = [needs EXCEPT ![who] = TRUE]
    /\ Reset /\ Bump(1)
    /\ GoTo("restored")
    /\ UNCHANGED <<turns, seen, unchangedTurn>>

\* BUG (a mutant): the turns that the plan keeps are replayed, not all of them.
BugOriginal == plan.replay

\* history_ as it is: ApplyPlan has not been called.
Original == ReplayTokens(who)

StartRecovery ==
    /\ pc = "restored"
    /\ IF Original = <<>>
       THEN UNCHANGED <<runnerVars, upsets>> /\ Trust /\ Return
       ELSE Consume("recover", Original) /\ UNCHANGED <<needs, seen>>
    /\ UNCHANGED <<turns, who, budget, begun>>

Recovered ==
    /\ pc = "recover" /\ feed = <<>>
    /\ UNCHANGED <<runnerVars, turns, unchangedTurn>>
    /\ Trust /\ Return

------------------------------------------------------------------------------
(* The others *)

\* GenerateTurn of a chat from within a callback of the turn that runs: the
\* runner was bumped since the chat last trusted it, and refuses the reset.
NestedTurn(c) ==
    /\ pc \in {"prompt", "decode", "token"}
    /\ Upset /\ ~needs[c] /\ Rebuilds(c)
    /\ needs' = [needs EXCEPT ![c] = TRUE]
    /\ UNCHANGED <<runnerVars, turns, seen, turnVars, begun>>

Outside == pc = "idle" /\ Upset

OutsideLoad ==
    /\ Outside
    /\ \/ \E l \in Loads : Load(l.size, l.auto)
       \/ Load(0, FALSE)
    /\ UNCHANGED <<chatVars, turnVars, begun>>

OutsideReset == Outside /\ Reset /\ Bump(1) /\ UNCHANGED <<chatVars, turnVars, begun>>

OutsideReserve ==
    /\ Outside
    /\ \E size \in {ModelLimit} : \E got \in Reserved(size) : Grown(got) /\ Bump(0)
    /\ UNCHANGED <<chatVars, turnVars, begun>>

\* Consume, EvaluateToken or Generate.
OutsideCall ==
    /\ Outside
    /\ \E size \in Ensured(processed + Len(Foreign)) :
         /\ Grown(size) /\ Bump(1)
         /\ IF size = 0 THEN Return
            ELSE pc' = "outside" /\ feed' = Foreign /\ UNCHANGED <<prompt, plan, generated>>
    /\ UNCHANGED <<chatVars, who, budget, begun>>

OutsideDone ==
    /\ pc = "outside" /\ feed = <<>>
    /\ Return
    /\ UNCHANGED <<runnerVars, chatVars, unchangedTurn>>

------------------------------------------------------------------------------
Step ==
    \/ Reserve \/ ResetForReplay \/ StartReplay \/ Continue \/ StartGeneration
    \/ RunChunk \/ Replayed \/ CancelPrompt \/ Prompted
    \/ CancelReply \/ EndAtBudget \/ CheckRoom \/ \E t \in Reply : EmitToken(t)
    \/ CloseTurn \/ Commit \/ Restore \/ StartRecovery \/ Recovered \/ OutsideDone

Next ==
    \/ \E c \in Chat, m \in Budget : \E p \in Prompt[c] : BeginTurn(c, p, m)
    \/ Step
    \/ \E c \in Chat : NestedTurn(c)
    \/ OutsideLoad \/ OutsideReset \/ OutsideReserve \/ OutsideCall

\* A call that runs goes on: nothing in it waits for another thread.
Spec == Init /\ [][Next]_vars /\ WF_vars(Step)

------------------------------------------------------------------------------
(* Properties *)

\* The first token of an answer, and every later one, is chosen by a model
\* whose state is exactly the chat's own system prompt, its kept whole turns,
\* its prompt and its answer so far: nothing of another chat, of a call from
\* outside, of a failed or cancelled turn, and nothing twice.
AnswersFromOwnHistory ==
    pc \in {"decode", "token", "close"} =>
        /\ ~invalid /\ processed = Len(cache)
        /\ cache = Tokens(who, plan.dropped + 1) \o prompt \o generated

\* Between turns, a chat that would go on from the runner's live state without
\* a reset finds there a valid state that is its recorded history.
LiveStateIsHistory ==
    pc = "idle" => \A c \in Chat :
        ~needs[c] /\ seen[c] = revision => ~invalid /\ cache = ReplayTokens(c)

\* A turn that was accepted has room: for a first token of the answer, and for
\* its closure whatever the answer was.  Neither can fail for lack of context.
RoomForReply ==
    /\ pc = "decode" /\ generated = <<>> => processed + Closing < capacity
    /\ pc = "close" => processed + Len(Closure) <= capacity

\* The histories are logs of whole turns: a prompt, an answer in which nothing
\* follows a stop token, and the closure that such an answer needs.  A failure,
\* a cancelled prompt or a dropped turn never leaves a part of one.
WholeTurn(c, t) ==
    \E p \in Prompt[c], n \in 0 .. Len(t) :
        LET reply == SubSeq(t, Len(p) + 1, Len(p) + n)
            stopped == n > 0 /\ Last(reply) \in Stop
        IN /\ Len(p) + n <= Len(t)
           /\ \A k \in 1 .. n : reply[k] \in Stop => k = n
           /\ t = p \o reply \o (IF stopped THEN Newline ELSE <<EndOfTurn>> \o Newline)

Log == INSTANCE ChatLog
LogSpec == Log!Spec

\* A turn, and a call from outside, ends.
TurnEnds == (pc # "idle") ~> (pc = "idle")
=============================================================================
