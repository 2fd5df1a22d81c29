---------------------------- MODULE QwenChatProofs ----------------------------
(***************************************************************************)
(* Proofs about QwenChat for any chats, prompts, budgets, replies, limits  *)
(* and disturbances: every token of an answer is chosen from exactly the   *)
(* chat's own history, a chat that goes on from the live state finds its   *)
(* history there, an accepted turn has room for a token and its closure,   *)
(* and the histories are logs of whole turns.                              *)
(***************************************************************************)
EXTENDS QwenChat, SequenceTheorems, WellFoundedInduction, TLAPS

(* The calls of a turn, after the checks of BeginTurn. *)
Turn == Feeding \cup {"reserve", "rebuild", "generate", "decode", "token", "close", "restore", "restored"}

Types ==
  /\ TypeOK
  /\ plan \in [dropped : Nat, replay : Seq(Token)]
  /\ plan.dropped <= Len(turns[who])
  /\ pc \in Turn \ {"outside"} => capacity > 0

(* The position counts what the caches hold, unless a step has failed. *)
Good == ~invalid /\ processed = Len(cache)
Sound == ~invalid => processed = Len(cache)

(* No chat trusts the live state: a call of the runner has been counted since. *)
Behind == \A c \in Chat : seen[c] < revision
BehindInv ==
  pc \in {"outside", "replay", "prompt", "decode", "token", "close", "closure", "restored", "recover"} => Behind

(* A chat that trusts the live state finds its history there. *)
Live == \A c \in Chat : ~needs[c] /\ seen[c] = revision => Good /\ cache = ReplayTokens(c)
LiveInv == pc \in {"idle", "reserve"} => Live

(* What the turn starts from: its history, or nothing. *)
Own == Good /\ cache = IF needs[who] THEN <<>> ELSE ReplayTokens(who)
OwnInv == pc \in {"reserve", "rebuild"} => Own

(* The plan keeps whole turns and leaves room for a token and the closure. *)
Planned ==
  /\ prompt \in Prompt[who]
  /\ plan.replay = Tokens(who, plan.dropped + 1)
  /\ Len(plan.replay) + Len(prompt) + Closing < capacity
PlanInv ==
  /\ pc \in {"rebuild", "replay", "generate", "prompt", "decode", "token", "close", "closure"} => Planned
  /\ pc = "reserve" => prompt \in Prompt[who]
  /\ pc \in {"idle", "outside", "reserve"} => plan = NoPlanYet

(* What the caches will hold when the call that runs is done. *)
FeedInv ==
  /\ pc \in {"replay", "generate", "prompt", "decode", "token", "close", "closure", "restored", "recover"} => Good
  /\ pc \notin Feeding => feed = <<>>
  /\ pc \in {"replay", "generate"} => cache \o feed = plan.replay
  /\ pc = "prompt" => cache \o feed = plan.replay \o prompt
  /\ pc \in {"decode", "token", "close"} => cache = plan.replay \o prompt \o generated
  /\ pc = "closure" => cache \o feed = plan.replay \o prompt \o generated \o Closure
  /\ pc = "restored" => cache = <<>>
  /\ pc = "recover" => cache \o feed = ReplayTokens(who)

(* An answer, which nothing follows once it has stopped. *)
ReplyInv ==
  /\ \A k \in 1 .. Len(generated) : generated[k] \in Stop => k = Len(generated)
  /\ pc \in {"decode", "token"} => ~EndedWithStop
  /\ pc \in {"idle", "outside", "reserve", "rebuild", "replay", "generate", "prompt"} => generated = <<>>

RoomInv ==
  /\ pc = "decode" => processed + Closing <= capacity /\ (generated = <<>> => processed + Closing < capacity)
  /\ pc = "token" => processed + Closing < capacity
  /\ pc = "close" => processed + Len(Closure) <= capacity

IInv ==
  /\ Types /\ Sound /\ BehindInv /\ LiveInv /\ OwnInv
  /\ PlanInv /\ FeedInv /\ ReplyInv /\ RoomInv

-------------------------------------------------------------------------------
(* Induction over the natural numbers, by a set, and what it gives for the   *)
(* operators on numbers and sequences that the model is built from.          *)

(* Every set of natural numbers that is not empty has a least one. *)
LEMMA LeastNat == ASSUME NEW S \in SUBSET Nat, S # {} PROVE \E m \in S : \A k \in S : m <= k
<1>1. PICK R : R = OpToRel(<, Nat)
  OBVIOUS
<1>2. IsWellFoundedOn(R, Nat)
  BY <1>1, NatLessThanWellFounded
<1>3. PICK m \in S : \A k \in S : ~(<<k, m>> \in R)
  BY <1>2, WFMin
<1>4. R = {ss \in Nat \X Nat : ss[1] < ss[2]}
  BY <1>1 DEF OpToRel
<1>5. ASSUME NEW k \in S PROVE m <= k
  <2>1. k \in Nat /\ m \in Nat
    OBVIOUS
  <2>2. <<k, m>> \in Nat \X Nat /\ <<k, m>>[1] = k /\ <<k, m>>[2] = m
    BY <2>1
  <2>3. ~(k < m)
    <3> SUFFICES ASSUME k < m PROVE FALSE
      OBVIOUS
    <3>1. <<k, m>>[1] < <<k, m>>[2]
      BY <2>2
    <3>2. <<k, m>> \in R
      BY <3>1, <2>2, <1>4
    <3> QED
      BY <3>2, <1>3
  <2> QED
    BY <2>1, <2>3
<1> QED
  BY <1>5

(* A set that holds 0 and the successors of its members holds them all. *)
LEMMA NatSetInduction ==
  ASSUME NEW S, 0 \in S, \A n \in Nat : n \in S => n + 1 \in S
  PROVE  Nat \subseteq S
<1> SUFFICES ASSUME Nat \ S # {} PROVE FALSE
  OBVIOUS
<1>1. PICK m \in Nat \ S : \A k \in Nat \ S : m <= k
  BY LeastNat
<1>2. m # 0 /\ m - 1 \in Nat
  BY <1>1
<1>3. m - 1 \in S
  BY <1>1, <1>2
<1> QED
  BY <1>2, <1>3, <1>1

(* Min and Max are what their names say. *)
LEMMA MinIsLeast ==
  ASSUME NEW S \in SUBSET Nat, S # {}
  PROVE  Min(S) \in S /\ \A k \in S : Min(S) <= k
BY LeastNat DEF Min

LEMMA MaxIsGreatest ==
  ASSUME NEW n \in Nat, NEW S \in SUBSET (0 .. n), S # {}
  PROVE  Max(S) \in S /\ \A k \in S : Max(S) >= k
<1> DEFINE T == {t \in 0 .. n : n - t \in S}
<1>1. \A k \in S : k \in 0 .. n /\ n - k \in T /\ n - (n - k) = k
  OBVIOUS
<1>2. T \in SUBSET Nat /\ T # {}
  <2>1. PICK k : k \in S
    OBVIOUS
  <2>2. n - k \in T
    BY <1>1, <2>1
  <2>3. T \in SUBSET Nat
    OBVIOUS
  <2> HIDE DEF T
  <2> QED
    BY <2>2, <2>3
<1>3. PICK t \in T : \A k \in T : t <= k
  <2> HIDE DEF T
  <2> QED
    BY <1>2, LeastNat
<1>4. t \in 0 .. n /\ n - t \in S
  OBVIOUS
<1>5. \A k \in S : n - t >= k
  <2> TAKE k \in S
  <2>1. k \in 0 .. n /\ t <= n - k
    BY <1>1, <1>3
  <2> QED
    BY <2>1, <1>4
<1> QED
  BY <1>4, <1>5 DEF Max

LEMMA MinOfTwo ==
  ASSUME NEW a \in Nat, NEW b \in Nat
  PROVE  Min({a, b}) = IF a <= b THEN a ELSE b
<1>1. Min({a, b}) \in {a, b} /\ \A k \in {a, b} : Min({a, b}) <= k
  BY MinIsLeast
<1> QED
  BY <1>1

(* RunPrompt always takes a chunk, and never more than the rest. *)
LEMMA ChunkFits == ASSUME NEW rest \in Nat \ {0} PROVE Chunk(rest) \in 1 .. rest
<1> DEFINE top == Min({rest, PrefillLimit})
           S == {n \in 1 .. top : \E k \in 0 .. n : n = 2 ^ k}
<1>1. PrefillLimit \in Nat \ {0}
  BY LimitAssumption DEF LimitAssumption
<1>2. top \in 1 .. rest
  BY <1>1, MinOfTwo
<1>3. 1 \in S
  <2>1. 1 = 2 ^ 0 /\ 0 \in 0 .. 1
    OBVIOUS
  <2>2. \E k \in 0 .. 1 : 1 = 2 ^ k
    BY <2>1, Zenon
  <2>3. 1 \in 1 .. top
    BY <1>2
  <2> QED
    BY <2>2, <2>3, Zenon
<1>4. S \subseteq 0 .. top
  OBVIOUS
<1> HIDE DEF top, S
<1>5. Max(S) \in S
  BY <1>2, <1>3, <1>4, MaxIsGreatest
<1>6. Max(S) \in 1 .. top
  BY <1>5 DEF S
<1> QED
  BY <1>2, <1>6 DEF Chunk, S, top

(* The doubling of EnsureContext ends with enough, and within the limit. *)
LEMMA DoubledIsEnough ==
  ASSUME NEW required \in Nat, required <= ModelLimit
  PROVE  Doubled(required) \in required .. ModelLimit
<1> DEFINE S == {s \in required .. ModelLimit : s = ModelLimit \/ \E k \in 1 .. s : s = capacity * 2 ^ k}
<1>1. ModelLimit \in S
  BY LimitAssumption DEF LimitAssumption
<1>2. S \in SUBSET Nat
  OBVIOUS
<1> HIDE DEF S
<1>3. Min(S) \in S
  BY <1>1, <1>2, MinIsLeast
<1> QED
  BY <1>3 DEF S, Doubled

(* The function that FlattenSeq is defined by: what the first i hold. *)
Chain(s, n, f) == f = [i \in 1 .. n |-> IF i = 1 THEN s[i] ELSE f[i-1] \o s[i]]

(* Concatenation may be regrouped; named, for the provers to match it as a whole. *)
Regroups(r, s, t) == (r \o s) \o t = r \o (s \o t)
LEMMA TokensAssociate ==
  ASSUME NEW r \in Seq(Token), NEW s \in Seq(Token), NEW t \in Seq(Token)
  PROVE  Regroups(r, s, t)
BY ConcatAssociative DEF Regroups

LEMMA ChainExists == ASSUME NEW s, NEW n \in Nat PROVE \E f : Chain(s, n, f)
<1> DEFINE A == {k \in Nat : \E f : Chain(s, k, f)}
<1>1. 0 \in A
  <2> PICK f : f = [i \in 1 .. 0 |-> <<>>]
    OBVIOUS
  <2>1. f = [i \in 1 .. 0 |-> IF i = 1 THEN s[i] ELSE f[i-1] \o s[i]]
    OBVIOUS
  <2> QED
    BY <2>1 DEF Chain
<1>2. ASSUME NEW k \in Nat, k \in A PROVE k + 1 \in A
  <2>1. PICK f : Chain(s, k, f)
    BY <1>2
  <2>2. PICK g : g = [i \in 1 .. k + 1 |-> IF i = 1 THEN s[i] ELSE f[i-1] \o s[i]]
    OBVIOUS
  <2>3. ASSUME NEW i \in 1 .. k PROVE g[i] = f[i]
    <3>1. i \in 1 .. k + 1
      OBVIOUS
    <3>2. f[i] = IF i = 1 THEN s[i] ELSE f[i-1] \o s[i]
      BY <2>1, Zenon DEF Chain
    <3>3. g[i] = IF i = 1 THEN s[i] ELSE f[i-1] \o s[i]
      BY <2>2, <3>1, Zenon
    <3> QED
      BY <3>2, <3>3, Zenon
  <2>4. ASSUME NEW i \in 1 .. k + 1 PROVE g[i] = IF i = 1 THEN s[i] ELSE g[i-1] \o s[i]
    <3>1. CASE i = 1
      BY <3>1, <2>2
    <3>2. CASE i # 1
      <4>1. i - 1 \in 1 .. k
        BY <3>2
      <4> QED
        BY <3>2, <4>1, <2>2, <2>3
    <3> QED
      BY <3>1, <3>2
  <2>5. g = [i \in 1 .. k + 1 |-> IF i = 1 THEN s[i] ELSE g[i-1] \o s[i]]
    BY <2>2, <2>4, Zenon
  <2>6. \E h : Chain(s, k + 1, h)
    BY <2>5, Zenon DEF Chain
  <2> QED
    BY <2>6
<1> HIDE DEF A
<1>3. Nat \subseteq A
  BY <1>1, <1>2, NatSetInduction
<1> QED
  BY <1>3 DEF A

(* What it gives are sequences, which depend on what is before them only. *)
LEMMA ChainType ==
  ASSUME NEW S, NEW s \in Seq(Seq(S)), NEW n \in 0 .. Len(s), NEW f, Chain(s, n, f)
  PROVE  \A i \in 1 .. n : f[i] \in Seq(S)
<1> DEFINE A == {k \in Nat : k \in 1 .. n => f[k] \in Seq(S)}
<1>1. 0 \in A
  OBVIOUS
<1>2. ASSUME NEW k \in Nat, k \in A PROVE k + 1 \in A
  <2> SUFFICES ASSUME k + 1 \in 1 .. n PROVE f[k + 1] \in Seq(S)
    OBVIOUS
  <2>1. k + 1 \in 1 .. Len(s) /\ s[k + 1] \in Seq(S)
    OBVIOUS
  <2>2. CASE k = 0
    BY <2>1, <2>2 DEF Chain
  <2>3. CASE k # 0
    <3>1. k \in 1 .. n /\ f[k] \in Seq(S) /\ k + 1 # 1 /\ (k + 1) - 1 = k
      BY <2>3, <1>2
    <3>2. f[k + 1] = f[k] \o s[k + 1]
      BY <3>1 DEF Chain
    <3> QED
      BY <3>1, <3>2, <2>1, ConcatProperties
  <2> QED
    BY <2>2, <2>3
<1> HIDE DEF A
<1>3. Nat \subseteq A
  BY <1>1, <1>2, NatSetInduction
<1>4. ASSUME NEW i \in 1 .. n PROVE f[i] \in Seq(S)
  BY <1>3 DEF A
<1> QED
  BY <1>4

Agree(s, t, n) == \A i \in 1 .. n : s[i] = t[i]

LEMMA ChainPrefix ==
  ASSUME NEW s, NEW t, NEW n \in Nat, NEW f, NEW g, Chain(s, n, f), Chain(t, n + 1, g),
         Agree(s, t, n)
  PROVE  Agree(f, g, n)
<1> USE DEF Agree
<1> DEFINE A == {k \in Nat : k \in 1 .. n => f[k] = g[k]}
<1>1. 0 \in A
  OBVIOUS
<1>2. ASSUME NEW k \in Nat, k \in A PROVE k + 1 \in A
  <2> SUFFICES ASSUME k + 1 \in 1 .. n PROVE f[k + 1] = g[k + 1]
    OBVIOUS
  <2>1. k + 1 \in 1 .. n + 1 /\ s[k + 1] = t[k + 1]
    OBVIOUS
  <2>2. CASE k = 0
    BY <2>1, <2>2 DEF Chain
  <2>3. CASE k # 0
    <3>1. k \in 1 .. n /\ k + 1 \in 1 .. n /\ f[k] = g[k] /\ k + 1 # 1 /\ (k + 1) - 1 = k
      BY <2>3, <1>2
    <3>2. f[k + 1] = f[k] \o s[k + 1]
      <4>1. f[k + 1] = IF k + 1 = 1 THEN s[k + 1] ELSE f[(k + 1) - 1] \o s[k + 1]
        BY <3>1 DEF Chain
      <4> QED
        BY <3>1, <4>1
    <3>3. g[k + 1] = g[k] \o t[k + 1]
      BY <3>1, <2>1 DEF Chain
    <3> QED
      BY <3>1, <3>2, <3>3, <2>1
  <2> QED
    BY <2>2, <2>3
<1> HIDE DEF A
<1>3. Nat \subseteq A
  BY <1>1, <1>2, NatSetInduction
<1>4. ASSUME NEW i \in 1 .. n PROVE f[i] = g[i]
  BY <1>3 DEF A
<1> QED
  BY <1>4

LEMMA FlattenIsChain ==
  ASSUME NEW s, Len(s) \in Nat \ {0}
  PROVE  \E f : Chain(s, Len(s), f) /\ FlattenSeq(s) = f[Len(s)]
<1>1. PICK g : Chain(s, Len(s), g)
  BY ChainExists
<1>2. PICK f : f = CHOOSE h : h = [i \in 1 .. Len(s) |-> IF i = 1 THEN s[i] ELSE h[i-1] \o s[i]]
  OBVIOUS
<1>3. Chain(s, Len(s), f)
  BY <1>1, <1>2, Zenon DEF Chain
<1>4. FlattenSeq(s) = f[Len(s)]
  BY <1>2 DEF FlattenSeq
<1> QED
  BY <1>3, <1>4

LEMMA FlattenEmpty == FlattenSeq(<<>>) = <<>>
  BY DEF FlattenSeq

(* FlattenSeq gives the turns one after the other, and so a history grows by *)
(* the turn that is appended.                                                *)
LEMMA FlattenType == ASSUME NEW S, NEW s \in Seq(Seq(S)) PROVE FlattenSeq(s) \in Seq(S)
<1>1. CASE s = <<>>
  <2>1. <<>> \in Seq(S)
    OBVIOUS
  <2> QED
    BY <1>1, <2>1, FlattenEmpty
<1>2. CASE s # <<>>
  <2>1. Len(s) \in Nat \ {0}
    BY <1>2
  <2>2. PICK f : Chain(s, Len(s), f) /\ FlattenSeq(s) = f[Len(s)]
    BY <2>1, FlattenIsChain
  <2>3. f[Len(s)] \in Seq(S)
    BY <2>1, <2>2, ChainType
  <2> QED
    BY <2>2, <2>3
<1> QED
  BY <1>1, <1>2

LEMMA FlattenAppend ==
  ASSUME NEW S, NEW s \in Seq(Seq(S)), NEW t \in Seq(S)
  PROVE  FlattenSeq(Append(s, t)) = FlattenSeq(s) \o t
<1>n. PICK n : n = Len(s)
  OBVIOUS
<1>1. PICK u : u = Append(s, t)
  OBVIOUS
<1>2. u \in Seq(Seq(S)) /\ Len(u) = n + 1 /\ u[n + 1] = t /\ \A i \in 1 .. n : s[i] = u[i]
  BY <1>1, <1>n, AppendProperties
<1>3. n \in Nat /\ n + 1 \in Nat \ {0} /\ n + 1 \in n .. n + 1 /\ (n + 1) - 1 = n
  BY <1>n
<1>4. PICK g : Chain(u, n + 1, g) /\ FlattenSeq(u) = g[n + 1]
  BY <1>2, <1>3, FlattenIsChain
<1>5. CASE n = 0
  <2>1. g[1] = t
    <3>1. 1 \in 1 .. 1 /\ u[1] = t /\ Chain(u, 1, g)
      BY <1>2, <1>4, <1>5
    <3>2. g[1] = u[1]
      BY <3>1, Zenon DEF Chain
    <3> QED
      BY <3>1, <3>2
  <2>2. s = <<>>
    BY <1>n, <1>5, EmptySeq
  <2>3. FlattenSeq(s) \o t = t
    BY <2>2, FlattenEmpty, ConcatEmptySeq
  <2> QED
    BY <2>1, <2>3, <1>1, <1>4, <1>5
<1>6. CASE n # 0
  <2>1. PICK f : Chain(s, n, f) /\ FlattenSeq(s) = f[n]
    BY <1>n, <1>3, <1>6, FlattenIsChain
  <2>2. n \in 1 .. n /\ n + 1 \in 1 .. n + 1 /\ n + 1 # 1
    BY <1>3, <1>6
  <2>3. \A i \in 1 .. n : f[i] = g[i]
    <3>1. Chain(s, n, f) /\ Chain(u, n + 1, g)
      BY <1>4, <2>1
    <3>2. Agree(s, u, n)
      BY <1>2 DEF Agree
    <3>3. Agree(f, g, n)
      BY <3>1, <3>2, <1>3, ChainPrefix
    <3> QED
      BY <3>3 DEF Agree
  <2>4. g[n + 1] = g[n] \o u[n + 1]
    <3>1. g = [i \in 1 .. n + 1 |-> IF i = 1 THEN u[i] ELSE g[i-1] \o u[i]]
      BY <1>4, Zenon DEF Chain
    <3>2. g[n + 1] = IF n + 1 = 1 THEN u[n + 1] ELSE g[(n + 1) - 1] \o u[n + 1]
      BY <3>1, <2>2, Zenon
    <3> QED
      BY <3>2, <2>2, <1>3
  <2> QED
    BY <2>1, <2>2, <2>3, <2>4, <1>1, <1>2, <1>4
<1> QED
  BY <1>5, <1>6

-------------------------------------------------------------------------------
(* The steps that the calls of the runner are made of *)

(* A history from any of its turns on is a sequence of tokens. *)
LEMMA TokensType ==
  ASSUME turns \in [Chat -> Seq(Seq(Token))], NEW c \in Chat, NEW from \in 1 .. Len(turns[c]) + 1
  PROVE  Tokens(c, from) \in Seq(Token)
<1>1. turns[c] \in Seq(Seq(Token)) /\ System[c] \in Seq(Token)
  BY ChatAssumption DEF ChatAssumption
<1>2. \A i \in from .. Len(turns[c]) : turns[c][i] \in Seq(Token)
  BY <1>1, ElementOfSeq
<1>3. SubSeq(turns[c], from, Len(turns[c])) \in Seq(Seq(Token))
  BY <1>1, <1>2, SubSeqProperties
<1>4. FlattenSeq(SubSeq(turns[c], from, Len(turns[c]))) \in Seq(Token)
  BY <1>3, FlattenType
<1> QED
  BY <1>1, <1>4, ConcatProperties DEF Tokens

LEMMA TokensOfNone ==
  ASSUME turns \in [Chat -> Seq(Seq(Token))], NEW c \in Chat
  PROVE  Tokens(c, Len(turns[c]) + 1) = System[c]
<1>1. turns[c] \in Seq(Seq(Token)) /\ System[c] \in Seq(Token)
  BY ChatAssumption DEF ChatAssumption
<1>2. Len(turns[c]) \in Nat
  BY <1>1
<1>3. SubSeq(turns[c], Len(turns[c]) + 1, Len(turns[c])) = <<>>
  BY <1>2, SubSeqEmpty
<1> QED
  BY <1>1, <1>3, FlattenEmpty, ConcatEmptySeq DEF Tokens

(* What a size of a call of the runner can be. *)
Room(size, required) ==
  /\ size \in 0 .. ModelLimit
  /\ size # 0 => size >= required /\ size >= capacity /\ capacity > 0 /\ (size # capacity => ~invalid)

(* A size that a call leaves is 0 or enough, and no invalid state is copied. *)
LEMMA ReservedRoom ==
  ASSUME RunnerTypeOK, NEW required \in Nat, NEW size \in Reserved(required)
  PROVE  Room(size, required)
  BY LimitAssumption DEF LimitAssumption, RunnerTypeOK, Reserved, Room

LEMMA EnsuredRoom ==
  ASSUME RunnerTypeOK, NEW required \in Nat, NEW size \in Ensured(required)
  PROVE  Room(size, required)
<1>1. CASE capacity = 0 \/ required <= capacity \/ ~auto \/ required > ModelLimit
  BY <1>1, LimitAssumption DEF Ensured, Room, RunnerTypeOK, LimitAssumption
<1>2. CASE capacity # 0 /\ required > capacity /\ auto /\ required <= ModelLimit
  <2>1. Doubled(required) \in required .. ModelLimit /\ ModelLimit \in Nat
    BY <1>2, DoubledIsEnough, LimitAssumption DEF LimitAssumption
  <2>2. size \in Reserved(Doubled(required))
    BY <1>2, LimitAssumption DEF Ensured, RunnerTypeOK, LimitAssumption
  <2>3. Room(size, Doubled(required))
    BY <2>1, <2>2, ReservedRoom
  <2> QED
    BY <2>1, <2>3 DEF Room
<1> QED
  BY <1>1, <1>2, LimitAssumption DEF RunnerTypeOK, LimitAssumption

(* A growth, or one that failed, keeps what a valid state holds. *)
LEMMA GrownKeeps ==
  ASSUME RunnerTypeOK, Sound, NEW required \in Nat, NEW size, Room(size, required), Grown(size),
         revision' \in Nat
  PROVE  /\ RunnerTypeOK' /\ Sound' /\ invalid' = invalid /\ processed' = processed
         /\ ~invalid => cache' = cache
         /\ size # 0 => capacity' = size
         /\ capacity' >= capacity
<1>1. cache \in Seq(Token) /\ processed \in 0 .. Len(cache) /\ capacity \in 0 .. ModelLimit
  BY DEF RunnerTypeOK
<1>2. UNCHANGED <<processed, invalid, auto>>
  BY DEF Grown
<1>3. (size # 0 => capacity' = size) /\ (size = 0 => capacity' = capacity)
  BY DEF Grown
<1>4. capacity' \in 0 .. ModelLimit /\ capacity' >= capacity
  BY <1>1, <1>3 DEF Room
<1>5. CASE size \in {0, capacity}
  <2>1. cache' = cache
    BY <1>5 DEF Grown
  <2> QED
    BY <1>2, <1>3, <1>4, <2>1 DEF RunnerTypeOK, Sound
<1>6. CASE size \notin {0, capacity}
  <2>1. ~invalid /\ processed = Len(cache)
    BY <1>6 DEF Room, Sound
  <2>2. cache' = SubSeq(cache, 1, processed)
    BY <1>6 DEF Grown
  <2>3. cache' = cache
    BY <2>1, <2>2, <1>1, SubSeqFull
  <2> QED
    BY <1>2, <1>3, <1>4, <2>3 DEF RunnerTypeOK, Sound
<1> QED
  BY <1>5, <1>6

(* A chunk and what is left of the feed are the feed. *)
LEMMA ChunkOfFeed ==
  ASSUME NEW S, NEW s \in Seq(S), s # <<>>, NEW n, n = Chunk(Len(s))
  PROVE  /\ SubSeq(s, 1, n) \in Seq(S) /\ Len(SubSeq(s, 1, n)) = n /\ n \in 1 .. Len(s)
         /\ SubSeq(s, n + 1, Len(s)) \in Seq(S)
         /\ SubSeq(s, 1, n) \o SubSeq(s, n + 1, Len(s)) = s
<1>1. Len(s) \in Nat \ {0}
  BY EmptySeq
<1>2. n \in 1 .. Len(s)
  BY <1>1, ChunkFits
<1>3. \A i \in 1 .. Len(s) : s[i] \in S
  BY ElementOfSeq
<1>4. SubSeq(s, 1, n) \in Seq(S) /\ Len(SubSeq(s, 1, n)) = n
  BY <1>2, <1>3, SubSeqProperties
<1>5. SubSeq(s, n + 1, Len(s)) \in Seq(S)
  BY <1>1, <1>2, <1>3, SubSeqProperties
<1>6. SubSeq(s, 1, n) \o SubSeq(s, n + 1, Len(s)) = SubSeq(s, 1, Len(s))
  BY <1>1, <1>2, ConcatAdjacentSubSeq
<1> QED
  BY <1>2, <1>4, <1>5, <1>6, SubSeqFull

-------------------------------------------------------------------------------
(* What every stage needs and leaves *)

ChatTypes ==
  /\ turns \in [Chat -> Seq(Seq(Token))]
  /\ needs \in [Chat -> BOOLEAN] /\ seen \in [Chat -> 0 .. revision]
  /\ who \in Chat /\ budget \in Budget

(* The end of a turn, or of a call from outside. *)
LEMMA ReturnKeeps ==
  ASSUME RunnerTypeOK', Sound', ChatTypes', Live', Return
  PROVE  IInv'
<1>1. <<>> \in Seq(Token) /\ <<>> \in Seq(Reply) /\ Len(<<>>) = 0
  OBVIOUS
<1>2. plan' = NoPlanYet /\ pc' = "idle" /\ feed' = <<>> /\ prompt' = <<>> /\ generated' = <<>>
  BY DEF Return
<1>3. turns'[who'] \in Seq(Seq(Token)) /\ Len(turns'[who']) \in Nat
  BY DEF ChatTypes
<1>4. plan' \in [dropped : Nat, replay : Seq(Token)] /\ plan'.dropped = 0
  BY <1>1, <1>2 DEF NoPlanYet
<1>5. Types'
  BY <1>1, <1>2, <1>3, <1>4 DEF ChatTypes, Types, TypeOK, Turn, Feeding
<1>6. BehindInv' /\ LiveInv' /\ OwnInv' /\ PlanInv' /\ RoomInv'
  BY <1>2 DEF BehindInv, LiveInv, OwnInv, PlanInv, RoomInv
<1>7. FeedInv'
  BY <1>2 DEF FeedInv, Feeding
<1>8. ReplyInv'
  BY <1>1, <1>2 DEF ReplyInv
<1> QED
  BY <1>5, <1>6, <1>7, <1>8 DEF IInv

(* A failed, cancelled or refused call sends the turn to restore_history. *)
LEMMA RestoreKeeps ==
  ASSUME IInv, RunnerTypeOK', Sound', ChatTypes', UNCHANGED <<turns, who>>, capacity' > 0, GoTo("restore")
  PROVE  IInv'
<1>1. pc' = "restore" /\ feed' = <<>> /\ UNCHANGED <<prompt, plan, generated>>
  BY DEF GoTo
<1>2. <<>> \in Seq(Token)
  OBVIOUS
<1>3. Types /\ ReplyInv
  BY DEF IInv
<1>4. Types'
  BY <1>1, <1>2, <1>3 DEF ChatTypes, Types, TypeOK, Turn, Feeding
<1>5. BehindInv' /\ LiveInv' /\ OwnInv' /\ PlanInv' /\ RoomInv'
  BY <1>1 DEF BehindInv, LiveInv, OwnInv, PlanInv, RoomInv
<1>6. FeedInv'
  BY <1>1 DEF FeedInv, Feeding
<1>7. ReplyInv'
  BY <1>1, <1>3 DEF ReplyInv
<1> QED
  BY <1>4, <1>5, <1>6, <1>7 DEF IInv

LEMMA FailKeeps ==
  ASSUME IInv, RunnerTypeOK', Sound', ChatTypes', UNCHANGED <<turns, who>>, capacity' >= capacity,
         pc # "idle", Behind', Fail
  PROVE  IInv'
<1>1. CASE pc \in {"restored", "recover", "outside"}
  <2>1. Live'
    BY DEF Live, Behind, ChatTypes
  <2> QED
    BY <1>1, <2>1, ReturnKeeps DEF Fail
<1>2. CASE pc \notin {"restored", "recover", "outside"}
  <2>1. capacity > 0 /\ capacity \in Nat
    BY <1>2, LimitAssumption DEF LimitAssumption, IInv, Types, TypeOK, RunnerTypeOK, Turn, Feeding
  <2>2. capacity' \in Nat
    BY LimitAssumption DEF LimitAssumption, RunnerTypeOK
  <2>3. capacity' > 0
    BY <2>1, <2>2
  <2> QED
    BY <1>2, <2>3, RestoreKeeps DEF Fail
<1> QED
  BY <1>1, <1>2

(* A call that begins makes room, or fails. *)
LEMMA CallMakesRoom ==
  ASSUME IInv, NEW required \in Nat, NEW tokens, NEW stage, StartCall(stage, tokens, required)
  PROVE  /\ RunnerTypeOK' /\ Sound' /\ revision' = revision + 1 /\ capacity' >= capacity
         /\ processed' = processed /\ invalid' = invalid /\ (~invalid => cache' = cache)
         /\ \/ Fail
            \/ /\ capacity' >= required /\ capacity' > 0 /\ pc' = stage /\ feed' = tokens
               /\ UNCHANGED <<prompt, plan, generated>>
<1>1. RunnerTypeOK /\ Sound
  BY DEF IInv, Types, TypeOK
<1>2. revision' = revision + 1 /\ revision' \in Nat
  BY <1>1 DEF StartCall, Bump, RunnerTypeOK
<1>3. PICK size \in Ensured(required) :
        /\ Grown(size)
        /\ IF size = 0 THEN Fail
           ELSE pc' = stage /\ feed' = tokens /\ UNCHANGED <<prompt, plan, generated>>
  BY DEF StartCall
<1>4. Room(size, required)
  BY <1>1, EnsuredRoom
<1>5. /\ RunnerTypeOK' /\ Sound' /\ invalid' = invalid /\ processed' = processed
      /\ ~invalid => cache' = cache
      /\ size # 0 => capacity' = size
      /\ capacity' >= capacity
  BY <1>1, <1>2, <1>3, <1>4, GrownKeeps
<1> QED
  BY <1>2, <1>3, <1>4, <1>5 DEF Room

LEMMA InitIsFine == Init => IInv
<1> SUFFICES ASSUME Init PROVE IInv
  OBVIOUS
<1>1. PICK l \in Loads : capacity = l.size /\ auto = l.auto
  BY DEF Init
<1>2. l \in [size : 1 .. ModelLimit, auto : BOOLEAN]
  BY ChatAssumption DEF ChatAssumption
<1>3. RunnerTypeOK
  <2>1. <<>> \in Seq(Token) /\ Len(<<>>) = 0
    OBVIOUS
  <2>2. l.size \in 0 .. ModelLimit /\ l.auto \in BOOLEAN
    BY <1>2, LimitAssumption DEF LimitAssumption
  <2>3. capacity \in 0 .. ModelLimit
    BY <1>1, <2>2
  <2>4. auto \in BOOLEAN
    BY <1>1, <2>2
  <2>5. cache = <<>> /\ processed = 0 /\ invalid = FALSE /\ revision = 1
    BY DEF Init
  <2>6. cache \in Seq(Token) /\ processed \in 0 .. Len(cache) /\ revision \in Nat
    BY <2>1, <2>5
  <2> QED
    BY <2>3, <2>4, <2>5, <2>6, Zenon DEF RunnerTypeOK
<1>4. Chat # {} /\ Budget # {}
  BY ChatAssumption DEF ChatAssumption
<1>5. who \in Chat /\ budget \in Budget
  BY <1>4 DEF Init
<1>6. <<>> \in Seq(Token) /\ <<>> \in Seq(Reply) /\ <<>> \in Seq(Seq(Token)) /\ Len(<<>>) = 0
  OBVIOUS
<1>7. ChatTypes
  BY <1>5, <1>6 DEF Init, ChatTypes
<1>8. turns[who] = <<>>
  BY <1>5 DEF Init
<1>9. plan \in [dropped : Nat, replay : Seq(Token)] /\ plan.dropped = 0
  BY <1>6 DEF Init, NoPlanYet
<1>10. Types
  BY <1>3, <1>6, <1>7, <1>8, <1>9 DEF Init, Types, TypeOK, ChatTypes, Turn, Feeding
<1>11. Sound /\ BehindInv /\ LiveInv /\ OwnInv /\ PlanInv /\ RoomInv
  BY <1>6 DEF Init, Sound, BehindInv, LiveInv, Live, OwnInv, PlanInv, RoomInv
<1>12. FeedInv /\ ReplyInv
  BY <1>6 DEF Init, FeedInv, ReplyInv, Feeding
<1> QED
  BY <1>10, <1>11, <1>12 DEF IInv

-------------------------------------------------------------------------------
(* One lemma for each action *)

(* What the assumptions say of the lengths. *)
LEMMA Sizes ==
  /\ \A c \in Chat : System[c] \in Seq(Token) /\ Len(System[c]) \in Nat
  /\ \A c \in Chat : \A p \in Prompt[c] : p \in Seq(Token) /\ Len(p) \in Nat
  /\ Closing \in Nat /\ Closing >= 1
  /\ ModelLimit \in Nat /\ ModelLimit >= 1
  /\ \A m \in Budget : m \in Int /\ (m # -1 => m >= 1)
<1>1. Newline \in Seq(Token)
  BY ChatAssumption DEF ChatAssumption
<1>2. Closing \in Nat /\ Closing >= 1
  BY <1>1 DEF Closing
<1>3. \A m \in Budget : m \in Int /\ (m # -1 => m >= 1)
  BY ChatAssumption DEF ChatAssumption
<1>4. ModelLimit \in Nat /\ ModelLimit >= 1
  BY LimitAssumption DEF LimitAssumption
<1>5. \A c \in Chat : \A p \in Prompt[c] : p \in Seq(Token) /\ Len(p) \in Nat
  BY ChatAssumption DEF ChatAssumption
<1>6. \A c \in Chat : System[c] \in Seq(Token) /\ Len(System[c]) \in Nat
  BY ChatAssumption DEF ChatAssumption
<1> QED
  BY <1>2, <1>3, <1>4, <1>5, <1>6

(* A plan that is valid keeps whole turns, and leaves room for the prompt, a *)
(* token of the answer and the closure.                                      *)
LEMMA PlanFits ==
  ASSUME turns \in [Chat -> Seq(Seq(Token))], NEW c \in Chat, NEW p \in Prompt[c], NEW m \in Budget,
         NEW size \in Nat, Accepts(c, p, size)
  PROVE  LET q == PlanTurn(c, p, m, size) IN
         /\ q \in [dropped : Nat, replay : Seq(Token)]
         /\ q.dropped <= Len(turns[c])
         /\ q.replay = Tokens(c, q.dropped + 1)
         /\ Len(q.replay) + Len(p) + Closing < size
<1>1. PICK available : available = Available(c, p, size)
  OBVIOUS
<1>2. available \in Nat /\ available >= 1 /\ available = size - Len(System[c]) - Len(p) - Closing
  <2>1. Len(System[c]) \in Nat /\ Len(p) \in Nat /\ Closing \in Nat
    BY Sizes
  <2>2. available = size - Len(System[c]) - Len(p) - Closing /\ available > 0
    BY <1>1 DEF Accepts, Available
  <2>3. size - Len(System[c]) - Len(p) - Closing \in Int
    BY <2>1
  <2> QED
    BY <2>2, <2>3
<1>3. PICK reserved : reserved = IF m = -1 THEN 1 ELSE Min({m, available})
  OBVIOUS
<1>4. reserved \in 1 .. available
  <2>1. CASE m = -1
    BY <2>1, <1>2, <1>3
  <2>2. CASE m # -1
    <3>1. m \in Nat /\ m >= 1
      BY <2>2, Sizes
    <3>2. Min({m, available}) = IF m <= available THEN m ELSE available
      BY <3>1, <1>2, MinOfTwo
    <3> QED
      BY <3>1, <3>2, <2>2, <1>2, <1>3
  <2> QED
    BY <2>1, <2>2
<1>5. PICK fits : fits = {d \in 0 .. Len(turns[c]) : Len(Tokens(c, d + 1)) - Len(System[c]) <= available - reserved}
  OBVIOUS
<1>6. turns[c] \in Seq(Seq(Token)) /\ Len(turns[c]) \in Nat
  OBVIOUS
<1>7. Len(turns[c]) \in fits
  <2>1. Tokens(c, Len(turns[c]) + 1) = System[c]
    BY TokensOfNone
  <2>2. Len(Tokens(c, Len(turns[c]) + 1)) - Len(System[c]) <= available - reserved
    BY <2>1, <1>2, <1>4, Sizes
  <2>3. Len(turns[c]) \in 0 .. Len(turns[c])
    BY <1>6
  <2> QED
    BY <2>2, <2>3, <1>5, Zenon
<1>8. Min(fits) \in fits
  <2>1. \A d \in fits : d \in 0 .. Len(turns[c])
    BY <1>5, Zenon
  <2>2. fits \in SUBSET Nat
    BY <1>6, <2>1
  <2> QED
    BY <1>7, <2>2, MinIsLeast
<1>9. PICK d : d = Min(fits)
  OBVIOUS
<1>10. d \in 0 .. Len(turns[c]) /\ Len(Tokens(c, d + 1)) - Len(System[c]) <= available - reserved
  BY <1>5, <1>8, <1>9
<1>11. d + 1 \in 1 .. Len(turns[c]) + 1
  BY <1>6, <1>10
<1>12. Tokens(c, d + 1) \in Seq(Token)
  BY <1>11, TokensType
<1>13. Len(Tokens(c, d + 1)) \in Nat
  BY <1>12
<1>14. Len(Tokens(c, d + 1)) + Len(p) + Closing < size
  BY <1>2, <1>4, <1>10, <1>13, Sizes
<1>15. PlanTurn(c, p, m, size) = [dropped |-> d, replay |-> Tokens(c, d + 1)]
  BY <1>1, <1>3, <1>5, <1>9 DEF PlanTurn
<1>16. d \in Nat
  BY <1>6, <1>10
<1> QED
  BY <1>6, <1>10, <1>12, <1>14, <1>15, <1>16

(* A runner with a plan is empty and valid after Reset. *)
LEMMA ResetKeeps ==
  ASSUME RunnerTypeOK, Sound, Reset, Bump(1)
  PROVE  /\ RunnerTypeOK' /\ Sound' /\ revision' = revision + 1 /\ capacity' = capacity
         /\ capacity > 0 => Good' /\ cache' = <<>>
<1>1. revision' = revision + 1 /\ revision' \in Nat /\ UNCHANGED <<capacity, auto>>
  BY DEF Reset, Bump, RunnerTypeOK
<1>2. CASE capacity > 0
  <2>1. cache' = <<>> /\ processed' = 0 /\ invalid' = FALSE
    BY <1>2 DEF Reset, Empty
  <2>2. cache' \in Seq(Token) /\ Len(cache') = 0
    BY <2>1
  <2>3. processed' \in 0 .. Len(cache')
    BY <2>1, <2>2
  <2>4. RunnerTypeOK'
    BY <1>1, <2>1, <2>2, <2>3 DEF RunnerTypeOK
  <2> QED
    BY <1>1, <2>1, <2>2, <2>4 DEF Sound, Good
<1>3. CASE ~(capacity > 0)
  <2>1. UNCHANGED <<cache, processed, invalid>>
    BY <1>3 DEF Reset
  <2> QED
    BY <1>1, <1>3, <2>1 DEF RunnerTypeOK, Sound
<1> QED
  BY <1>2, <1>3

LEMMA BeginKeeps ==
  ASSUME IInv, NEW c \in Chat, NEW m \in Budget, NEW p \in Prompt[c], BeginTurn(c, p, m)
  PROVE  IInv'
<1>1. /\ pc = "idle" /\ pc' = "reserve" /\ who' = c /\ prompt' = p /\ budget' = m /\ capacity > 0
      /\ needs' = [needs EXCEPT ![c] = Rebuilds(c)]
      /\ UNCHANGED <<turns, seen, plan, feed, generated>>
  BY DEF BeginTurn
<1>2. /\ RunnerTypeOK /\ Sound /\ ChatTypes /\ Live
      /\ plan = NoPlanYet /\ feed = <<>> /\ generated = <<>> /\ generated \in Seq(Reply)
      /\ feed \in Seq(Token)
  BY <1>1 DEF IInv, Types, TypeOK, ChatTypes, LiveInv, PlanInv, FeedInv, ReplyInv, Feeding
<1>3. /\ RunnerTypeOK' /\ Sound' /\ ChatTypes' /\ capacity' = capacity /\ Live' /\ Own'
  <2>1. CASE Rebuilds(c)
    <3>1. Reset /\ Bump(1)
      BY <2>1 DEF BeginTurn
    <3>2. RunnerTypeOK' /\ Sound' /\ revision' = revision + 1 /\ capacity' = capacity
      BY <1>2, <3>1, ResetKeeps
    <3>3. Good' /\ cache' = <<>>
      BY <1>1, <1>2, <3>1, ResetKeeps
    <3>4. ChatTypes' /\ needs'[c] = TRUE
      BY <1>1, <1>2, <2>1, <3>2 DEF ChatTypes, RunnerTypeOK
    <3>5. Live'
      BY <1>1, <1>2, <3>2 DEF Live, ChatTypes, RunnerTypeOK
    <3>6. Own'
      BY <1>1, <3>3, <3>4 DEF Own
    <3> QED
      BY <3>2, <3>4, <3>5, <3>6
  <2>2. CASE ~Rebuilds(c)
    <3>1. UNCHANGED runnerVars
      BY <2>2 DEF BeginTurn
    <3>2. needs' = needs /\ ~needs[c] /\ seen[c] = revision
      BY <1>1, <1>2, <2>2 DEF Rebuilds, ChatTypes
    <3>3. RunnerTypeOK' /\ Sound' /\ ChatTypes' /\ Live'
      BY <1>1, <1>2, <3>1, <3>2 DEF runnerVars, RunnerTypeOK, Sound, ChatTypes, Live, Good, ReplayTokens, Tokens
    <3>4. Good /\ cache = ReplayTokens(c)
      BY <1>2, <3>2 DEF Live
    <3>5. Own'
      BY <1>1, <3>1, <3>2, <3>4 DEF runnerVars, Own, Good, ReplayTokens, Tokens
    <3> QED
      BY <3>1, <3>3, <3>5 DEF runnerVars
  <2> QED
    BY <2>1, <2>2
<1>4. Types'
  <2>1. <<>> \in Seq(Token)
    OBVIOUS
  <2>2. plan' \in [dropped : Nat, replay : Seq(Token)] /\ plan'.dropped = 0
    BY <1>1, <1>2, <2>1 DEF NoPlanYet
  <2>3. Len(turns'[who']) \in Nat
    BY <1>3 DEF ChatTypes
  <2>4. prompt' \in Seq(Token)
    BY <1>1, Sizes
  <2> QED
    BY <1>1, <1>2, <1>3, <2>2, <2>3, <2>4 DEF ChatTypes, Types, TypeOK, Turn, Feeding
<1>5. BehindInv' /\ LiveInv' /\ OwnInv' /\ PlanInv' /\ RoomInv'
  BY <1>1, <1>2, <1>3 DEF BehindInv, LiveInv, OwnInv, PlanInv, RoomInv
<1>6. FeedInv'
  BY <1>1, <1>2 DEF FeedInv, Feeding
<1>7. ReplyInv'
  BY <1>1, <1>2 DEF ReplyInv
<1> QED
  BY <1>3, <1>4, <1>5, <1>6, <1>7 DEF IInv

PlanType == plan \in [dropped : Nat, replay : Seq(Token)] /\ plan.dropped <= Len(turns[who])
ArgTypes == prompt \in Seq(Token) /\ feed \in Seq(Token) /\ generated \in Seq(Reply)

LEMMA TypesMean ==
  ASSUME IInv
  PROVE  /\ RunnerTypeOK /\ Sound /\ ChatTypes /\ PlanType /\ ArgTypes
         /\ pc \in Turn \ {"outside"} => capacity > 0
         /\ revision \in Nat /\ capacity \in 0 .. ModelLimit /\ ModelLimit \in Nat
BY Sizes DEF IInv, Types, TypeOK, ChatTypes, PlanType, ArgTypes, RunnerTypeOK

LEMMA TypesFrom ==
  ASSUME RunnerTypeOK', ChatTypes', PlanType', ArgTypes', pc' \in Turn \cup {"idle"}, capacity' > 0
  PROVE  Types'
<1>1. Len(turns'[who']) \in Nat
  BY DEF ChatTypes
<1>2. plan'.dropped \in 0 .. Len(turns'[who'])
  BY <1>1 DEF PlanType
<1> QED
  BY <1>2 DEF Types, TypeOK, ChatTypes, PlanType, ArgTypes, Turn, Feeding

(* A growth that counts no call. *)
LEMMA QuietGrowth ==
  ASSUME IInv, NEW required \in Nat, NEW size, Room(size, required), Grown(size), Bump(0),
         UNCHANGED <<chatVars, who, budget>>
  PROVE  /\ RunnerTypeOK' /\ Sound' /\ ChatTypes' /\ revision' = revision /\ capacity' >= capacity
         /\ size # 0 => capacity' = size
         /\ processed' = processed /\ invalid' = invalid /\ (~invalid => cache' = cache)
         /\ (Live => Live') /\ (Own => Own')
<1>1. RunnerTypeOK /\ Sound /\ ChatTypes /\ revision \in Nat
  BY TypesMean
<1>2. revision' = revision /\ revision' \in Nat
  BY <1>1 DEF Bump
<1>3. /\ RunnerTypeOK' /\ Sound' /\ invalid' = invalid /\ processed' = processed
      /\ ~invalid => cache' = cache
      /\ size # 0 => capacity' = size
      /\ capacity' >= capacity
  BY <1>1, <1>2, GrownKeeps
<1>4. ChatTypes'
  BY <1>1, <1>2 DEF ChatTypes, chatVars
<1>5. Live => Live'
  BY <1>2, <1>3 DEF Live, Good, ReplayTokens, Tokens, chatVars
<1>6. Own => Own'
  BY <1>2, <1>3 DEF Own, Good, ReplayTokens, Tokens, chatVars
<1> QED
  BY <1>2, <1>3, <1>4, <1>5, <1>6

LEMMA HistoryTokens ==
  ASSUME ChatTypes, NEW c \in Chat
  PROVE  ReplayTokens(c) \in Seq(Token) /\ TokenCount(c) \in Nat
<1>1. turns[c] \in Seq(Seq(Token)) /\ Len(turns[c]) \in Nat
  BY DEF ChatTypes
<1>2. 1 \in 1 .. Len(turns[c]) + 1
  BY <1>1
<1>3. Tokens(c, 1) \in Seq(Token)
  BY <1>2, TokensType DEF ChatTypes
<1> QED
  BY <1>3 DEF ReplayTokens, TokenCount

LEMMA ReserveKeeps ==
  ASSUME IInv, Reserve
  PROVE  IInv'
<1>0. pc = "reserve" /\ UNCHANGED <<chatVars, who, budget>>
  BY DEF Reserve
<1>1. /\ RunnerTypeOK /\ ChatTypes /\ ArgTypes /\ PlanType /\ capacity > 0 /\ capacity \in Nat
      /\ Live /\ Own /\ prompt \in Prompt[who] /\ generated = <<>> /\ feed = <<>>
  BY <1>0, TypesMean DEF IInv, LiveInv, OwnInv, PlanInv, ReplyInv, FeedInv, Feeding, Turn
<1>2. PICK size \in IF auto THEN Reserved(Required) ELSE {capacity} :
        /\ Grown(size) /\ Bump(0)
        /\ IF size # 0 /\ Accepts(who, prompt, size)
           THEN /\ pc' = "rebuild" /\ plan' = PlanTurn(who, prompt, budget, size)
                /\ UNCHANGED <<prompt, feed, generated>>
           ELSE Return
  BY DEF Reserve
<1>3. \E required \in Nat : Room(size, required)
  <2>1. CASE auto
    <3>1. who \in Chat /\ budget \in Budget
      BY <1>1 DEF ChatTypes
    <3>2. /\ TokenCount(who) \in Nat /\ Len(prompt) \in Nat /\ Closing \in Nat /\ ModelLimit \in Nat
          /\ budget \in Int /\ (budget # -1 => budget >= 1)
      BY <1>1, <3>1, HistoryTokens, Sizes
    <3>3. PICK k \in Nat : k = TokenCount(who) + Len(prompt) + Closing + IF budget = -1 THEN 1 ELSE budget
      BY <3>2
    <3>4. Required \in Nat
      BY <3>2, <3>3, MinOfTwo DEF Required
    <3> QED
      BY <1>1, <1>2, <2>1, <3>4, ReservedRoom
  <2>2. CASE ~auto
    <3>1. Room(size, 0)
      BY <1>1, <1>2, <2>2 DEF Room, RunnerTypeOK
    <3> QED
      BY <3>1
  <2> QED
    BY <2>1, <2>2
<1>4. PICK required \in Nat : Room(size, required)
  BY <1>3
<1>5. /\ RunnerTypeOK' /\ Sound' /\ ChatTypes' /\ Live' /\ Own' /\ capacity' >= capacity
      /\ size # 0 => capacity' = size
  BY <1>0, <1>1, <1>2, <1>4, QuietGrowth
<1>6. CASE size # 0 /\ Accepts(who, prompt, size)
  <2>1. pc' = "rebuild" /\ plan' = PlanTurn(who, prompt, budget, size) /\ UNCHANGED <<prompt, feed, generated, turns, who>>
    BY <1>0, <1>2, <1>6 DEF chatVars
  <2>2. size \in Nat /\ size > 0 /\ capacity' = size
    BY <1>4, <1>5, <1>6, Sizes DEF Room
  <2>3. who \in Chat /\ budget \in Budget /\ turns \in [Chat -> Seq(Seq(Token))]
    BY <1>1 DEF ChatTypes
  <2>4. /\ plan' \in [dropped : Nat, replay : Seq(Token)]
        /\ plan'.dropped <= Len(turns[who])
        /\ plan'.replay = Tokens(who, plan'.dropped + 1)
        /\ Len(plan'.replay) + Len(prompt) + Closing < size
    BY <1>1, <1>6, <2>1, <2>2, <2>3, PlanFits
  <2>5. PlanType' /\ ArgTypes'
    BY <1>1, <2>1, <2>4 DEF PlanType, ArgTypes
  <2>6. Types'
    BY <1>5, <2>1, <2>2, <2>5, TypesFrom DEF Turn
  <2>7. Planned'
    BY <1>1, <2>1, <2>2, <2>4 DEF Planned, Tokens
  <2>8. BehindInv' /\ LiveInv' /\ OwnInv' /\ PlanInv' /\ RoomInv'
    BY <1>5, <2>1, <2>7 DEF BehindInv, LiveInv, OwnInv, PlanInv, RoomInv
  <2>9. FeedInv' /\ ReplyInv'
    BY <1>1, <2>1 DEF FeedInv, ReplyInv, Feeding, IInv
  <2> QED
    BY <1>5, <2>6, <2>8, <2>9 DEF IInv
<1>7. CASE ~(size # 0 /\ Accepts(who, prompt, size))
  BY <1>2, <1>5, <1>7, ReturnKeeps
<1> QED
  BY <1>6, <1>7

LEMMA ResetForReplayKeeps ==
  ASSUME IInv, ResetForReplay
  PROVE  IInv'
<1>1. /\ pc = "rebuild" /\ needs' = [needs EXCEPT ![who] = TRUE] /\ Reset /\ Bump(1)
      /\ UNCHANGED <<turns, seen, pc, who, prompt, budget, plan, feed, generated>>
  BY DEF ResetForReplay, turnVars
<1>2. /\ RunnerTypeOK /\ Sound /\ ChatTypes /\ ArgTypes /\ PlanType /\ capacity > 0 /\ revision \in Nat
      /\ Planned /\ generated = <<>> /\ feed = <<>> /\ ReplyInv
  BY <1>1, TypesMean DEF IInv, PlanInv, ReplyInv, FeedInv, Feeding, Turn
<1>3. RunnerTypeOK' /\ Sound' /\ revision' = revision + 1 /\ capacity' = capacity /\ Good' /\ cache' = <<>>
  BY <1>1, <1>2, ResetKeeps
<1>4. ChatTypes' /\ needs'[who'] = TRUE
  BY <1>1, <1>2, <1>3 DEF ChatTypes
<1>5. PlanType' /\ ArgTypes'
  BY <1>1, <1>2 DEF PlanType, ArgTypes
<1>6. Types'
  BY <1>1, <1>2, <1>3, <1>4, <1>5, TypesFrom DEF Turn
<1>7. Planned' /\ Own'
  BY <1>1, <1>2, <1>3, <1>4 DEF Planned, Own, Tokens
<1>8. BehindInv' /\ LiveInv' /\ OwnInv' /\ PlanInv' /\ RoomInv'
  BY <1>1, <1>7 DEF BehindInv, LiveInv, OwnInv, PlanInv, RoomInv
<1>9. FeedInv' /\ ReplyInv'
  BY <1>1, <1>2 DEF FeedInv, ReplyInv, Feeding
<1> QED
  BY <1>3, <1>6, <1>8, <1>9 DEF IInv

(* A stage follows whose invariants are those of its own place. *)
Rest == BehindInv /\ LiveInv /\ OwnInv /\ PlanInv /\ FeedInv /\ ReplyInv /\ RoomInv

LEMMA Assemble ==
  ASSUME Types', Sound', Rest'
  PROVE  IInv'
BY DEF IInv, Rest

(* A plan that leaves room in a context leaves it in a larger one. *)
LEMMA PlannedGrows ==
  ASSUME IInv, Planned, capacity' \in Nat, capacity' >= capacity, UNCHANGED <<prompt, plan, turns, who>>
  PROVE  Planned'
<1>1. prompt \in Seq(Token) /\ plan.replay \in Seq(Token) /\ capacity \in Nat /\ Closing \in Nat
  BY TypesMean, Sizes DEF ArgTypes, PlanType
<1>2. Len(prompt) \in Nat /\ Len(plan.replay) \in Nat
  BY <1>1
<1>3. Len(plan.replay) + Len(prompt) + Closing < capacity'
  BY <1>1, <1>2 DEF Planned
<1> QED
  BY <1>3 DEF Planned, Tokens

LEMMA StartReplayKeeps ==
  ASSUME IInv, StartReplay
  PROVE  IInv'
<1>1. /\ pc = "rebuild" /\ UNCHANGED <<turns, who, budget>>
      /\ needs[who] \/ (plan.dropped = 0 /\ processed = 0 /\ plan.replay # <<>>)
  BY DEF StartReplay
<1>2. /\ RunnerTypeOK /\ Sound /\ ChatTypes /\ ArgTypes /\ PlanType /\ capacity > 0 /\ revision \in Nat
      /\ Planned /\ Own /\ generated = <<>> /\ feed = <<>> /\ ReplyInv
      /\ capacity \in Nat
  BY <1>1, TypesMean DEF IInv, PlanInv, OwnInv, ReplyInv, FeedInv, Feeding, Turn
<1>3. Good /\ cache = <<>>
  <2>1. CASE needs[who]
    BY <1>2, <2>1 DEF Own
  <2>2. CASE processed = 0
    BY <1>2, <2>2, EmptySeq DEF Own, Good, RunnerTypeOK
  <2> QED
    BY <1>1, <2>1, <2>2
<1>4. plan.replay \in Seq(Token) /\ who \in Chat
  BY <1>2 DEF PlanType, ChatTypes
<1>5. CASE plan.replay = <<>>
  <2>1. UNCHANGED runnerVars /\ Trust /\ GoTo("generate")
    BY <1>5 DEF StartReplay
  <2>2. pc' = "generate" /\ feed' = <<>> /\ UNCHANGED <<prompt, plan, generated>>
    BY <2>1 DEF GoTo
  <2>3. UNCHANGED <<cache, processed, invalid, revision, capacity, auto>>
    BY <2>1 DEF runnerVars
  <2>4. RunnerTypeOK' /\ Sound' /\ Good'
    BY <1>2, <1>3, <2>3 DEF RunnerTypeOK, Sound, Good
  <2>5. ChatTypes'
    BY <1>1, <1>2, <2>1, <2>3 DEF ChatTypes, Trust
  <2>6. PlanType' /\ ArgTypes' /\ Planned'
    BY <1>1, <1>2, <2>2, <2>3 DEF PlanType, ArgTypes, Planned, Tokens
  <2>7. Types'
    BY <1>2, <2>2, <2>3, <2>4, <2>5, <2>6, TypesFrom DEF Turn
  <2>8. cache' \o feed' = plan'.replay
    BY <1>2, <1>3, <1>5, <2>2, <2>3, ConcatEmptySeq DEF ArgTypes
  <2>9. Rest'
    BY <1>2, <2>2, <2>4, <2>6, <2>8
       DEF Rest, BehindInv, LiveInv, OwnInv, PlanInv, FeedInv, Feeding, ReplyInv, RoomInv
  <2> QED
    BY <2>4, <2>7, <2>9, Assemble
<1>6. CASE plan.replay # <<>>
  <2>1. /\ needs' = [needs EXCEPT ![who] = TRUE] /\ UNCHANGED seen
        /\ StartCall("replay", plan.replay, processed + Len(plan.replay))
    BY <1>6 DEF StartReplay, Consume
  <2>2. processed + Len(plan.replay) \in Nat
    BY <1>2, <1>4 DEF RunnerTypeOK
  <2>3. /\ RunnerTypeOK' /\ Sound' /\ revision' = revision + 1 /\ capacity' >= capacity
        /\ processed' = processed /\ invalid' = invalid /\ (~invalid => cache' = cache)
        /\ \/ Fail
           \/ /\ capacity' > 0 /\ pc' = "replay" /\ feed' = plan.replay
              /\ UNCHANGED <<prompt, plan, generated>>
    BY <2>1, <2>2, CallMakesRoom
  <2>4. ChatTypes' /\ Behind'
    BY <1>1, <1>2, <2>1, <2>3 DEF ChatTypes, Behind
  <2>5. CASE Fail
    BY <1>1, <2>3, <2>4, <2>5, FailKeeps
  <2>6. CASE pc' = "replay" /\ feed' = plan.replay /\ UNCHANGED <<prompt, plan, generated>> /\ capacity' > 0
    <3>1. Good' /\ cache' = <<>>
      BY <1>3, <2>3 DEF Good
    <3>2. capacity' \in Nat
      BY <2>3, Sizes DEF RunnerTypeOK
    <3>3. PlanType' /\ ArgTypes'
      BY <1>1, <1>2, <1>4, <2>6 DEF PlanType, ArgTypes
    <3>4. Planned'
      BY <1>1, <1>2, <2>3, <2>6, <3>2, PlannedGrows
    <3>5. Types'
      BY <2>3, <2>4, <2>6, <3>3, TypesFrom DEF Turn, Feeding
    <3>6. cache' \o feed' = plan'.replay
      BY <1>4, <2>6, <3>1, ConcatEmptySeq
    <3>7. Rest'
      BY <1>2, <2>4, <2>6, <3>1, <3>4, <3>6
         DEF Rest, BehindInv, LiveInv, OwnInv, PlanInv, FeedInv, Feeding, ReplyInv, RoomInv
    <3> QED
      BY <2>3, <3>5, <3>7, Assemble
  <2> QED
    BY <2>3, <2>5, <2>6
<1> QED
  BY <1>5, <1>6

(* A step that changes nothing of the runner and goes to another stage. *)
LEMMA QuietStep ==
  ASSUME IInv, UNCHANGED <<runnerVars, turns, who, budget>>, NEW stage, GoTo(stage),
         stage \in {"generate", "decode", "close"}, pc \in Turn \ {"outside"}, ChatTypes'
  PROVE  /\ Types' /\ Sound' /\ ArgTypes' /\ pc' = stage /\ feed' = <<>>
         /\ UNCHANGED <<cache, processed, invalid, revision, capacity, auto, prompt, plan, generated>>
         /\ (Planned => Planned') /\ (Good => Good') /\ Closure' = Closure
<1>1. /\ RunnerTypeOK /\ Sound /\ ChatTypes /\ ArgTypes /\ PlanType /\ capacity > 0
  BY TypesMean
<1>2. /\ UNCHANGED <<cache, processed, invalid, revision, capacity, auto, prompt, plan, generated>>
      /\ pc' = stage /\ feed' = <<>>
  BY DEF runnerVars, GoTo
<1>3. <<>> \in Seq(Token)
  OBVIOUS
<1>4. PlanType' /\ ArgTypes'
  BY <1>1, <1>2, <1>3 DEF PlanType, ArgTypes
<1>5. RunnerTypeOK' /\ Sound' /\ (Good => Good')
  BY <1>1, <1>2 DEF RunnerTypeOK, Sound, Good
<1>6. Planned => Planned'
  BY <1>2 DEF Planned, Tokens
<1>7. Types'
  BY <1>1, <1>2, <1>4, <1>5, TypesFrom DEF Turn
<1>8. Closure' = Closure
  BY <1>2 DEF Closure, EndedWithStop
<1> QED
  BY <1>2, <1>4, <1>5, <1>6, <1>7, <1>8

LEMMA ContinueKeeps ==
  ASSUME IInv, Continue
  PROVE  IInv'
<1>1. /\ pc = "rebuild" /\ plan.dropped = 0 /\ ~needs[who]
      /\ GoTo("generate") /\ UNCHANGED <<runnerVars, turns, needs, seen, who, budget>>
  BY DEF Continue, chatVars, unchangedTurn
<1>2. /\ ChatTypes /\ Planned /\ Own /\ generated = <<>> /\ RunnerTypeOK
  BY <1>1, TypesMean DEF IInv, PlanInv, OwnInv, ReplyInv
<1>3. ChatTypes'
  BY <1>1, <1>2 DEF ChatTypes, runnerVars
<1>4. /\ Types' /\ Sound' /\ ArgTypes' /\ pc' = "generate" /\ feed' = <<>>
      /\ UNCHANGED <<cache, processed, invalid, revision, capacity, auto, prompt, plan, generated>>
      /\ (Planned => Planned') /\ (Good => Good')
  BY <1>1, <1>3, QuietStep DEF Turn
<1>5. Good /\ cache = plan.replay
  BY <1>1, <1>2 DEF Own, Planned, ReplayTokens
<1>6. cache' \o feed' = plan'.replay
  BY <1>2, <1>4, <1>5, ConcatEmptySeq DEF RunnerTypeOK
<1>7. Rest'
  BY <1>2, <1>4, <1>5, <1>6 DEF Rest, BehindInv, LiveInv, OwnInv, PlanInv, FeedInv, Feeding, ReplyInv, RoomInv, IInv
<1> QED
  BY <1>4, <1>7, Assemble

LEMMA StartGenerationKeeps ==
  ASSUME IInv, StartGeneration
  PROVE  IInv'
<1>1. /\ pc = "generate" /\ UNCHANGED <<turns, needs, seen, who, budget>>
      /\ StartCall("prompt", prompt, processed + Len(prompt) + Closing)
  BY DEF StartGeneration, chatVars
<1>2. /\ RunnerTypeOK /\ ChatTypes /\ ArgTypes /\ PlanType /\ capacity > 0 /\ capacity \in Nat /\ revision \in Nat
      /\ Planned /\ Good /\ generated = <<>> /\ feed = <<>> /\ cache \o feed = plan.replay /\ ReplyInv
  BY <1>1, TypesMean DEF IInv, PlanInv, ReplyInv, FeedInv, Feeding, Turn
<1>3. cache = plan.replay
  BY <1>2, ConcatEmptySeq DEF RunnerTypeOK
<1>4. processed + Len(prompt) + Closing \in Nat
  BY <1>2, Sizes DEF RunnerTypeOK, ArgTypes
<1>5. /\ RunnerTypeOK' /\ Sound' /\ revision' = revision + 1 /\ capacity' >= capacity
      /\ processed' = processed /\ invalid' = invalid /\ (~invalid => cache' = cache)
      /\ \/ Fail
         \/ /\ capacity' > 0 /\ pc' = "prompt" /\ feed' = prompt
            /\ UNCHANGED <<prompt, plan, generated>>
  BY <1>1, <1>4, CallMakesRoom
<1>6. ChatTypes' /\ Behind'
  BY <1>1, <1>2, <1>5 DEF ChatTypes, Behind
<1>7. CASE Fail
  BY <1>1, <1>5, <1>6, <1>7, FailKeeps
<1>8. CASE pc' = "prompt" /\ feed' = prompt /\ UNCHANGED <<prompt, plan, generated>> /\ capacity' > 0
  <2>1. Good' /\ cache' = plan.replay
    BY <1>2, <1>3, <1>5 DEF Good
  <2>2. capacity' \in Nat
    BY <1>5, Sizes DEF RunnerTypeOK
  <2>3. PlanType' /\ ArgTypes'
    BY <1>1, <1>2, <1>8 DEF PlanType, ArgTypes
  <2>4. Planned'
    BY <1>1, <1>2, <1>5, <1>8, <2>2, PlannedGrows
  <2>5. Types'
    BY <1>5, <1>6, <1>8, <2>3, TypesFrom DEF Turn, Feeding
  <2>6. cache' \o feed' = plan'.replay \o prompt'
    BY <1>8, <2>1
  <2>7. Rest'
    BY <1>2, <1>6, <1>8, <2>1, <2>4, <2>6
       DEF Rest, BehindInv, LiveInv, OwnInv, PlanInv, FeedInv, Feeding, ReplyInv, RoomInv
  <2> QED
    BY <1>5, <2>5, <2>7, Assemble
<1> QED
  BY <1>5, <1>7, <1>8

(* A step that failed, was refused or did not run leaves no valid state behind *)
(* that is not the one before it.                                              *)
LEMMA FailedStep ==
  ASSUME RunnerTypeOK, Sound, NEW tokens \in Seq(Token),
         StepFails(tokens) \/ StepRefused(tokens) \/ UNCHANGED runnerVars
  PROVE  RunnerTypeOK' /\ Sound' /\ UNCHANGED <<revision, capacity>>
<1>1. /\ UNCHANGED <<processed, revision, capacity, auto>>
      /\ cache' \in {cache, cache \o tokens}
      /\ invalid' = TRUE \/ (invalid' = invalid /\ cache' = cache)
  BY DEF StepFails, StepRefused, runnerVars
<1>2. cache \in Seq(Token) /\ processed \in 0 .. Len(cache) /\ invalid \in BOOLEAN
  BY DEF RunnerTypeOK
<1>3. cache \o tokens \in Seq(Token) /\ Len(cache \o tokens) = Len(cache) + Len(tokens)
  BY <1>2, ConcatProperties
<1>4. Len(cache) \in Nat /\ Len(tokens) \in Nat
  BY <1>2
<1>5. cache' \in Seq(Token) /\ processed' \in 0 .. Len(cache')
  <2>1. CASE cache' = cache
    BY <1>1, <1>2, <2>1
  <2>2. CASE cache' = cache \o tokens
    BY <1>1, <1>2, <1>3, <1>4, <2>2
  <2> QED
    BY <1>1, <2>1, <2>2
<1>6. invalid' \in BOOLEAN
  BY <1>1, <1>2
<1>7. RunnerTypeOK'
  BY <1>1, <1>5, <1>6 DEF RunnerTypeOK
<1> QED
  BY <1>1, <1>7 DEF Sound

LEMMA RunChunkKeeps ==
  ASSUME IInv, RunChunk
  PROVE  IInv'
<1>a. PICK n : n = Chunk(Len(feed))
  OBVIOUS
<1>b. PICK tokens : tokens = SubSeq(feed, 1, n)
  OBVIOUS
<1>c. PICK rest : rest = SubSeq(feed, n + 1, Len(feed))
  OBVIOUS
<1>1. /\ pc \in Feeding /\ feed # <<>> /\ UNCHANGED <<turns, needs, seen, who, budget>>
      /\ \/ /\ StepRuns(tokens)
            /\ feed' = SubSeq(feed, Len(tokens) + 1, Len(feed))
            /\ UNCHANGED <<pc, prompt, plan, generated>>
         \/ StepFails(tokens) /\ Fail
         \/ NoPlan(tokens) /\ Fail
         \/ StepRefused(tokens) /\ Fail
  BY <1>a, <1>b DEF RunChunk, chatVars
<1>2. /\ RunnerTypeOK /\ Sound /\ ChatTypes /\ ArgTypes /\ PlanType /\ revision \in Nat /\ capacity \in Nat
      /\ pc # "outside" => capacity > 0
  BY <1>1, TypesMean DEF Turn
<1>3. /\ tokens \in Seq(Token) /\ Len(tokens) = n /\ n \in 1 .. Len(feed)
      /\ rest \in Seq(Token) /\ tokens \o rest = feed
  BY <1>1, <1>2, <1>a, <1>b, <1>c, ChunkOfFeed DEF ArgTypes
<1>4. CASE StepRuns(tokens) /\ feed' = SubSeq(feed, Len(tokens) + 1, Len(feed)) /\ UNCHANGED <<pc, prompt, plan, generated>>
  <2>1. /\ ~invalid /\ cache' = cache \o tokens /\ processed' = processed + Len(tokens)
        /\ UNCHANGED <<invalid, revision, capacity, auto, pc, prompt, plan, generated>>
    BY <1>4 DEF StepRuns
  <2>2. feed' = rest
    BY <1>3, <1>4, <1>c
  <2>3. cache \in Seq(Token) /\ processed = Len(cache) /\ revision \in Nat
    BY <1>2, <2>1 DEF RunnerTypeOK, Sound
  <2>4. cache' \in Seq(Token) /\ Len(cache') = Len(cache) + Len(tokens) /\ Len(tokens) \in Nat /\ Len(cache) \in Nat
    <3>1. tokens \in Seq(Token) /\ cache \in Seq(Token)
      BY <1>3, <2>3
    <3>2. cache \o tokens \in Seq(Token) /\ Len(cache \o tokens) = Len(cache) + Len(tokens)
      BY <3>1, ConcatProperties
    <3>3. Len(cache) \in Nat /\ Len(tokens) \in Nat
      BY <3>1
    <3> QED
      BY <2>1, <3>2, <3>3
  <2>5. Good' /\ Good /\ Sound' /\ RunnerTypeOK'
    BY <1>2, <2>1, <2>3, <2>4 DEF Good, Sound, RunnerTypeOK
  <2>6. cache' \o feed' = cache \o feed
    <3>1. (cache \o tokens) \o rest = cache \o (tokens \o rest)
      <4>1. tokens \in Seq(Token) /\ rest \in Seq(Token) /\ cache \in Seq(Token)
        BY <1>3, <2>3
      <4>2. Regroups(cache, tokens, rest)
        BY <4>1, TokensAssociate
      <4> QED
        BY <4>2 DEF Regroups
    <3> QED
      BY <3>1, <1>3, <2>1, <2>2
  <2>7. ChatTypes' /\ PlanType' /\ ArgTypes' /\ (Behind => Behind') /\ (Planned => Planned') /\ Closure' = Closure
    BY <1>1, <1>2, <1>3, <2>1, <2>2
       DEF ChatTypes, PlanType, ArgTypes, Behind, Planned, Tokens, Closure, EndedWithStop
  <2>8. Types'
    BY <1>2, <2>1, <2>5, <2>7, <1>1
       DEF IInv, Types, TypeOK, ChatTypes, PlanType, ArgTypes
  <2>9. BehindInv' /\ LiveInv' /\ OwnInv' /\ PlanInv' /\ RoomInv'
    BY <1>1, <2>1, <2>7 DEF IInv, BehindInv, LiveInv, OwnInv, PlanInv, RoomInv, Feeding
  <2>10. ReplyInv'
    BY <2>1 DEF IInv, ReplyInv, EndedWithStop
  <2>11. FeedInv'
    BY <1>1, <2>1, <2>5, <2>6, <2>7 DEF IInv, FeedInv, Feeding, ReplayTokens, Tokens
  <2> QED
    BY <2>5, <2>8, <2>9, <2>10, <2>11 DEF IInv
<1>5. CASE (StepFails(tokens) \/ NoPlan(tokens) \/ StepRefused(tokens)) /\ Fail
  <2>1. RunnerTypeOK' /\ Sound' /\ UNCHANGED <<revision, capacity>>
    BY <1>2, <1>3, <1>5, FailedStep DEF NoPlan
  <2>2. Behind
    BY <1>1 DEF IInv, BehindInv, Feeding
  <2>3. ChatTypes' /\ Behind'
    BY <1>1, <1>2, <2>1, <2>2 DEF ChatTypes, Behind
  <2>4. capacity' >= capacity /\ pc # "idle"
    BY <1>1, <1>2, <2>1 DEF Feeding
  <2> QED
    BY <1>1, <1>5, <2>1, <2>3, <2>4, FailKeeps
<1> QED
  BY <1>1, <1>4, <1>5

LEMMA ReplayedKeeps ==
  ASSUME IInv, Replayed
  PROVE  IInv'
<1>1. /\ pc = "replay" /\ feed = <<>> /\ UNCHANGED <<runnerVars, turns, who, budget>> /\ Trust /\ GoTo("generate")
  BY DEF Replayed, unchangedTurn
<1>2. /\ ChatTypes /\ Planned /\ Good /\ generated = <<>> /\ RunnerTypeOK /\ ReplyInv
      /\ cache \o feed = plan.replay
  BY <1>1, TypesMean DEF IInv, PlanInv, FeedInv, ReplyInv
<1>3. ChatTypes'
  BY <1>1, <1>2 DEF ChatTypes, Trust, runnerVars, RunnerTypeOK
<1>4. /\ Types' /\ Sound' /\ ArgTypes' /\ pc' = "generate" /\ feed' = <<>>
      /\ UNCHANGED <<cache, processed, invalid, revision, capacity, auto, prompt, plan, generated>>
      /\ (Planned => Planned') /\ (Good => Good')
  BY <1>1, <1>3, QuietStep DEF Turn, Feeding
<1>5. Rest'
  BY <1>1, <1>2, <1>4 DEF Rest, BehindInv, LiveInv, OwnInv, PlanInv, FeedInv, Feeding, ReplyInv, RoomInv
<1> QED
  BY <1>4, <1>5, Assemble

LEMMA CancelPromptKeeps ==
  ASSUME IInv, CancelPrompt
  PROVE  IInv'
<1>1. pc = "prompt" /\ GoTo("restore") /\ UNCHANGED <<runnerVars, chatVars, who, budget>>
  BY DEF CancelPrompt
<1>2. RunnerTypeOK /\ Sound /\ ChatTypes /\ capacity > 0
  BY <1>1, TypesMean DEF Turn, Feeding
<1>3. RunnerTypeOK' /\ Sound' /\ ChatTypes' /\ capacity' > 0
  BY <1>1, <1>2 DEF RunnerTypeOK, Sound, ChatTypes, runnerVars, chatVars
<1> QED
  BY <1>1, <1>3, RestoreKeeps DEF chatVars

LEMMA PromptedKeeps ==
  ASSUME IInv, Prompted
  PROVE  IInv'
<1>1. /\ pc = "prompt" /\ feed = <<>> /\ GoTo("decode") /\ UNCHANGED <<runnerVars, turns, needs, seen, who, budget>>
  BY DEF Prompted, unchangedTurn, chatVars
<1>2. /\ ChatTypes /\ ArgTypes /\ PlanType /\ Planned /\ Good /\ Behind /\ generated = <<>> /\ RunnerTypeOK /\ ReplyInv
      /\ cache \o feed = plan.replay \o prompt
  BY <1>1, TypesMean DEF IInv, PlanInv, FeedInv, ReplyInv, BehindInv
<1>3. ChatTypes'
  BY <1>1, <1>2 DEF ChatTypes, runnerVars
<1>4. /\ Types' /\ Sound' /\ ArgTypes' /\ pc' = "decode" /\ feed' = <<>>
      /\ UNCHANGED <<cache, processed, invalid, revision, capacity, auto, prompt, plan, generated>>
      /\ (Planned => Planned') /\ (Good => Good')
  BY <1>1, <1>3, QuietStep DEF Turn, Feeding
<1>5. plan.replay \in Seq(Token) /\ prompt \in Seq(Token) /\ cache \in Seq(Token)
  BY <1>2 DEF PlanType, ArgTypes, RunnerTypeOK
<1>6. cache = plan.replay \o prompt /\ (plan.replay \o prompt) \o generated = plan.replay \o prompt
  BY <1>1, <1>2, <1>5, ConcatEmptySeq, ConcatProperties
<1>7. processed = Len(plan.replay) + Len(prompt)
  BY <1>2, <1>5, <1>6, ConcatProperties DEF Good
<1>8. RoomInv'
  <2>1. Len(plan.replay) \in Nat /\ Len(prompt) \in Nat /\ Closing \in Nat /\ capacity \in Nat
    BY <1>5, Sizes, TypesMean
  <2>2. processed + Closing < capacity
    BY <1>2, <1>7, <2>1 DEF Planned
  <2>3. processed' + Closing < capacity' /\ processed' + Closing <= capacity'
    BY <1>4, <1>7, <2>1, <2>2
  <2> QED
    BY <1>4, <2>3 DEF RoomInv, Closing
<1>9. Behind' /\ ~EndedWithStop'
  BY <1>1, <1>2, <1>4 DEF Behind, EndedWithStop
<1>10. Rest'
  BY <1>2, <1>4, <1>6, <1>8, <1>9 DEF Rest, BehindInv, LiveInv, OwnInv, PlanInv, FeedInv, Feeding, ReplyInv
<1> QED
  BY <1>4, <1>10, Assemble

(* The closure takes what was reserved for it, and one less after a stop. *)
LEMMA ClosureFits ==
  /\ Closure \in Seq(Token) /\ Len(Closure) \in Nat /\ Len(Closure) <= Closing
  /\ EndedWithStop => Len(Closure) + 1 = Closing
<1>1. Newline \in Seq(Token) /\ <<EndOfTurn>> \in Seq(Token) /\ Len(<<EndOfTurn>>) = 1
  BY ChatAssumption DEF ChatAssumption
<1>2. <<EndOfTurn>> \o Newline \in Seq(Token) /\ Len(<<EndOfTurn>> \o Newline) = 1 + Len(Newline)
  BY <1>1, ConcatProperties
<1>3. Len(Newline) \in Nat
  BY <1>1
<1>4. CASE EndedWithStop
  BY <1>1, <1>3, <1>4 DEF Closure, Closing
<1>5. CASE ~EndedWithStop
  BY <1>2, <1>3, <1>5 DEF Closure, Closing
<1> QED
  BY <1>4, <1>5

(* The loop ends with room for the closure. *)
LEMMA LoopEnds ==
  ASSUME IInv, pc = "decode", GoTo("close"), UNCHANGED <<runnerVars, chatVars, who, budget>>
  PROVE  IInv'
<1>1. UNCHANGED <<runnerVars, turns, needs, seen, who, budget>>
  BY DEF chatVars
<1>2. /\ ChatTypes /\ Planned /\ Good /\ Behind /\ RunnerTypeOK /\ ReplyInv
      /\ capacity \in Nat /\ processed + Closing <= capacity
      /\ cache = plan.replay \o prompt \o generated
  BY TypesMean DEF IInv, PlanInv, FeedInv, ReplyInv, BehindInv, RoomInv
<1>3. ChatTypes'
  BY <1>1, <1>2 DEF ChatTypes, runnerVars
<1>4. /\ Types' /\ Sound' /\ ArgTypes' /\ pc' = "close" /\ feed' = <<>>
      /\ UNCHANGED <<cache, processed, invalid, revision, capacity, auto, prompt, plan, generated>>
      /\ (Planned => Planned') /\ (Good => Good') /\ Closure' = Closure
  BY <1>1, <1>3, QuietStep DEF Turn, Feeding
<1>5. processed \in Nat
  BY <1>2 DEF RunnerTypeOK
<1>6. processed + Len(Closure) <= capacity
  BY <1>2, <1>5, ClosureFits, Sizes
<1>7. RoomInv'
  BY <1>4, <1>6 DEF RoomInv
<1>8. Behind'
  BY <1>1, <1>2, <1>4 DEF Behind
<1>9. Rest'
  BY <1>2, <1>4, <1>7, <1>8 DEF Rest, BehindInv, LiveInv, OwnInv, PlanInv, FeedInv, Feeding, ReplyInv
<1> QED
  BY <1>4, <1>9, Assemble

LEMMA CheckRoomKeeps ==
  ASSUME IInv, CheckRoom
  PROVE  IInv'
<1>1. pc = "decode" /\ UNCHANGED <<chatVars, who, budget>> /\ UNCHANGED <<turns, needs, seen>>
  BY DEF CheckRoom, chatVars
<1>2. /\ RunnerTypeOK /\ ChatTypes /\ ArgTypes /\ PlanType /\ Planned /\ Good /\ Behind /\ ReplyInv /\ ~EndedWithStop
      /\ capacity \in Nat /\ capacity > 0 /\ processed \in Nat /\ feed = <<>>
      /\ cache = plan.replay \o prompt \o generated
  BY <1>1, TypesMean DEF IInv, PlanInv, FeedInv, ReplyInv, BehindInv, RoomInv, RunnerTypeOK, Feeding, Turn
<1>3. PICK size \in IF Full(capacity) /\ auto /\ capacity < ModelLimit THEN Ensured(processed + Closing + 1) ELSE {capacity} :
        /\ Grown(size) /\ Bump(0)
        /\ IF size = 0 THEN Fail ELSE GoTo(IF Full(size) THEN "close" ELSE "token")
  BY DEF CheckRoom
<1>4. \E required \in Nat : Room(size, required)
  <2>1. CASE size \in Ensured(processed + Closing + 1)
    <3>1. processed + Closing + 1 \in Nat
      BY <1>2, Sizes
    <3> QED
      BY <1>2, <2>1, <3>1, EnsuredRoom
  <2>2. CASE size = capacity
    <3>1. Room(size, 0)
      BY <1>2, <2>2 DEF Room, RunnerTypeOK
    <3> QED
      BY <3>1
  <2> QED
    BY <1>3, <2>1, <2>2
<1>5. PICK required \in Nat : Room(size, required)
  BY <1>4
<1>6. /\ RunnerTypeOK' /\ Sound' /\ ChatTypes' /\ revision' = revision /\ capacity' >= capacity
      /\ size # 0 => capacity' = size
      /\ processed' = processed /\ invalid' = invalid /\ (~invalid => cache' = cache)
  BY <1>1, <1>3, <1>5, QuietGrowth
<1>7. Behind'
  BY <1>1, <1>2, <1>6 DEF Behind
<1>8. CASE size = 0
  <2>1. Fail
    BY <1>3, <1>8
  <2> QED
    BY <1>1, <1>6, <1>7, <2>1, FailKeeps
<1>9. CASE size # 0
  <2>1. PICK stage \in {"close", "token"} : GoTo(stage) /\ (stage = "token" <=> ~Full(size))
    BY <1>3, <1>9
  <2>2. pc' = stage /\ feed' = <<>> /\ UNCHANGED <<prompt, plan, generated>>
    BY <2>1 DEF GoTo
  <2>3. capacity' \in Nat /\ capacity' > 0 /\ capacity' = size
    BY <1>2, <1>6, <1>9, Sizes DEF RunnerTypeOK
  <2>4. PlanType' /\ ArgTypes'
    BY <1>1, <1>2, <2>2 DEF PlanType, ArgTypes
  <2>5. Types'
    BY <1>6, <2>1, <2>2, <2>3, <2>4, TypesFrom DEF Turn
  <2>6. Planned'
    BY <1>1, <1>2, <1>6, <2>2, <2>3, PlannedGrows
  <2>7. Good' /\ cache' = plan'.replay \o prompt' \o generated'
    BY <1>2, <1>6, <2>2 DEF Good
  <2>8. Closure' = Closure /\ (EndedWithStop' <=> EndedWithStop)
    BY <2>2 DEF Closure, EndedWithStop
  <2>9. RoomInv'
    <3>1. stage = "token" => processed + Closing < size
      BY <1>2, <2>1, <2>3, Sizes DEF Full
    <3>2. processed + Closing <= capacity
      BY <1>1 DEF IInv, RoomInv
    <3>3. processed + Len(Closure) <= size
      BY <1>2, <1>6, <2>3, <3>2, ClosureFits, Sizes
    <3> QED
      BY <1>6, <2>1, <2>2, <2>3, <2>8, <3>1, <3>3 DEF RoomInv, Closing
  <2>10. Rest'
    BY <1>2, <1>7, <2>1, <2>2, <2>6, <2>7, <2>8, <2>9
       DEF Rest, BehindInv, LiveInv, OwnInv, PlanInv, FeedInv, Feeding, ReplyInv
  <2> QED
    BY <1>6, <2>5, <2>10, Assemble
<1> QED
  BY <1>8, <1>9

(* An answer goes on by a token that does not follow a stop. *)
LEMMA ReplyGrows ==
  ASSUME generated \in Seq(Reply), ReplyInv, ~EndedWithStop, NEW t \in Reply, generated' = Append(generated, t)
  PROVE  /\ generated' \in Seq(Reply) /\ generated' # <<>> /\ (EndedWithStop' <=> t \in Stop)
         /\ \A k \in 1 .. Len(generated') : generated'[k] \in Stop => k = Len(generated')
<1>1. /\ generated' \in Seq(Reply) /\ generated' # <<>> /\ Len(generated') = Len(generated) + 1
      /\ \A k \in 1 .. Len(generated) : generated'[k] = generated[k]
      /\ generated'[Len(generated) + 1] = t
  BY AppendProperties
<1>2. Len(generated) \in Nat
  OBVIOUS
<1>3. EndedWithStop' <=> t \in Stop
  BY <1>1 DEF EndedWithStop, Last
<1>4. ASSUME NEW k \in 1 .. Len(generated'), generated'[k] \in Stop PROVE k = Len(generated')
  <2> SUFFICES ASSUME k # Len(generated') PROVE FALSE
    OBVIOUS
  <2>1. k \in 1 .. Len(generated) /\ generated[k] \in Stop
    BY <1>1, <1>2, <1>4
  <2>2. k = Len(generated) /\ generated # <<>>
    BY <2>1 DEF ReplyInv
  <2> QED
    BY <2>1, <2>2 DEF EndedWithStop, Last
<1> QED
  BY <1>1, <1>3, <1>4

LEMMA EmitKeeps ==
  ASSUME IInv, NEW t \in Reply, EmitToken(t)
  PROVE  IInv'
<1>1. /\ pc = "token" /\ UNCHANGED <<turns, needs, seen, who, budget>>
      /\ \/ /\ StepRuns(<<t>>) /\ generated' = Append(generated, t)
            /\ pc' = (IF t \in Stop THEN "close" ELSE "decode")
            /\ UNCHANGED <<feed, prompt, plan>>
         \/ StepFails(<<t>>) /\ Fail
         \/ UNCHANGED runnerVars /\ Fail
  BY DEF EmitToken, chatVars
<1>2. /\ RunnerTypeOK /\ Sound /\ ChatTypes /\ ArgTypes /\ PlanType /\ Planned /\ Good /\ Behind
      /\ ReplyInv /\ ~EndedWithStop /\ feed = <<>>
      /\ capacity \in Nat /\ capacity > 0 /\ processed \in Nat /\ processed + Closing < capacity
      /\ cache = plan.replay \o prompt \o generated /\ revision \in Nat
  BY <1>1, TypesMean DEF IInv, PlanInv, FeedInv, ReplyInv, BehindInv, RoomInv, RunnerTypeOK, Feeding, Turn
<1>3. <<t>> \in Seq(Token) /\ Len(<<t>>) = 1
  BY ChatAssumption DEF ChatAssumption
<1>4. cache \o <<t>> \in Seq(Token) /\ Len(cache \o <<t>>) = Len(cache) + 1 /\ Len(cache) \in Nat
  BY <1>2, <1>3, ConcatProperties DEF RunnerTypeOK
<1>5. CASE StepRuns(<<t>>) /\ generated' = Append(generated, t) /\ pc' = (IF t \in Stop THEN "close" ELSE "decode")
           /\ UNCHANGED <<feed, prompt, plan>>
  <2>1. /\ cache' = cache \o <<t>> /\ processed' = processed + 1
        /\ UNCHANGED <<invalid, revision, capacity, auto>>
    BY <1>3, <1>5 DEF StepRuns
  <2>2. Good' /\ RunnerTypeOK' /\ Sound'
    BY <1>2, <1>4, <2>1 DEF Good, RunnerTypeOK, Sound
  <2>3. ChatTypes' /\ Behind' /\ Planned' /\ PlanType'
    BY <1>1, <1>2, <1>5, <2>1 DEF ChatTypes, Behind, Planned, PlanType, Tokens
  <2>4. /\ generated' \in Seq(Reply) /\ generated' # <<>> /\ (EndedWithStop' <=> t \in Stop)
        /\ \A k \in 1 .. Len(generated') : generated'[k] \in Stop => k = Len(generated')
    BY <1>2, <1>5, ReplyGrows DEF ArgTypes
  <2>5. ArgTypes'
    BY <1>2, <1>5, <2>4 DEF ArgTypes
  <2>6. Types'
    BY <1>2, <1>5, <2>1, <2>2, <2>3, <2>5, TypesFrom DEF Turn
  <2>7. cache' = plan'.replay \o prompt' \o generated'
    <3>1. generated \in Seq(Token) /\ plan.replay \in Seq(Token) /\ prompt \in Seq(Token)
      BY <1>2, ChatAssumption, SeqMonotonic DEF ArgTypes, PlanType, ChatAssumption
    <3>2. generated' = generated \o <<t>>
      BY <1>2, <1>5, AppendIsConcat DEF ArgTypes
    <3>3. PICK head : head = plan.replay \o prompt
      OBVIOUS
    <3>4. head \in Seq(Token)
      BY <3>1, <3>3, ConcatProperties
    <3>5. <<t>> \in Seq(Token)
      BY <1>3
    <3>6. Regroups(head, generated, <<t>>)
      BY <3>1, <3>4, <3>5, TokensAssociate
    <3>7. (head \o generated) \o <<t>> = head \o (generated \o <<t>>)
      BY <3>6 DEF Regroups
    <3> QED
      BY <1>2, <1>5, <2>1, <3>2, <3>3, <3>7
  <2>8. RoomInv'
    <3>1. processed' + Closing <= capacity' /\ processed' \in Nat
      BY <1>2, <2>1, Sizes
    <3>2. t \in Stop => Len(Closure') = Len(Newline) /\ Len(Newline) \in Nat
      BY <2>4, ChatAssumption DEF Closure, ChatAssumption
    <3>3. t \in Stop => processed' + Len(Closure') <= capacity'
      BY <1>2, <2>1, <3>1, <3>2 DEF Closing
    <3> QED
      BY <1>5, <2>4, <3>1, <3>3 DEF RoomInv, Closing
  <2>9. ReplyInv'
    BY <1>5, <2>4 DEF ReplyInv
  <2>10. Rest'
    BY <1>2, <1>5, <2>2, <2>3, <2>7, <2>8, <2>9
       DEF Rest, BehindInv, LiveInv, OwnInv, PlanInv, FeedInv, Feeding
  <2> QED
    BY <2>2, <2>6, <2>10, Assemble
<1>6. CASE (StepFails(<<t>>) \/ UNCHANGED runnerVars) /\ Fail
  <2>1. RunnerTypeOK' /\ Sound' /\ UNCHANGED <<revision, capacity>>
    BY <1>2, <1>3, <1>6, FailedStep
  <2>2. ChatTypes' /\ Behind' /\ capacity' >= capacity
    BY <1>1, <1>2, <2>1 DEF ChatTypes, Behind
  <2> QED
    BY <1>1, <1>6, <2>1, <2>2, FailKeeps
<1> QED
  BY <1>1, <1>5, <1>6

LEMMA CloseTurnKeeps ==
  ASSUME IInv, CloseTurn
  PROVE  IInv'
<1>1. /\ pc = "close" /\ UNCHANGED <<turns, needs, seen, who, budget>>
      /\ StartCall("closure", Closure, processed + Len(Closure))
  BY DEF CloseTurn, Consume, chatVars
<1>2. /\ RunnerTypeOK /\ ChatTypes /\ ArgTypes /\ PlanType /\ capacity > 0 /\ capacity \in Nat /\ revision \in Nat
      /\ Planned /\ Good /\ feed = <<>> /\ cache = plan.replay \o prompt \o generated /\ ReplyInv
  <2>1. pc \in Turn \ {"outside"}
    BY <1>1 DEF Turn
  <2>2. RunnerTypeOK /\ ChatTypes /\ ArgTypes /\ PlanType /\ capacity > 0 /\ capacity \in Nat /\ revision \in Nat
    BY <2>1, TypesMean
  <2>3. PlanInv /\ ReplyInv /\ FeedInv
    BY DEF IInv
  <2>4. Planned
    BY <1>1, <2>3 DEF PlanInv
  <2>5. Good /\ feed = <<>> /\ cache = plan.replay \o prompt \o generated
    BY <1>1, <2>3 DEF FeedInv, Feeding
  <2> QED
    BY <2>2, <2>3, <2>4, <2>5
<1>3. processed + Len(Closure) \in Nat
  BY <1>2, ClosureFits DEF RunnerTypeOK
<1>4. /\ RunnerTypeOK' /\ Sound' /\ revision' = revision + 1 /\ capacity' >= capacity
      /\ processed' = processed /\ invalid' = invalid /\ (~invalid => cache' = cache)
      /\ \/ Fail
         \/ /\ capacity' > 0 /\ pc' = "closure" /\ feed' = Closure
            /\ UNCHANGED <<prompt, plan, generated>>
  BY <1>1, <1>3, CallMakesRoom
<1>5. ChatTypes' /\ Behind'
  BY <1>1, <1>2, <1>4 DEF ChatTypes, Behind
<1>6. CASE Fail
  BY <1>1, <1>4, <1>5, <1>6, FailKeeps
<1>7. CASE pc' = "closure" /\ feed' = Closure /\ UNCHANGED <<prompt, plan, generated>> /\ capacity' > 0
  <2>1. Good' /\ cache' = plan.replay \o prompt \o generated
    BY <1>2, <1>4 DEF Good
  <2>2. capacity' \in Nat
    BY <1>4, Sizes DEF RunnerTypeOK
  <2>3. PlanType' /\ ArgTypes'
    BY <1>1, <1>2, <1>7, ClosureFits DEF PlanType, ArgTypes
  <2>4. Planned'
    BY <1>1, <1>2, <1>4, <1>7, <2>2, PlannedGrows
  <2>5. Types'
    BY <1>4, <1>5, <1>7, <2>3, TypesFrom DEF Turn, Feeding
  <2>6. Closure' = Closure /\ (EndedWithStop' <=> EndedWithStop)
    BY <1>7 DEF Closure, EndedWithStop
  <2>7. cache' \o feed' = plan'.replay \o prompt' \o generated' \o Closure'
    BY <1>7, <2>1, <2>6
  <2>8. Rest'
    BY <1>2, <1>5, <1>7, <2>1, <2>4, <2>6, <2>7
       DEF Rest, BehindInv, LiveInv, OwnInv, PlanInv, FeedInv, Feeding, ReplyInv, RoomInv
  <2> QED
    BY <1>4, <2>5, <2>8, Assemble
<1> QED
  BY <1>4, <1>6, <1>7

(* The turn that is added, and the history it is added to. *)
LEMMA CommitHistory ==
  ASSUME IInv, Commit
  PROVE  LET kept == SubSeq(turns[who], plan.dropped + 1, Len(turns[who]))
             turn == prompt \o generated \o Closure
         IN /\ kept \in Seq(Seq(Token)) /\ turn \in Seq(Token)
            /\ turns' = [turns EXCEPT ![who] = Append(kept, turn)]
            /\ turns'[who] = Append(kept, turn)
            /\ turns' \in [Chat -> Seq(Seq(Token))]
            /\ ReplayTokens(who)' = cache
<1>1. /\ pc = "closure" /\ feed = <<>> /\ who' = who
  BY DEF Commit, unchangedTurn
<1>2. /\ ChatTypes /\ PlanType /\ ArgTypes /\ RunnerTypeOK /\ Planned
      /\ cache \o feed = plan.replay \o prompt \o generated \o Closure
  BY <1>1, TypesMean DEF IInv, PlanInv, FeedInv
<1>3. PICK kept : kept = SubSeq(turns[who], plan.dropped + 1, Len(turns[who]))
  OBVIOUS
<1>4. PICK turn : turn = prompt \o generated \o Closure
  OBVIOUS
<1>5. who \in Chat /\ turns \in [Chat -> Seq(Seq(Token))] /\ turns[who] \in Seq(Seq(Token))
  BY <1>2 DEF ChatTypes
<1>6. Len(turns[who]) \in Nat /\ plan.dropped \in 0 .. Len(turns[who])
  BY <1>2, <1>5 DEF PlanType
<1>7. kept \in Seq(Seq(Token))
  <2>1. \A i \in plan.dropped + 1 .. Len(turns[who]) : turns[who][i] \in Seq(Token)
    BY <1>5, <1>6, ElementOfSeq
  <2> QED
    BY <1>3, <1>6, <2>1, SubSeqProperties
<1>8. /\ generated \in Seq(Token) /\ prompt \in Seq(Token) /\ plan.replay \in Seq(Token) /\ Closure \in Seq(Token)
      /\ cache \in Seq(Token)
  BY <1>2, ChatAssumption, SeqMonotonic, ClosureFits DEF ArgTypes, PlanType, RunnerTypeOK, ChatAssumption
<1>9. PICK answer : answer = prompt \o generated
  OBVIOUS
<1>10. answer \in Seq(Token) /\ turn = answer \o Closure /\ turn \in Seq(Token)
  BY <1>4, <1>8, <1>9, ConcatProperties
<1>11. turns' = [turns EXCEPT ![who] = Append(kept, turn)]
  BY <1>3, <1>4 DEF Commit
<1>12. Append(kept, turn) \in Seq(Seq(Token))
  BY <1>7, <1>10, AppendProperties
<1>13. turns'[who] = Append(kept, turn) /\ turns' \in [Chat -> Seq(Seq(Token))]
  BY <1>5, <1>11, <1>12
<1>14. System[who] \in Seq(Token) /\ FlattenSeq(kept) \in Seq(Token)
  BY <1>5, <1>7, FlattenType, Sizes
<1>15. plan.replay = System[who] \o FlattenSeq(kept)
  BY <1>2, <1>3 DEF Planned, Tokens
<1>16. cache = plan.replay \o turn
  <2>1. cache = plan.replay \o prompt \o generated \o Closure
    <3>1. cache \o feed = cache
      BY <1>1, <1>8, ConcatEmptySeq
    <3> QED
      BY <1>2, <3>1
  <2>2. PICK r \in Seq(Token), p \in Seq(Token), g \in Seq(Token), z \in Seq(Token) :
          r = plan.replay /\ p = prompt /\ g = generated /\ z = Closure
    BY <1>8
  <2>3. answer = p \o g /\ turn = answer \o z /\ answer \in Seq(Token)
    BY <1>9, <1>10, <2>2
  <2>4. Regroups(r, p, g) /\ Regroups(r, answer, z)
    BY <2>3, TokensAssociate
  <2>5. cache = ((r \o p) \o g) \o z
    BY <2>1, <2>2
  <2>6. (r \o p) \o g = r \o answer
    BY <2>3, <2>4 DEF Regroups
  <2>7. (r \o answer) \o z = r \o turn
    BY <2>3, <2>4 DEF Regroups
  <2> QED
    BY <2>2, <2>5, <2>6, <2>7
<1>17. ReplayTokens(who)' = System[who] \o (FlattenSeq(kept) \o turn)
  <2>1. SubSeq(turns'[who], 1, Len(turns'[who])) = Append(kept, turn)
    BY <1>12, <1>13, SubSeqFull
  <2>2. FlattenSeq(Append(kept, turn)) = FlattenSeq(kept) \o turn
    BY <1>7, <1>10, FlattenAppend
  <2> QED
    BY <1>1, <2>1, <2>2 DEF ReplayTokens, Tokens
<1>18. System[who] \o (FlattenSeq(kept) \o turn) = (System[who] \o FlattenSeq(kept)) \o turn
  <2>1. Regroups(System[who], FlattenSeq(kept), turn)
    BY <1>10, <1>14, TokensAssociate
  <2> QED
    BY <2>1 DEF Regroups
<1>19. ReplayTokens(who)' = cache
  BY <1>15, <1>16, <1>17, <1>18
<1> QED
  BY <1>3, <1>4, <1>7, <1>10, <1>11, <1>13, <1>19

LEMMA CommitKeeps ==
  ASSUME IInv, Commit
  PROVE  IInv'
<1>1. /\ pc = "closure" /\ seen' = [seen EXCEPT ![who] = revision] /\ Return
      /\ UNCHANGED <<runnerVars, needs, who, budget>>
  BY DEF Commit, unchangedTurn
<1>2. /\ RunnerTypeOK /\ Sound /\ ChatTypes /\ Good /\ Behind
  BY <1>1, TypesMean DEF IInv, FeedInv, BehindInv
<1>3. turns' \in [Chat -> Seq(Seq(Token))] /\ ReplayTokens(who)' = cache
  BY CommitHistory
<1>4. UNCHANGED <<cache, processed, invalid, revision, capacity, auto>>
  BY <1>1 DEF runnerVars
<1>5. RunnerTypeOK' /\ Sound' /\ Good'
  BY <1>2, <1>4 DEF RunnerTypeOK, Sound, Good
<1>6. ChatTypes'
  BY <1>1, <1>2, <1>3, <1>4 DEF ChatTypes, RunnerTypeOK
<1>7. Live'
  <2>1. ASSUME NEW c \in Chat, ~needs'[c], seen'[c] = revision' PROVE Good' /\ cache' = ReplayTokens(c)'
    <3>1. c = who
      BY <1>1, <1>2, <1>4, <2>1 DEF Behind, ChatTypes, RunnerTypeOK
    <3>2. ReplayTokens(c)' = ReplayTokens(who)'
      BY <1>1, <3>1 DEF ReplayTokens, Tokens
    <3> QED
      BY <1>3, <1>4, <1>5, <3>2
  <2> QED
    BY <2>1 DEF Live
<1> QED
  BY <1>1, <1>5, <1>6, <1>7, ReturnKeeps

LEMMA RestoreStepKeeps ==
  ASSUME IInv, Restore
  PROVE  IInv'
<1>1. /\ pc = "restore" /\ needs' = [needs EXCEPT ![who] = TRUE] /\ Reset /\ Bump(1)
      /\ pc' = "restored" /\ feed' = <<>> /\ UNCHANGED <<prompt, plan, generated, turns, seen, who, budget>>
  BY DEF Restore, GoTo, unchangedTurn
<1>2. /\ RunnerTypeOK /\ Sound /\ ChatTypes /\ ArgTypes /\ PlanType /\ capacity > 0 /\ revision \in Nat /\ ReplyInv
  BY <1>1, TypesMean DEF IInv, Turn
<1>3. RunnerTypeOK' /\ Sound' /\ revision' = revision + 1 /\ capacity' = capacity /\ Good' /\ cache' = <<>>
  BY <1>1, <1>2, ResetKeeps
<1>4. ChatTypes' /\ Behind'
  BY <1>1, <1>2, <1>3 DEF ChatTypes, Behind
<1>5. <<>> \in Seq(Token)
  OBVIOUS
<1>6. PlanType' /\ ArgTypes'
  BY <1>1, <1>2, <1>5 DEF PlanType, ArgTypes
<1>7. Types'
  BY <1>1, <1>2, <1>3, <1>4, <1>6, TypesFrom DEF Turn
<1>8. Rest'
  BY <1>1, <1>2, <1>3, <1>4 DEF Rest, BehindInv, LiveInv, OwnInv, PlanInv, FeedInv, Feeding, ReplyInv, RoomInv
<1> QED
  BY <1>3, <1>7, <1>8, Assemble

(* A chat trusts the live state that holds its history. *)
LEMMA TrustKeeps ==
  ASSUME IInv, Good, Behind, cache = ReplayTokens(who), UNCHANGED <<runnerVars, turns, who, budget>>, Trust, Return
  PROVE  IInv'
<1>1. /\ RunnerTypeOK /\ Sound /\ ChatTypes
  BY TypesMean
<1>2. UNCHANGED <<cache, processed, invalid, revision, capacity, auto>>
  BY DEF runnerVars
<1>3. RunnerTypeOK' /\ Sound' /\ Good'
  BY <1>1, <1>2 DEF RunnerTypeOK, Sound, Good
<1>4. ChatTypes'
  BY <1>1, <1>2 DEF ChatTypes, RunnerTypeOK, Trust
<1>5. Live'
  <2>1. ASSUME NEW c \in Chat, ~needs'[c], seen'[c] = revision' PROVE Good' /\ cache' = ReplayTokens(c)'
    <3>1. c = who
      BY <1>1, <1>2, <2>1 DEF Behind, ChatTypes, RunnerTypeOK, Trust
    <3>2. ReplayTokens(c)' = ReplayTokens(who)
      BY <3>1 DEF ReplayTokens, Tokens
    <3> QED
      BY <1>2, <1>3, <3>2
  <2> QED
    BY <2>1 DEF Live
<1> QED
  BY <1>3, <1>4, <1>5, ReturnKeeps

LEMMA StartRecoveryKeeps ==
  ASSUME IInv, StartRecovery
  PROVE  IInv'
<1>1. pc = "restored" /\ UNCHANGED <<turns, who, budget>>
  BY DEF StartRecovery
<1>2. /\ RunnerTypeOK /\ ChatTypes /\ ArgTypes /\ PlanType /\ capacity > 0 /\ capacity \in Nat /\ revision \in Nat
      /\ Good /\ Behind /\ cache = <<>> /\ feed = <<>> /\ ReplyInv
  BY <1>1, TypesMean DEF IInv, ReplyInv, FeedInv, BehindInv, Feeding, Turn
<1>3. CASE Original = <<>>
  <2>1. UNCHANGED runnerVars /\ Trust /\ Return /\ cache = ReplayTokens(who)
    BY <1>2, <1>3 DEF StartRecovery, Original
  <2> QED
    BY <1>1, <1>2, <2>1, TrustKeeps
<1>4. CASE Original # <<>>
  <2>1. /\ UNCHANGED <<needs, seen>> /\ StartCall("recover", Original, processed + Len(Original))
    BY <1>4 DEF StartRecovery, Consume
  <2>2. Original \in Seq(Token) /\ Len(Original) \in Nat
    BY <1>2, HistoryTokens DEF Original, ChatTypes
  <2>3. processed + Len(Original) \in Nat
    BY <1>2, <2>2 DEF RunnerTypeOK
  <2>4. /\ RunnerTypeOK' /\ Sound' /\ revision' = revision + 1 /\ capacity' >= capacity
        /\ processed' = processed /\ invalid' = invalid /\ (~invalid => cache' = cache)
        /\ \/ Fail
           \/ /\ capacity' > 0 /\ pc' = "recover" /\ feed' = Original
              /\ UNCHANGED <<prompt, plan, generated>>
    BY <2>1, <2>3, CallMakesRoom
  <2>5. ChatTypes' /\ Behind'
    BY <1>1, <1>2, <2>1, <2>4 DEF ChatTypes, Behind
  <2>6. CASE Fail
    BY <1>1, <2>4, <2>5, <2>6, FailKeeps
  <2>7. CASE capacity' > 0 /\ pc' = "recover" /\ feed' = Original /\ UNCHANGED <<prompt, plan, generated>>
    <3>1. Good' /\ cache' = <<>>
      BY <1>2, <2>4 DEF Good
    <3>2. PlanType' /\ ArgTypes'
      BY <1>1, <1>2, <2>2, <2>7 DEF PlanType, ArgTypes
    <3>3. Types'
      BY <2>4, <2>5, <2>7, <3>2, TypesFrom DEF Turn, Feeding
    <3>4. cache' \o feed' = ReplayTokens(who)'
      <4>1. ReplayTokens(who)' = Original
        BY <1>1 DEF ReplayTokens, Tokens, Original
      <4> QED
        BY <2>2, <2>7, <3>1, <4>1, ConcatEmptySeq
    <3>5. Rest'
      BY <1>2, <2>5, <2>7, <3>1, <3>4
         DEF Rest, BehindInv, LiveInv, OwnInv, PlanInv, FeedInv, Feeding, ReplyInv, RoomInv
    <3> QED
      BY <2>4, <3>3, <3>5, Assemble
  <2> QED
    BY <2>4, <2>6, <2>7
<1> QED
  BY <1>3, <1>4

LEMMA RecoveredKeeps ==
  ASSUME IInv, Recovered
  PROVE  IInv'
<1>1. /\ pc = "recover" /\ feed = <<>> /\ UNCHANGED <<runnerVars, turns, who, budget>> /\ Trust /\ Return
  BY DEF Recovered, unchangedTurn
<1>2. Good /\ Behind /\ cache \o feed = ReplayTokens(who) /\ cache \in Seq(Token)
  BY <1>1, TypesMean DEF IInv, FeedInv, BehindInv, RunnerTypeOK
<1>3. cache = ReplayTokens(who)
  BY <1>1, <1>2, ConcatEmptySeq
<1> QED
  BY <1>1, <1>2, <1>3, TrustKeeps

LEMMA NestedTurnKeeps ==
  ASSUME IInv, NEW c \in Chat, NestedTurn(c)
  PROVE  IInv'
<1>1. /\ pc \in {"prompt", "decode", "token"} /\ needs' = [needs EXCEPT ![c] = TRUE]
      /\ UNCHANGED <<cache, processed, invalid, revision, capacity, auto, turns, seen,
                     pc, who, prompt, budget, plan, feed, generated>>
  BY DEF NestedTurn, runnerVars, turnVars
<1>2. /\ RunnerTypeOK /\ Sound /\ ChatTypes /\ ArgTypes /\ PlanType /\ capacity > 0 /\ Planned /\ Good /\ Behind
  BY <1>1, TypesMean DEF IInv, PlanInv, FeedInv, BehindInv, Turn, Feeding
<1>3. RunnerTypeOK' /\ Sound' /\ ChatTypes' /\ ArgTypes' /\ PlanType' /\ Planned' /\ Good' /\ Behind'
  BY <1>1, <1>2 DEF RunnerTypeOK, Sound, ChatTypes, ArgTypes, PlanType, Planned, Tokens, Good, Behind
<1>4. Types'
  BY <1>1, <1>2, <1>3, TypesFrom DEF Turn, Feeding
<1>5. ReplyInv' /\ RoomInv'
  BY <1>1 DEF IInv, ReplyInv, RoomInv, EndedWithStop, Closure
<1>6. FeedInv'
  BY <1>1, <1>3 DEF IInv, FeedInv, Feeding
<1>7. BehindInv' /\ LiveInv' /\ OwnInv' /\ PlanInv'
  BY <1>1, <1>3 DEF BehindInv, LiveInv, OwnInv, PlanInv
<1> QED
  BY <1>3, <1>4, <1>5, <1>6, <1>7 DEF IInv

(* Between turns, all there is to show is that no chat trusts a state that is *)
(* not its own.                                                               *)
LEMMA IdleKeeps ==
  ASSUME IInv, pc = "idle", UNCHANGED turnVars, RunnerTypeOK', Sound', ChatTypes', turns' = turns, Live'
  PROVE  IInv'
<1>1. UNCHANGED <<pc, who, prompt, budget, plan, feed, generated>>
  BY DEF turnVars
<1>2. Types'
  BY <1>1 DEF IInv, Types, TypeOK, ChatTypes, Turn, Feeding
<1>3. BehindInv' /\ LiveInv' /\ OwnInv' /\ PlanInv' /\ RoomInv'
  BY <1>1 DEF IInv, BehindInv, LiveInv, OwnInv, PlanInv, RoomInv
<1>4. FeedInv'
  BY <1>1 DEF IInv, FeedInv, Feeding
<1>5. ReplyInv'
  BY <1>1 DEF IInv, ReplyInv
<1> QED
  BY <1>2, <1>3, <1>4, <1>5 DEF IInv

LEMMA OutsideLoadKeeps ==
  ASSUME IInv, OutsideLoad
  PROVE  IInv'
<1>1. pc = "idle" /\ UNCHANGED <<turns, needs, seen>> /\ UNCHANGED turnVars
  BY DEF OutsideLoad, Outside, chatVars
<1>2. PICK size, growing : Load(size, growing) /\ size \in 0 .. ModelLimit /\ growing \in BOOLEAN
  <2>1. CASE \E l \in Loads : Load(l.size, l.auto)
    <3>1. PICK l \in Loads : Load(l.size, l.auto)
      BY <2>1
    <3>2. l \in [size : 1 .. ModelLimit, auto : BOOLEAN]
      BY ChatAssumption DEF ChatAssumption
    <3>3. l.size \in 0 .. ModelLimit /\ l.auto \in BOOLEAN
      BY <3>2, Sizes
    <3> QED
      BY <3>1, <3>3
  <2>2. CASE Load(0, FALSE)
    <3>1. 0 \in 0 .. ModelLimit /\ FALSE \in BOOLEAN
      BY Sizes
    <3> QED
      BY <2>2, <3>1
  <2> QED
    BY <2>1, <2>2 DEF OutsideLoad
<1>3. /\ cache' = <<>> /\ processed' = 0 /\ invalid' = FALSE /\ revision' = revision + 1
      /\ capacity' = size /\ auto' = growing
  BY <1>2 DEF Load, Empty, Bump
<1>4. ChatTypes /\ revision \in Nat
  BY TypesMean
<1>5. <<>> \in Seq(Token) /\ Len(<<>>) = 0 /\ 0 \in 0 .. 0
  OBVIOUS
<1>6. cache' \in Seq(Token) /\ processed' \in 0 .. Len(cache') /\ processed' = Len(cache') /\ revision' \in Nat
  BY <1>3, <1>4, <1>5
<1>7. RunnerTypeOK' /\ Sound'
  BY <1>2, <1>3, <1>6 DEF RunnerTypeOK, Sound
<1>8. ChatTypes'
  BY <1>1, <1>3, <1>4 DEF ChatTypes, turnVars
<1>9. Live'
  BY <1>1, <1>3, <1>4 DEF Live, ChatTypes
<1> QED
  BY <1>1, <1>7, <1>8, <1>9, IdleKeeps

LEMMA OutsideResetKeeps ==
  ASSUME IInv, OutsideReset
  PROVE  IInv'
<1>1. pc = "idle" /\ UNCHANGED <<turns, needs, seen>> /\ UNCHANGED turnVars /\ Reset /\ Bump(1)
  BY DEF OutsideReset, Outside, chatVars
<1>2. RunnerTypeOK /\ Sound /\ ChatTypes /\ revision \in Nat
  BY TypesMean
<1>3. RunnerTypeOK' /\ Sound' /\ revision' = revision + 1
  BY <1>1, <1>2, ResetKeeps
<1>4. ChatTypes' /\ Live'
  BY <1>1, <1>2, <1>3 DEF ChatTypes, Live, turnVars
<1> QED
  BY <1>1, <1>3, <1>4, IdleKeeps

LEMMA OutsideReserveKeeps ==
  ASSUME IInv, OutsideReserve
  PROVE  IInv'
<1>1. pc = "idle" /\ UNCHANGED chatVars /\ UNCHANGED <<who, budget>> /\ UNCHANGED turnVars /\ turns' = turns
  BY DEF OutsideReserve, Outside, chatVars, turnVars
<1>2. PICK got \in Reserved(ModelLimit) : Grown(got) /\ Bump(0)
  BY DEF OutsideReserve
<1>3. RunnerTypeOK /\ Live /\ ModelLimit \in Nat
  BY <1>1, TypesMean DEF IInv, LiveInv
<1>4. Room(got, ModelLimit)
  BY <1>3, ReservedRoom
<1>5. RunnerTypeOK' /\ Sound' /\ ChatTypes' /\ Live'
  BY <1>1, <1>2, <1>3, <1>4, QuietGrowth
<1> QED
  BY <1>1, <1>5, IdleKeeps

LEMMA OutsideCallKeeps ==
  ASSUME IInv, OutsideCall
  PROVE  IInv'
<1>1. pc = "idle" /\ UNCHANGED <<turns, needs, seen, who, budget>>
  BY DEF OutsideCall, Outside, chatVars
<1>2. PICK size \in Ensured(processed + Len(Foreign)) :
        /\ Grown(size) /\ Bump(1)
        /\ IF size = 0 THEN Return
           ELSE pc' = "outside" /\ feed' = Foreign /\ UNCHANGED <<prompt, plan, generated>>
  BY DEF OutsideCall
<1>3. /\ RunnerTypeOK /\ Sound /\ ChatTypes /\ ArgTypes /\ PlanType /\ revision \in Nat
      /\ plan = NoPlanYet /\ generated = <<>> /\ ReplyInv
  BY <1>1, TypesMean DEF IInv, PlanInv, ReplyInv
<1>4. Foreign \in Seq(Token) /\ Len(Foreign) \in Nat
  BY ChatAssumption DEF ChatAssumption
<1>5. processed + Len(Foreign) \in Nat
  BY <1>3, <1>4 DEF RunnerTypeOK
<1>6. Room(size, processed + Len(Foreign))
  BY <1>3, <1>5, EnsuredRoom
<1>7. revision' = revision + 1 /\ revision' \in Nat
  BY <1>2, <1>3 DEF Bump
<1>8. RunnerTypeOK' /\ Sound'
  BY <1>2, <1>3, <1>5, <1>6, <1>7, GrownKeeps
<1>9. ChatTypes' /\ Behind' /\ Live'
  BY <1>1, <1>3, <1>7 DEF ChatTypes, Behind, Live
<1>10. CASE size = 0
  BY <1>2, <1>8, <1>9, <1>10, ReturnKeeps
<1>11. CASE size # 0
  <2>1. pc' = "outside" /\ feed' = Foreign /\ UNCHANGED <<prompt, plan, generated>>
    BY <1>2, <1>11
  <2>2. PlanType' /\ ArgTypes'
    BY <1>1, <1>3, <1>4, <2>1 DEF PlanType, ArgTypes
  <2>3. Types'
    BY <1>8, <1>9, <2>1, <2>2 DEF Types, TypeOK, ChatTypes, PlanType, ArgTypes, Turn, Feeding
  <2>4. Rest'
    BY <1>3, <1>9, <2>1 DEF Rest, BehindInv, LiveInv, OwnInv, PlanInv, FeedInv, Feeding, ReplyInv, RoomInv
  <2> QED
    BY <1>8, <2>3, <2>4, Assemble
<1> QED
  BY <1>10, <1>11

LEMMA OutsideDoneKeeps ==
  ASSUME IInv, OutsideDone
  PROVE  IInv'
<1>1. pc = "outside" /\ Return /\ UNCHANGED <<runnerVars, turns, needs, seen, who, budget>>
  BY DEF OutsideDone, unchangedTurn, chatVars
<1>2. RunnerTypeOK /\ Sound /\ ChatTypes /\ Behind
  BY <1>1, TypesMean DEF IInv, BehindInv
<1>3. RunnerTypeOK' /\ Sound' /\ ChatTypes' /\ Live'
  BY <1>1, <1>2 DEF runnerVars, RunnerTypeOK, Sound, ChatTypes, Behind, Live
<1> QED
  BY <1>1, <1>3, ReturnKeeps

LEMMA StutterKeeps ==
  ASSUME IInv, UNCHANGED vars
  PROVE  IInv'
<1>1. UNCHANGED <<cache, processed, invalid, revision, capacity, auto, turns, needs, seen,
                  pc, who, prompt, budget, plan, feed, generated>>
  BY DEF vars, runnerVars, chatVars, turnVars
<1>2. Types' /\ Sound'
  BY <1>1 DEF IInv, Types, TypeOK, RunnerTypeOK, Sound
<1>3. BehindInv' /\ LiveInv' /\ OwnInv'
  BY <1>1 DEF IInv, BehindInv, Behind, LiveInv, Live, OwnInv, Own, Good, ReplayTokens, Tokens
<1>4. PlanInv' /\ ReplyInv' /\ RoomInv'
  BY <1>1 DEF IInv, PlanInv, Planned, Tokens, ReplyInv, EndedWithStop, RoomInv, Closure
<1>5. FeedInv'
  BY <1>1 DEF IInv, FeedInv, Good, Closure, EndedWithStop, ReplayTokens, Tokens, Feeding
<1> QED
  BY <1>2, <1>3, <1>4, <1>5 DEF IInv

LEMMA StepKeeps == IInv /\ [Next]_vars => IInv'
<1> SUFFICES ASSUME IInv, [Next]_vars PROVE IInv'
  OBVIOUS
<1>1. CASE UNCHANGED vars
  BY <1>1, StutterKeeps
<1>2. CASE \E c \in Chat, m \in Budget : \E p \in Prompt[c] : BeginTurn(c, p, m)
  BY <1>2, BeginKeeps
<1>3. CASE Reserve \/ ResetForReplay \/ StartReplay \/ Continue \/ StartGeneration
  BY <1>3, ReserveKeeps, ResetForReplayKeeps, StartReplayKeeps, ContinueKeeps, StartGenerationKeeps
<1>4. CASE RunChunk \/ Replayed \/ CancelPrompt \/ Prompted
  BY <1>4, RunChunkKeeps, ReplayedKeeps, CancelPromptKeeps, PromptedKeeps
<1>5. CASE CancelReply \/ EndAtBudget
  <2>1. pc = "decode" /\ GoTo("close") /\ UNCHANGED <<runnerVars, chatVars, who, budget>>
    BY <1>5 DEF CancelReply, EndAtBudget, unchangedTurn
  <2> QED
    BY <2>1, LoopEnds
<1>6. CASE CheckRoom \/ (\E t \in Reply : EmitToken(t)) \/ CloseTurn \/ Commit
  BY <1>6, CheckRoomKeeps, EmitKeeps, CloseTurnKeeps, CommitKeeps
<1>7. CASE Restore \/ StartRecovery \/ Recovered \/ OutsideDone
  BY <1>7, RestoreStepKeeps, StartRecoveryKeeps, RecoveredKeeps, OutsideDoneKeeps
<1>8. CASE \E c \in Chat : NestedTurn(c)
  BY <1>8, NestedTurnKeeps
<1>9. CASE OutsideLoad \/ OutsideReset \/ OutsideReserve \/ OutsideCall
  BY <1>9, OutsideLoadKeeps, OutsideResetKeeps, OutsideReserveKeeps, OutsideCallKeeps
<1> QED
  BY <1>1, <1>2, <1>3, <1>4, <1>5, <1>6, <1>7, <1>8, <1>9 DEF Next, Step

LEMMA InvariantHolds == Spec => []IInv
<1>1. Init => IInv
  BY InitIsFine
<1>2. IInv /\ [Next]_vars => IInv'
  BY StepKeeps
<1> QED
  BY <1>1, <1>2, PTL DEF Spec

-------------------------------------------------------------------------------
(* The theorems *)

(* Every variable keeps its type through every call, growth, failure and     *)
(* recovery; in particular no chat has seen a revision that is yet to come,  *)
(* and the position never passes what the caches were written with.          *)
THEOREM ChatTypesHold == Spec => []TypeOK
<1>1. IInv => TypeOK
  BY DEF IInv, Types
<1> QED
  BY <1>1, InvariantHolds, PTL

(* Every token of an answer is chosen by a model whose state is exactly the *)
(* chat's system prompt, its kept whole turns, its prompt and the answer so *)
(* far (GenerateTurn and GenerateImpl).                                     *)
THEOREM AnswersComeFromOwnHistory == Spec => []AnswersFromOwnHistory
<1>1. IInv => AnswersFromOwnHistory
  BY DEF IInv, FeedInv, PlanInv, Planned, Good, AnswersFromOwnHistory
<1> QED
  BY <1>1, InvariantHolds, PTL

(* A chat that would go on from the live state without a reset (Rebuilds)    *)
(* finds there a valid state that is its recorded history.                   *)
THEOREM TrustedStateIsHistory == Spec => []LiveStateIsHistory
<1>1. IInv => LiveStateIsHistory
  BY DEF IInv, LiveInv, Live, Good, LiveStateIsHistory
<1> QED
  BY <1>1, InvariantHolds, PTL

(* The plan leaves room for a first token, and every stage of the answer for *)
(* the closure, whatever was grown, dropped or replayed before.              *)
THEOREM AcceptedTurnsHaveRoom == Spec => []RoomForReply
<1>1. IInv => RoomForReply
  BY DEF IInv, RoomInv, RoomForReply
<1> QED
  BY <1>1, InvariantHolds, PTL

-------------------------------------------------------------------------------
(* Only Commit changes a history, and what it adds is a whole turn. *)
LEMMA CommitAddsWholeTurn ==
  ASSUME IInv, Commit
  PROVE  Log!Add(who, plan.dropped) /\ who \in Chat /\ plan.dropped \in 0 .. Len(turns[who])
<1>1. /\ pc = "closure" /\ ChatTypes /\ PlanType /\ ArgTypes /\ Planned /\ ReplyInv
  BY TypesMean DEF Commit, IInv, PlanInv
<1>2. who \in Chat /\ plan.dropped \in 0 .. Len(turns[who]) /\ prompt \in Prompt[who]
  BY <1>1 DEF ChatTypes, PlanType, Planned
<1>3. PICK kept : kept = SubSeq(turns[who], plan.dropped + 1, Len(turns[who]))
  OBVIOUS
<1>4. PICK turn : turn = prompt \o generated \o Closure
  OBVIOUS
<1>5. /\ kept \in Seq(Seq(Token)) /\ turn \in Seq(Token)
      /\ turns' = [turns EXCEPT ![who] = Append(kept, turn)]
      /\ turns'[who] = Append(kept, turn)
  BY <1>3, <1>4, CommitHistory
<1>6. turns'[who] # <<>> /\ turns'[who][Len(turns'[who])] = turn
  BY <1>5, AppendProperties
<1>7. WholeTurn(who, turn)
  <2>1. PICK p \in Seq(Token), g \in Seq(Token), z \in Seq(Token) : p = prompt /\ g = generated /\ z = Closure
    BY <1>1, ChatAssumption, SeqMonotonic, ClosureFits DEF ArgTypes, ChatAssumption
  <2>2. PICK n \in Nat : n = Len(g)
    OBVIOUS
  <2>3. Len(p) \in Nat /\ Len(z) \in Nat
    OBVIOUS
  <2>4. PICK a \in Seq(Token) : a = p \o g
    BY ConcatProperties
  <2>5. /\ Len(a) = Len(p) + n /\ \A i \in 1 .. n : a[Len(p) + i] = g[i]
    BY <2>2, <2>3, <2>4, ConcatProperties
  <2>6. /\ turn = a \o z /\ Len(turn) = Len(p) + n + Len(z)
        /\ \A i \in 1 .. n : turn[Len(p) + i] = g[i]
    <3>1. turn = a \o z
      BY <1>4, <2>1, <2>4
    <3>2. /\ Len(turn) = Len(a) + Len(z)
          /\ \A i \in 1 .. Len(a) + Len(z) : turn[i] = IF i <= Len(a) THEN a[i] ELSE z[i - Len(a)]
      BY <3>1, ConcatProperties
    <3> QED
      BY <2>2, <2>3, <2>5, <3>1, <3>2
  <2>7. SubSeq(turn, Len(p) + 1, Len(p) + n) = g
    <3>1. \A i \in Len(p) + 1 .. Len(p) + n : turn[i] \in Token
      BY <1>5, <2>2, <2>3, <2>6, ElementOfSeq
    <3>2. PICK r : r = SubSeq(turn, Len(p) + 1, Len(p) + n)
      OBVIOUS
    <3>3. /\ r \in Seq(Token) /\ Len(r) = n
          /\ \A i \in 1 .. n : r[i] = turn[Len(p) + i]
      BY <2>2, <2>3, <3>1, <3>2, SubSeqProperties
    <3>4. \A i \in 1 .. Len(r) : r[i] = g[i]
      BY <2>6, <3>3
    <3>5. r = g
      BY <2>2, <3>3, <3>4, SeqEqual
    <3> QED
      BY <3>2, <3>5
  <2>8. p \in Prompt[who] /\ n \in 0 .. Len(turn) /\ Len(p) + n <= Len(turn)
    BY <1>2, <2>1, <2>2, <2>3, <2>6
  <2>9. \A k \in 1 .. n : g[k] \in Stop => k = n
    BY <1>1, <2>1, <2>2 DEF ReplyInv
  <2>10. (n > 0 /\ Last(g) \in Stop) <=> EndedWithStop
    BY <2>1, <2>2, EmptySeq DEF EndedWithStop
  <2>11. turn = p \o g \o (IF n > 0 /\ Last(g) \in Stop THEN Newline ELSE <<EndOfTurn>> \o Newline)
    BY <1>4, <2>1, <2>10 DEF Closure
  <2> QED
    BY <2>7, <2>8, <2>9, <2>11 DEF WholeTurn
<1>8. turns' = [turns EXCEPT ![who] = Append(SubSeq(@, plan.dropped + 1, Len(@)), turn)]
  BY <1>2, <1>3, <1>5, <1>1 DEF ChatTypes
<1> QED
  BY <1>2, <1>6, <1>7, <1>8 DEF Log!Add

(* No other action touches a history. *)
LEMMA OthersKeepHistories ==
  ASSUME IInv, [Next]_vars, ~Commit
  PROVE  turns' = turns
<1>1. CASE UNCHANGED vars
  BY <1>1 DEF vars, chatVars
<1>2. CASE Next
  <2>1. CASE \E c \in Chat, m \in Budget : \E p \in Prompt[c] : BeginTurn(c, p, m)
    BY <2>1 DEF BeginTurn
  <2>2. CASE Reserve \/ ResetForReplay \/ StartReplay \/ Continue \/ StartGeneration
    BY <2>2 DEF Reserve, ResetForReplay, StartReplay, Continue, StartGeneration, chatVars
  <2>3. CASE RunChunk \/ Replayed \/ CancelPrompt \/ Prompted
    BY <2>3 DEF RunChunk, Replayed, CancelPrompt, Prompted, chatVars
  <2>4. CASE CancelReply \/ EndAtBudget \/ CheckRoom \/ (\E t \in Reply : EmitToken(t)) \/ CloseTurn
    BY <2>4 DEF CancelReply, EndAtBudget, CheckRoom, EmitToken, CloseTurn, chatVars
  <2>5. CASE Restore \/ StartRecovery \/ Recovered \/ OutsideDone
    BY <2>5 DEF Restore, StartRecovery, Recovered, OutsideDone, chatVars
  <2>6. CASE \E c \in Chat : NestedTurn(c)
    BY <2>6 DEF NestedTurn
  <2>7. CASE OutsideLoad \/ OutsideReset \/ OutsideReserve \/ OutsideCall
    BY <2>7 DEF OutsideLoad, OutsideReset, OutsideReserve, OutsideCall, chatVars
  <2> QED
    BY <1>2, <2>1, <2>2, <2>3, <2>4, <2>5, <2>6, <2>7 DEF Next, Step
<1> QED
  BY <1>1, <1>2

(* The histories implement the log: a turn enters as a whole, by Commit, and *)
(* only the oldest ones leave, in the same step.                             *)
THEOREM ImplementsChatLog == Spec => LogSpec
<1>1. Init => Log!Init
  BY DEF Init, Log!Init
<1>2. IInv /\ [Next]_vars => [Log!Next]_turns
  <2> SUFFICES ASSUME IInv, [Next]_vars PROVE [Log!Next]_turns
    OBVIOUS
  <2>1. CASE Commit
    BY <2>1, CommitAddsWholeTurn DEF Log!Next
  <2>2. CASE ~Commit
    BY <2>2, OthersKeepHistories
  <2> QED
    BY <2>1, <2>2
<1> QED
  BY <1>1, <1>2, InvariantHolds, PTL DEF Spec, LogSpec, Log!Spec
===============================================================================
