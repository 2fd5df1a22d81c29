---------------------------- MODULE GraphPasses ----------------------------
(***************************************************************************)
(* The pass pipeline: PassManager::RunStatus (src/pass/graph_pass.cc) runs *)
(* the passes in their order over the rewriting primitives of StaticGraph. *)
(* Every pass has one shape: it notes the names of candidate nodes, visits *)
(* them in node order, matches a pattern on the graph as it is by then and *)
(* issues a fixed list of primitive calls.  Here the candidates are "work" *)
(* and the calls still to be made are "todo"; one step makes one call.     *)
(*                                                                         *)
(* Tensors are their dimensions.  What the values mean is in GraphMeaning. *)
(***************************************************************************)
EXTENDS StaticGraph, FiniteSetsExt, SequencesExt

CONSTANTS
    Source,         \* the graph inputs and the constants
    SourceDims,     \* their dimensions
    StateOutput,    \* the outputs named next_... after a graph input
    Passes,         \* the names of the passes, in the order they were added
    Graphs          \* the models: [nodes, outputs], nodes in dependency order

\* The dimensions are known when the graph is built: the code's placeholder 0 for
\* a dimension of a later run does not occur.
KnownDims == Seq(Nat \ {0})

Operators ==
    {"Sigmoid", "SiLU", "Identity", "Mul", "Add", "MatMul", "Gemm", "Transpose", "Reshape",
     "Concat", "Conv", "Split", "QwenDepthwiseConvState"}
PassNames ==
    {"SigmoidMul", "MatMulAdd", "QwenDepthwiseConv", "Identity", "ReshapeChain", "NoOp",
     "DeadNode", "StateOutputAlias"}

\* ValidateAndOrderGraph: a value has one source, and the nodes are listed in an
\* order of their dependencies.
IsModel(g) ==
    LET made(i) == Range(g.nodes[i].outs)
        all == Source \cup UNION {made(i) : i \in 1 .. Len(g.nodes)}
    IN /\ g.nodes \in Seq([op : Op, attr : Seq(Int), ins : Seq(Value), outs : Seq(Value)])
       /\ Len(g.nodes) <= Cardinality(Node)
       /\ \A i \in 1 .. Len(g.nodes) :
            /\ IsInjective(g.nodes[i].outs) /\ made(i) \cap Source = {}
            /\ \A j \in 1 .. i - 1 : made(i) \cap made(j) = {}
            /\ Range(g.nodes[i].ins) \subseteq Source \cup UNION {made(j) : j \in 1 .. i - 1}
       /\ g.outputs \subseteq all

ASSUME NodeAssumption == IsFiniteSet(Node) /\ Node = 1 .. Cardinality(Node)
ASSUME OpAssumption == Operators \subseteq Op
ASSUME SourceAssumption == Source \subseteq Value /\ SourceDims \in [Source -> KnownDims]
\* CreateDefaultGraphPassManager and its like add a pass once.
ASSUME PassesAssumption == Passes \in Seq(PassNames) /\ IsInjective(Passes)
ASSUME ModelsAssumption == \A g \in Graphs : IsModel(g)

VARIABLES
    attr,           \* the attributes of the model's nodes
    pass,           \* the pass that runs, 0 before the first
    work,           \* the candidates the pass has still to visit, in node order
    todo,           \* the calls of the current match still to be made
    changed,        \* DeadNodeEliminationPass: this round removed a node
    status          \* "running", "done", "invalid", or why a pass failed

passVars == <<attr, pass, work, todo, changed, status>>
vars == <<graphVars, passVars>>

Count(d) == FoldSeq(LAMBDA x, y : x * y, 1, d)

------------------------------------------------------------------------------
(***************************************************************************)
(* What the builders behind OperatorRegistry::Create accept: the numbers   *)
(* of inputs and, from the dimensions of these, the dimensions of the      *)
(* outputs; <<>> when the builder returns nullptr.                         *)
(***************************************************************************)
Arity(o) ==
    CASE o \in {"Sigmoid", "SiLU", "Identity", "Transpose"} -> {1}
      [] o \in {"Mul", "Add", "MatMul", "Concat"} -> {2}
      [] o \in {"Reshape", "Split"} -> {1, 2}
      [] o \in {"Gemm", "Conv"} -> {2, 3}
      [] o = "QwenDepthwiseConvState" -> {3}

Align(d, rank) == [i \in 1 .. rank - Len(d) |-> 1] \o d

Broadcast(a, b) ==
    LET rank == Max({Len(a), Len(b)})
        x == Align(a, rank)
        y == Align(b, rank)
    IN IF \A i \in 1 .. rank : x[i] = y[i] \/ 1 \in {x[i], y[i]}
       THEN <<[i \in 1 .. rank |-> Max({x[i], y[i]})]>> ELSE <<>>

\* ResolveTargetShape: 0 takes the dimension the input has on that axis, -1 what
\* the others leave.
ResolveShape(target, d) ==
    LET copied == [i \in 1 .. Len(target) |->
                     IF target[i] = 0 /\ i <= Len(d) THEN d[i] ELSE target[i]]
        known == Count(SelectSeq(copied, LAMBDA x : x # -1))
        full == [i \in 1 .. Len(target) |->
                     IF copied[i] = -1 THEN Count(d) \div Max({known, 1}) ELSE copied[i]]
    IN IF /\ target # <<>> /\ full \in KnownDims /\ Count(full) = Count(d)
          /\ \A i, j \in 1 .. Len(target) : target[i] = -1 /\ target[j] = -1 => i = j
       THEN <<full>> ELSE <<>>

Product(a, b) ==
    IF Len(a) = 2 /\ Len(b) = 2 /\ a[2] = b[1] THEN <<<<a[1], b[2]>>>> ELSE <<>>

Transposed(d, axes) ==
    IF Len(axes) = Len(d) /\ Range(axes) = 1 .. Len(d)
    THEN <<[i \in 1 .. Len(d) |-> d[axes[i]]]>> ELSE <<>>

\* A depthwise convolution: columns joined on the last axis, a window as wide as
\* its kernel, the first column split off, and the operator that does it all.
Joined(a, b) ==
    IF Len(a) = 3 /\ Len(b) = 3 /\ a[1] = b[1] /\ a[2] = b[2]
    THEN <<<<a[1], a[2], a[3] + b[3]>>>> ELSE <<>>
Convolved(d, weight) ==
    IF Len(d) = 4 /\ Len(weight) = 4 THEN <<<<d[1], d[2], 1, 1>>>> ELSE <<>>
Parts(d) ==
    IF Len(d) = 3 /\ d[3] > 1
    THEN <<<<d[1], d[2], 1>>, <<d[1], d[2], d[3] - 1>>>> ELSE <<>>
ConvState(state, mixed) ==
    IF Len(state) = 3 /\ state[1] = 1 /\ state[3] = 3 /\ mixed = <<1, state[2], 1>>
    THEN <<<<1, state[2], 1, 1>>, <<1, state[2], 1>>, state>> ELSE <<>>

Infer(o, a, d) ==
    CASE o \in {"Sigmoid", "SiLU", "Identity"} -> <<d[1]>>
      [] o \in {"Mul", "Add"} -> Broadcast(d[1], d[2])
      [] o \in {"MatMul", "Gemm"} -> Product(d[1], d[2])
      [] o = "Transpose" -> Transposed(d[1], a)
      [] o = "Reshape" -> ResolveShape(a, d[1])
      [] o = "Concat" -> Joined(d[1], d[2])
      [] o = "Conv" -> Convolved(d[1], d[2])
      [] o = "Split" -> Parts(d[1])
      [] o = "QwenDepthwiseConvState" -> ConvState(d[1], d[2])

\* What Create asks of the dimensions: the operator is registered, accepts inputs
\* of these and makes so many outputs.  It may still return nullptr for data types
\* no kernel takes; these are not modelled, and that failure is a choice.
Creatable(o, a, d, made) ==
    /\ o \in Operators /\ Len(d) \in Arity(o)
    /\ Infer(o, a, d) # <<>> /\ Len(Infer(o, a, d)) = made

DimsOf(list) == [i \in 1 .. Len(list) |-> dims[list[i]]]

\* The dimensions inferred for the values in list.
Assign(list, inferred) ==
    [v \in Range(list) |-> inferred[CHOOSE i \in 1 .. Len(list) : list[i] = v]]

------------------------------------------------------------------------------
(***************************************************************************)
(* StaticGraph::BuildStatus over a model whose nodes are listed in the     *)
(* order ValidateAndOrderGraph finds; a model of which an operator cannot  *)
(* be created is not built.                                                *)
(***************************************************************************)
BuiltDims(g) ==
    LET built[i \in 0 .. Len(g.nodes)] ==
            IF i = 0 THEN [v \in Value |-> IF v \in Source THEN SourceDims[v] ELSE <<>>]
            ELSE LET n == g.nodes[i]
                     d == [k \in 1 .. Len(n.ins) |-> built[i - 1][n.ins[k]]]
                 IN IF <<>> \notin Range(d) /\ Creatable(n.op, n.attr, d, Len(n.outs))
                    THEN Assign(n.outs, Infer(n.op, n.attr, d)) @@ built[i - 1]
                    ELSE built[i - 1]
    IN built[Len(g.nodes)]

\* The operator of n makes what the tensors of its outputs are from what those of
\* its inputs are.
Sized(n) ==
    /\ Creatable(op[n], attr[n], DimsOf(ins[n]), Len(outs[n]))
    /\ DimsOf(outs[n]) = Infer(op[n], attr[n], DimsOf(ins[n]))

\* A model may have fewer nodes than Node names.
NodeOf(g, n) == IF n <= Len(g.nodes) THEN g.nodes[n]
                ELSE [op |-> "Identity", attr |-> <<>>, ins |-> <<>>, outs |-> <<>>]

Init ==
    \E g \in Graphs :
      /\ live = 1 .. Len(g.nodes)
      /\ op = [n \in Node |-> NodeOf(g, n).op]
      /\ ins = [n \in Node |-> NodeOf(g, n).ins]
      /\ outs = [n \in Node |-> NodeOf(g, n).outs]
      /\ attr = [n \in Node |-> NodeOf(g, n).attr]
      /\ outputs = g.outputs
      /\ users = [v \in Value |-> UsersOf(v)]
      /\ producer = [v \in Value |-> IF ProducersOf(v) = {} THEN NoNode
                                     ELSE CHOOSE n \in ProducersOf(v) : TRUE]
      /\ alias = [v \in Value |-> NoValue]
      /\ torn = FALSE
      /\ dims = BuiltDims(g)
      /\ dims \in [Value -> KnownDims] /\ \A n \in live : Sized(n)
      /\ pass = 0 /\ work = {} /\ todo = <<>> /\ changed = FALSE
      /\ status = "running"

------------------------------------------------------------------------------
(***************************************************************************)
(* ValidateStructureStatus: the live nodes form a graph from the sources   *)
(* to the values the outputs stand for.                                    *)
(***************************************************************************)
Made(S) == UNION {Range(outs[n]) : n \in S}

\* The order that ValidateAndOrderGraph looks for exists: among any nodes one
\* waits for none of the others.
Acyclic == \A S \in SUBSET live : S = {} \/ \E n \in S : Range(ins[n]) \cap Made(S) = {}

ValidStructure ==
    /\ \A n \in live : IsInjective(outs[n])
    /\ \A n \in live : \A v \in Range(outs[n]) : v \notin Source /\ ProducersOf(v) = {n}
    /\ \A n \in live : Range(ins[n]) \subseteq Source \cup Made(live)
    /\ \A o \in outputs : AliasChain(o) \ Aliased # {}
    /\ ResolvedOutputs \subseteq Source \cup Made(live)
    /\ Acyclic

------------------------------------------------------------------------------
(* The calls a pass can make. *)

SetOp(n, o, list) == [f |-> "op", n |-> n, o |-> o, list |-> list]
SetInput(n, from, to) == [f |-> "input", n |-> n, from |-> from, to |-> to]
Drop(n) == [f |-> "remove", n |-> n]
Relay(n) == [f |-> "relay", n |-> n]
Absorb(n, a, o, list) == [f |-> "absorb", n |-> n, a |-> a, o |-> o, list |-> list]

Call ==
    [f : {"op"}, n : Node, o : Op, list : Seq(Value)]
    \cup [f : {"input"}, n : Node, from : Value, to : Value]
    \cup [f : {"remove", "relay"}, n : Node]
    \cup [f : {"absorb"}, n : Node, a : Node, o : Op, list : Seq(Value)]

Single(n) == Len(ins[n]) = 1 /\ Len(outs[n]) = 1

\* The node of that operator which makes v, if there is one.
MakerIs(v, o) == producer[v] \in live /\ op[producer[v]] = o

\* ReplaceAllUsers, then the node: the users in the order of the list, which is
\* any order here.
Bypass(n) ==
    LET from == outs[n][1]
        to == ins[n][1]
    IN {Append([i \in 1 .. Len(s) |-> SetInput(s[i], from, to)], Drop(n)) :
          s \in SetToSeqs(users[from])}

------------------------------------------------------------------------------
(* The patterns. *)

\* BUG (a mutant): the Sigmoid may have other users.
BugSiluAt(n, i) ==
    /\ op[n] = "Mul" /\ Len(ins[n]) = 2 /\ MakerIs(ins[n][i], "Sigmoid")
    /\ ins[producer[ins[n][i]]] = <<ins[n][3 - i]>>
    /\ ~IsGraphOutputValue(ins[n][i])

\* MatchSiluPattern: operand i of the Mul is the Sigmoid of the other one.
SiluAt(n, i) ==
    LET s == ins[n][i] IN
    /\ op[n] = "Mul" /\ Len(ins[n]) = 2
    /\ MakerIs(s, "Sigmoid")
    /\ ins[producer[s]] = <<ins[n][3 - i]>>
    /\ ~IsGraphOutputValue(s)
    /\ users[s] = {n}

SigmoidMulCalls(n) ==
    LET at == {i \in 1 .. Len(ins[n]) : SiluAt(n, i)}
        i == Min(at)
    IN IF at = {} THEN <<>>
       ELSE <<SetOp(n, "SiLU", <<ins[n][3 - i]>>), Drop(producer[ins[n][i]])>>

\* IsValidGemmBias
IsBias(d, m, k) == d \in {<<k>>, <<m, k>>}

\* MatchMatMulAddPattern: the operand is a matrix product nobody else uses, and
\* the other operand a bias of its rows.  That the bias has storage is left out:
\* tensors with deferred storage count as initialized.
GemmAt(n, i) ==
    LET t == ins[n][i]
        a == ins[producer[t]][1]
        b == ins[producer[t]][2]
    IN /\ op[n] = "Add" /\ Len(ins[n]) = 2
       /\ MakerIs(t, "MatMul")
       /\ ~IsGraphOutputValue(t)
       /\ users[t] = {n}
       /\ Len(dims[a]) = 2 /\ Len(dims[b]) = 2 /\ dims[a][2] = dims[b][1]
       /\ IsBias(dims[ins[n][3 - i]], dims[a][1], dims[b][2])

MatMulAddCalls(n) ==
    LET at == {i \in 1 .. Len(ins[n]) : GemmAt(n, i)}
        i == Min(at)
        m == producer[ins[n][i]]
    IN IF at = {} THEN <<>>
       ELSE <<SetOp(n, "Gemm", Append(ins[m], ins[n][3 - i])), Drop(m)>>

\* MatchQwenDepthwiseConvPattern without the FP8 casts: the state and the new
\* column are joined; the join is convolved and also split into next state.
ConvAt(n, s) ==
    LET r == producer[ins[n][1]]
        c == producer[ins[r][1]]
        channels == dims[ins[c][1]][2]
    IN /\ op[n] = "Conv" /\ Len(ins[n]) = 2
       /\ MakerIs(ins[n][1], "Reshape") /\ Len(ins[r]) = 2 /\ users[outs[r][1]] = {n}
       /\ MakerIs(ins[r][1], "Concat") /\ Len(ins[c]) = 2 /\ users[outs[c][1]] = {r, s}
       /\ op[s] = "Split" /\ ins[s] = <<outs[c][1]>> /\ Len(outs[s]) = 2
       /\ ~IsGraphOutputValue(outs[s][1]) /\ users[outs[s][1]] = {}
       /\ dims[ins[c][1]] = <<1, channels, 3>> /\ dims[ins[c][2]] = <<1, channels, 1>>
       /\ dims[outs[r][1]] = <<1, channels, 1, 4>>
       /\ dims[ins[n][2]] = <<channels, 1, 1, 4>>

DepthwiseConvCalls(n) ==
    LET at == {s \in live : ConvAt(n, s)}
        r == producer[ins[n][1]]
        c == producer[ins[r][1]]
    IN IF at = {} THEN <<>>
       ELSE <<Absorb(n, CHOOSE s \in at : TRUE, "QwenDepthwiseConvState",
                     Append(ins[c], ins[n][2])),
              Drop(r), Drop(c)>>

\* ReshapeChainEliminationPass: the outer reshape reads what the inner one read.
ReshapeChainCalls(n) ==
    LET t == ins[n][1] IN
    IF /\ Single(n)
       /\ ~IsGraphOutputValue(t)
       /\ MakerIs(t, "Reshape")
       /\ Single(producer[t])
       /\ users[t] = {n}
    THEN <<SetInput(n, t, ins[producer[t]][1]), Drop(producer[t])>>
    ELSE <<>>

\* BUG (a mutant): any Reshape or Transpose is taken for one that does nothing.
BugIsNoOp(n) == Single(n) /\ ~IsGraphOutputValue(outs[n][1]) /\ op[n] \in {"Reshape", "Transpose"}

\* NoOpEliminationPass: decided for all nodes before the first one is bypassed.
IsNoOp(n) ==
    /\ Single(n)
    /\ ~IsGraphOutputValue(outs[n][1])
    /\ \/ op[n] = "Reshape" /\ dims[ins[n][1]] = dims[outs[n][1]]
       \/ op[n] = "Transpose" /\ attr[n] = [i \in 1 .. Len(attr[n]) |-> i]

IsDead(n) == ~HasUsers(n) /\ \A v \in Range(outs[n]) : ~IsGraphOutputValue(v)

\* IsExplicitStateOutput
IsStateRelay(n) ==
    /\ op[n] = "Identity" /\ Single(n)
    /\ IsGraphOutputValue(outs[n][1])
    /\ ~HasUsers(n)
    /\ outs[n][1] \in StateOutput

\* The nodes a pass notes before it changes the graph.
Candidates(p) ==
    {n \in live :
        CASE p = "SigmoidMul" -> op[n] = "Mul"
          [] p = "MatMulAdd" -> op[n] = "Add"
          [] p = "QwenDepthwiseConv" -> op[n] = "Conv"
          [] p = "Identity" -> op[n] = "Identity"
          [] p = "ReshapeChain" -> op[n] = "Reshape"
          [] p = "NoOp" -> IsNoOp(n)
          [] p = "DeadNode" -> IsDead(n)
          [] p = "StateOutputAlias" -> IsStateRelay(n)}

\* The calls it makes when it comes to n, which GetNode no longer finds once
\* it has been removed.
CallsFor(p, n) ==
    IF n \notin live THEN {<<>>}
    ELSE CASE p = "SigmoidMul" -> {SigmoidMulCalls(n)}
           [] p = "MatMulAdd" -> {MatMulAddCalls(n)}
           [] p = "QwenDepthwiseConv" -> {DepthwiseConvCalls(n)}
           [] p = "Identity" ->
                IF Single(n) /\ ~IsGraphOutputValue(outs[n][1]) THEN Bypass(n) ELSE {<<>>}
           [] p = "ReshapeChain" -> {ReshapeChainCalls(n)}
           [] p = "NoOp" -> Bypass(n)
           [] p = "DeadNode" -> {<<Drop(n)>>}
           [] p = "StateOutputAlias" -> {<<Relay(n)>>}

------------------------------------------------------------------------------
(* RunStatus *)

Idle == status = "running" /\ work = {} /\ todo = <<>>
Looping == pass > 0 /\ Passes[pass] = "DeadNode" /\ changed

\* The structure is validated before the first pass and after every pass.
NextPass ==
    /\ Idle /\ ~Looping
    /\ IF ~ValidStructure
       THEN status' = "invalid" /\ UNCHANGED <<pass, work, changed>>
       ELSE IF pass = Len(Passes)
       THEN status' = "done" /\ UNCHANGED <<pass, work, changed>>
       ELSE /\ pass' = pass + 1
            /\ work' = Candidates(Passes[pass + 1])
            /\ changed' = FALSE
            /\ UNCHANGED status
    /\ UNCHANGED <<graphVars, attr, todo>>

\* DeadNodeEliminationPass: another round while the last one removed something.
NextRound ==
    /\ Idle /\ Looping
    /\ work' = Candidates("DeadNode")
    /\ changed' = FALSE
    /\ UNCHANGED <<graphVars, attr, pass, todo, status>>

Visit ==
    /\ status = "running" /\ todo = <<>>
    /\ \E n \in work :
         /\ \A m \in work : n <= m
         /\ todo' \in CallsFor(Passes[pass], n)
         /\ work' = work \ {n}
    /\ UNCHANGED <<graphVars, attr, pass, changed, status>>

Calls(f) == status = "running" /\ todo # <<>> /\ Head(todo).f = f

Returned ==
    /\ todo' = Tail(todo)
    /\ UNCHANGED <<attr, pass, work, status>>

\* A call that returned false fails the pass, except for a removal that
\* DeadNodeEliminationPass asked for.  The pass returns -1 whatever the reason;
\* the model tells a call refused for what the graph looks like, one for which
\* no kernel was found, and one that stopped at contradictory metadata.
Failures == {"refused", "no kernel", "metadata"}

Fails(reason) ==
    /\ reason \in Failures
    /\ status' = reason
    /\ UNCHANGED <<attr, pass, work, todo, changed>>

Refused == Fails("refused")

DoRemove ==
    LET c == Head(todo) IN
    /\ Calls("remove")
    /\ \/ RemoveNode(c.n) /\ Returned /\ changed' = TRUE
       \/ /\ ~CanRemove(c.n) /\ UNCHANGED graphVars
          /\ IF Passes[pass] = "DeadNode" THEN Returned /\ UNCHANGED changed ELSE Refused

DoRelay ==
    LET c == Head(todo) IN
    /\ Calls("relay")
    /\ IF CanAlias(c.n) THEN RemoveNodeWithOutputAlias(c.n) /\ Returned /\ UNCHANGED changed
       ELSE Refused /\ UNCHANGED graphVars

\* How far the two steps of a rewrite came that may fail for other reasons than
\* dimensions: the outputs resized while no kernel was found, and the outputs
\* entered in the indexes before one whose metadata contradicts its declaration,
\* with the outputs resized by then, which are these at least.
Resized(list, d) == {Restrict(d, s) : s \in SUBSET Range(list)}
Before(list) == {Range(SubSeq(list, 1, k)) : k \in 0 .. Len(list) - 1}

\* ReplaceInputValue: the input stays replaced in all cases.
DoSetInput ==
    LET c == Head(todo)
        list == DimsOf(WithInput(c.n, c.from, c.to))
        out == outs[c.n]
        d == Assign(out, Infer(op[c.n], attr[c.n], list))
        Set(taken, e) == ReplaceInputValue(c.n, c.from, c.to, taken, e)
    IN /\ Calls("input")
       /\ IF ~CanReplaceInput(c.n, c.from) THEN Refused /\ UNCHANGED graphVars
          ELSE IF ~Creatable(op[c.n], attr[c.n], list, Len(out)) THEN Refused /\ Set({}, <<>>)
          ELSE \/ Set(Range(out), d) /\ Returned /\ UNCHANGED changed
               \/ \E e \in Resized(out, d) : Set({}, e) /\ Fails("no kernel")
               \/ \E taken \in Before(out), e \in Resized(out, d) :
                     taken \subseteq DOMAIN e /\ Set(taken, e) /\ Fails("metadata")

\* ReplaceNodeOp, which calls ReplaceNodeDesc
DoSetOp ==
    LET c == Head(todo)
        list == DimsOf(c.list)
        out == outs[c.n]
        d == Assign(out, Infer(c.o, attr[c.n], list))
        Set(taken, e) == ReplaceNodeDesc(c.n, c.o, c.list, taken, e)
    IN /\ Calls("op")
       /\ IF c.n \notin live \/ ~Creatable(c.o, attr[c.n], list, Len(out))
          THEN Refused /\ UNCHANGED graphVars
          ELSE \/ Set(Range(out), d) /\ Returned /\ UNCHANGED changed
               \/ \E e \in Resized(out, d) : CreateFails(e) /\ Fails("no kernel")
               \/ \E taken \in Before(out), e \in Resized(out, d) :
                     taken \subseteq DOMAIN e /\ Set(taken, e) /\ Fails("metadata")

\* ReplaceNodeDescAndAbsorbNode
DoAbsorb ==
    LET c == Head(todo)
        list == DimsOf(c.list)
        all == outs[c.n] \o outs[c.a]
        d == Assign(all, Infer(c.o, <<>>, list))
    IN /\ Calls("absorb")
       /\ IF ~CanAbsorb(c.n, c.a) \/ ~Creatable(c.o, <<>>, list, Len(all))
          THEN Refused /\ UNCHANGED graphVars
          ELSE \/ /\ ReplaceNodeDescAndAbsorbNode(c.n, c.a, c.o, c.list, d)
                  /\ Returned /\ UNCHANGED changed
               \/ \E e \in Resized(all, d) : CreateFails(e) /\ Fails("no kernel")
               \/ \E taken \in Before(all), e \in Resized(all, d) :
                     /\ taken \subseteq DOMAIN e
                     /\ AbsorbHalf(c.n, c.a, c.o, c.list, taken, e) /\ Fails("metadata")

\* ApplyPasses has returned.
Finished == status # "running" /\ UNCHANGED vars

Next ==
    \/ NextPass \/ NextRound \/ Visit
    \/ DoRemove \/ DoRelay \/ DoSetInput \/ DoSetOp \/ DoAbsorb
    \/ Finished

\* The loop over the passes runs in the calling thread.
Spec == Init /\ [][Next]_vars /\ WF_vars(Next)

------------------------------------------------------------------------------
TypeOK ==
    /\ GraphTypeOK
    /\ dims \in [Value -> KnownDims]
    /\ attr \in [Node -> Seq(Int)]
    /\ pass \in 0 .. Len(Passes)
    /\ work \subseteq Node
    /\ todo \in Seq(Call)
    /\ changed \in BOOLEAN
    /\ status \in {"running", "done", "invalid"} \cup Failures

\* No pass, whatever the others did before it, leaves a graph that the validation
\* after it rejects.  And a pass makes no call that the graph refuses, but for two
\* reasons the model gave it: a MatMul added to itself, which MatMulAdd turns into
\* the bias of its own Gemm and then cannot remove, and an inner value of a
\* depthwise convolution that is a graph output, likewise.  What is left are the
\* data types: a rewrite for which no kernel is found, or whose outputs are
\* declared with another type than the operator infers.
FusedWithItself(n) ==
    LET m == producer[ins[n][3]] IN
    op[n] = "Gemm" /\ m \in live /\ op[m] = "MatMul" /\ ins[n] = Append(ins[m], outs[m][1])

PublicInside(n) ==
    /\ op[n] = "QwenDepthwiseConvState"
    /\ \E m \in live : /\ op[m] \in {"Concat", "Reshape"}
                       /\ \A v \in Range(outs[m]) : IsGraphOutputValue(v)

StopsForAReason ==
    /\ status # "invalid"
    /\ status = "refused" => \E n \in live : FusedWithItself(n) \/ PublicInside(n)
=============================================================================
