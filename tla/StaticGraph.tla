---------------------------- MODULE StaticGraph ----------------------------
(***************************************************************************)
(* The rewriting primitives of StaticGraph (src/core/static_graph.cc): the *)
(* node list and the three indexes that are kept beside it by hand, the    *)
(* producer of a value, the users of a value and the aliases of the graph  *)
(* outputs.  A call that returns false before it has changed anything is a *)
(* stutter.                                                                *)
(*                                                                         *)
(* What OperatorRegistry::Create answers is a parameter of the actions: d  *)
(* maps the outputs of the new operator to the dimensions it inferred.     *)
(* After it comes a loop over these outputs, which gives each the metadata *)
(* the model declares and enters it in the indexes.  The loop ends, and    *)
(* the call returns false, at an output whose declared data type is not    *)
(* the inferred one: the call is then the same action with "taken", the    *)
(* outputs it came to, a part of the outputs, and with d for those whose   *)
(* tensors have changed.                                                   *)
(***************************************************************************)
EXTENDS Integers, Sequences, Functions

CONSTANTS
    Node,       \* the nodes of the built graph, named by their position
    Value,      \* the names of its values
    Op,         \* the operator types
    NoNode,     \* "": the value has no producer
    NoValue     \* the value has no alias

ASSUME NoNodeAssumption == NoNode \notin Node
ASSUME NoValueAssumption == NoValue \notin Value

VARIABLES
    op, ins, outs,  \* StaticNode::op_type, inputs, outputs
    live,           \* the nodes whose StaticNode::removed is false
    producer,       \* producer_by_value_
    users,          \* users_by_value_
    alias,          \* output_aliases_
    dims,           \* the dimensions of tensors_[v]
    outputs,        \* model_.graph.outputs
    torn            \* an absorption stopped between its two halves

graphVars == <<op, ins, outs, live, producer, users, alias, dims, outputs, torn>>

Dims == Seq(Nat)

GraphTypeOK ==
    /\ op \in [Node -> Op]
    /\ ins \in [Node -> Seq(Value)]
    /\ outs \in [Node -> Seq(Value)]
    /\ live \subseteq Node
    /\ producer \in [Value -> Node \cup {NoNode}]
    /\ users \in [Value -> SUBSET Node]
    /\ alias \in [Value -> Value \cup {NoValue}]
    /\ dims \in [Value -> Dims]
    /\ outputs \subseteq Value
    /\ torn \in BOOLEAN

\* What the two indexes hold when they are read off the node list.
UsersOf(v) == {n \in live : v \in Range(ins[n])}
ProducersOf(v) == {n \in live : v \in Range(outs[n])}

\* BuildStatus: the nodes in an order of their dependencies, the indexes filled
\* while they are added.
GraphInit ==
    /\ GraphTypeOK
    /\ \A v \in Value : users[v] = UsersOf(v)
    /\ \A v \in Value : \A n \in Node : producer[v] = n <=> n \in ProducersOf(v)
    /\ alias = [v \in Value |-> NoValue]
    /\ torn = FALSE

------------------------------------------------------------------------------
Register(u, n, list) == [v \in Value |-> IF v \in Range(list) THEN u[v] \cup {n} ELSE u[v]]
Unregister(u, n, list) == [v \in Value |-> IF v \in Range(list) THEN u[v] \ {n} ELSE u[v]]

\* The value and what it is an alias of, in turn: the least set that holds the
\* value and, with a value that has an alias, the alias.
Aliased == {v \in Value : alias[v] # NoValue}

AliasChain(v) ==
    LET far == {v} \cup {alias[w] : w \in Aliased}
    IN {u \in far : \A S \in SUBSET far :
            v \in S /\ (\A w \in S \cap Aliased : alias[w] \in S) => u \in S}

IsGraphOutputValue(v) == \E o \in outputs : v \in AliasChain(o)

\* The values the graph outputs stand for.
ResolvedOutputs == (UNION {AliasChain(o) : o \in outputs}) \ Aliased

HasUsers(n) == \E v \in Range(outs[n]) : users[v] # {}

------------------------------------------------------------------------------
(***************************************************************************)
(* RemoveNode: refused while an output is public or used.                  *)
(***************************************************************************)
CanRemove(n) ==
    /\ n \in live
    /\ ~HasUsers(n)
    /\ \A v \in Range(outs[n]) : ~IsGraphOutputValue(v)

Retire(n, u, dropped) ==
    /\ live' = live \ {n}
    /\ users' = [v \in Value |-> IF v \in dropped THEN {} ELSE u[v]]
    /\ producer' = [v \in Value |-> IF v \in dropped /\ producer[v] = n
                                    THEN NoNode ELSE producer[v]]

\* BUG (a mutant): the node stays a user of its inputs.
BugRemoveNode(n) ==
    /\ CanRemove(n)
    /\ Retire(n, users, Range(outs[n]))
    /\ UNCHANGED <<op, ins, outs, alias, dims, outputs, torn>>

RemoveNode(n) ==
    /\ CanRemove(n)
    /\ Retire(n, Unregister(users, n, ins[n]), Range(outs[n]))
    /\ UNCHANGED <<op, ins, outs, alias, dims, outputs, torn>>

(***************************************************************************)
(* RemoveNodeWithOutputAlias: a relay of one value to a graph output goes, *)
(* and the output's name is bound to the tensor of its input.              *)
(***************************************************************************)
CanAlias(n) ==
    /\ n \in live
    /\ Len(ins[n]) = 1 /\ Len(outs[n]) = 1
    /\ outs[n][1] \in outputs
    /\ ~HasUsers(n)
    /\ dims[ins[n][1]] = dims[outs[n][1]]

RemoveNodeWithOutputAlias(n) ==
    /\ CanAlias(n)
    /\ alias' = [alias EXCEPT ![outs[n][1]] = ins[n][1]]
    /\ Retire(n, Unregister(users, n, ins[n]), {outs[n][1]})
    /\ UNCHANGED <<op, ins, outs, dims, outputs, torn>>

\* BUG (a mutant): the new tensors replace all others.
BugInferred(d) == d

\* The builder behind Create resizes the output tensors that are large enough in
\* place, before a kernel is looked for.
Inferred(d) == [v \in Value |-> IF v \in DOMAIN d THEN d[v] ELSE dims[v]]

Produces(n, taken) == [v \in Value |-> IF v \in taken THEN n ELSE producer[v]]

(***************************************************************************)
(* OperatorRegistry::Create finds no kernel: whoever called it returns     *)
(* false, and the outputs may have been resized.                           *)
(***************************************************************************)
CreateFails(d) ==
    /\ dims' = Inferred(d)
    /\ UNCHANGED <<op, ins, outs, live, producer, users, alias, outputs, torn>>

(***************************************************************************)
(* ReplaceInputValue: every occurrence is replaced before the operator is  *)
(* created again, and stays replaced when that fails.                      *)
(***************************************************************************)
WithInput(n, from, to) ==
    [i \in 1 .. Len(ins[n]) |-> IF ins[n][i] = from THEN to ELSE ins[n][i]]

CanReplaceInput(n, from) == n \in live /\ from \in Range(ins[n])

ReplaceInputValue(n, from, to, taken, d) ==
    /\ CanReplaceInput(n, from)
    /\ ins' = [ins EXCEPT ![n] = WithInput(n, from, to)]
    /\ users' = Register(Unregister(users, n, <<from>>), n, <<to>>)
    /\ producer' = Produces(n, taken)
    /\ dims' = Inferred(d)
    /\ UNCHANGED <<op, outs, live, alias, outputs, torn>>

(***************************************************************************)
(* ReplaceNodeDesc, and ReplaceNodeOp which calls it with the outputs the  *)
(* node has: another operator makes the same values from other inputs.     *)
(* The operator, the inputs and the use lists change before the loop.      *)
(***************************************************************************)
ReplaceNodeDesc(n, o, list, taken, d) ==
    /\ n \in live
    /\ op' = [op EXCEPT ![n] = o]
    /\ ins' = [ins EXCEPT ![n] = list]
    /\ users' = Register(Unregister(users, n, ins[n]), n, list)
    /\ producer' = Produces(n, taken)
    /\ dims' = Inferred(d)
    /\ UNCHANGED <<outs, live, alias, outputs, torn>>

(***************************************************************************)
(* ReplaceNodeDescAndAbsorbNode: n takes over the outputs of a, which is   *)
(* retired.  AbsorbHalf is the call that fails in the loop: n has the new  *)
(* inputs and outputs, and a is still in the graph.                        *)
(***************************************************************************)
CanAbsorb(n, a) ==
    /\ n \in live /\ a \in live /\ n # a
    /\ outs[a] # <<>>
    /\ \A v \in Range(outs[a]) : producer[v] = a

TakeOver(n, o, list, taken) ==
    /\ op' = [op EXCEPT ![n] = o]
    /\ ins' = [ins EXCEPT ![n] = list]
    /\ producer' = Produces(n, taken)

ReplaceNodeDescAndAbsorbNode(n, a, o, list, d) ==
    LET all == outs[n] \o outs[a] IN
    /\ CanAbsorb(n, a)
    /\ TakeOver(n, o, list, Range(all))
    /\ outs' = [outs EXCEPT ![n] = all]
    /\ users' = Unregister(Register(Unregister(users, n, ins[n]), n, list), a, ins[a])
    /\ live' = live \ {a}
    /\ dims' = Inferred(d)
    /\ UNCHANGED <<alias, outputs, torn>>

AbsorbHalf(n, a, o, list, taken, d) ==
    /\ CanAbsorb(n, a)
    /\ TakeOver(n, o, list, taken)
    /\ outs' = [outs EXCEPT ![n] = outs[n] \o outs[a]]
    /\ users' = Register(Unregister(users, n, ins[n]), n, list)
    /\ dims' = Inferred(d)
    /\ torn' = TRUE
    /\ UNCHANGED <<live, alias, outputs>>

------------------------------------------------------------------------------
\* Any caller, with any arguments: the new inputs, operator and dimensions are
\* the ones the node has afterwards.
GraphNext ==
    \E n \in Node :
      \/ RemoveNode(n)
      \/ RemoveNodeWithOutputAlias(n)
      \/ CreateFails(dims')
      \/ \E from, to \in Value, taken \in SUBSET Range(outs[n]) :
            ReplaceInputValue(n, from, to, taken, dims')
      \/ \E taken \in SUBSET Range(outs[n]) : ReplaceNodeDesc(n, op'[n], ins'[n], taken, dims')
      \/ \E a \in Node : ReplaceNodeDescAndAbsorbNode(n, a, op'[n], ins'[n], dims')
      \/ \E a \in Node, taken \in SUBSET Range(outs'[n]) :
            AbsorbHalf(n, a, op'[n], ins'[n], taken, dims')

\* The arguments are values: the node list keeps its types.
Typed == ins' \in [Node -> Seq(Value)] /\ op' \in [Node -> Op] /\ dims' \in [Value -> Dims]

GraphSpec == GraphInit /\ [][GraphNext /\ Typed]_graphVars

------------------------------------------------------------------------------
\* The two indexes hold what the node list says, through every sequence of
\* calls, those that fail half-way included: GetUsers and GetProducer, on which
\* every pass decides, never answer with a node that has gone or without one
\* that is there.  Only an absorption that fails leaves them apart.
IndexesAgree ==
    torn \/ /\ \A v \in Value : users[v] = UsersOf(v)
            /\ \A v \in Value : \A n \in Node : producer[v] = n <=> n \in ProducersOf(v)
=============================================================================
