--------------------------- MODULE MCGraphPasses ---------------------------
(* Small models for GraphPasses: all chains of three nodes over two sources, *)
(* and the depthwise convolution of the Qwen graphs with its variations.     *)
EXTENDS GraphMeaning

CONSTANTS ReshapeTargets

MCSource == {"x", "b", "state", "mixed", "weight", "flat", "shape"}
MCSourceDims == [v \in MCSource |->
    CASE v = "x" -> <<2, 2>> [] v = "b" -> <<2>>
      [] v = "state" -> <<1, 2, 3>> [] v = "mixed" -> <<1, 2, 1>>
      [] v = "weight" -> <<2, 1, 1, 4>> [] v = "flat" -> <<2, 4>> [] v = "shape" -> <<4>>]
MCValue == MCSource \cup {"t1", "t2", "next_x", "join", "window", "prefix", "next_state", "kernel", "conv"}
MCStateOutput == {"next_x", "next_state"}
MCOp == {"Sigmoid", "SiLU", "Identity", "Mul", "Add", "MatMul", "Gemm", "Transpose", "Reshape",
         "Concat", "Conv", "Split", "QwenDepthwiseConvState"}

MkNode(o, a, i, out) == [op |-> o, attr |-> a, ins |-> i, outs |-> out]

Unary == {<<"Sigmoid", <<>>>>, <<"Identity", <<>>>>, <<"Transpose", <<1, 2>>>>, <<"Transpose", <<2, 1>>>>}
         \cup {<<"Reshape", r>> : r \in ReshapeTargets}

\* One node that makes "out" from the list of values before it; a bias only
\* ever is the second operand of an Add.
Nodes(before, out) ==
    {MkNode(u[1], u[2], <<before[i]>>, <<out>>) : u \in Unary, i \in 1 .. Len(before)}
    \cup {MkNode(o, <<>>, <<before[p[1]], before[p[2]]>>, <<out>>) :
            o \in {"Mul", "Add", "MatMul"},
            p \in {q \in (1 .. Len(before)) \X (1 .. Len(before)) : q[1] >= q[2]}}
    \cup {MkNode("Add", <<>>, <<"b", before[i]>>, <<out>>) : i \in 1 .. Len(before)}

Chains ==
    {[nodes |-> <<n1, n2, n3>>, outputs |-> o] :
        n1 \in Nodes(<<"x">>, "t1"), n2 \in Nodes(<<"x", "t1">>, "t2"),
        n3 \in Nodes(<<"t1", "t2">>, "next_x"), o \in {{"next_x"}, {"t1", "next_x"}, {"t2"}}}

\* The weight is a source, or made from one as export_qwen35_model.py does; an inner
\* value may also be a graph output.
Convolution(weight) ==
    <<MkNode("Concat", <<>>, <<"state", "mixed">>, <<"join">>),
      MkNode("Reshape", <<1, 2, 1, 4>>, <<"join", "shape">>, <<"window">>),
      MkNode("Split", <<>>, <<"join">>, <<"prefix", "next_state">>),
      MkNode("Conv", <<>>, <<"window", weight>>, <<"conv">>)>>
Kernel == MkNode("Reshape", <<2, 1, 1, 4>>, <<"flat", "shape">>, <<"kernel">>)

Convolutions ==
    {[nodes |-> ns, outputs |-> {"conv", "next_state"} \cup inner] :
        ns \in {Convolution("weight"), <<Kernel>> \o Convolution("kernel")},
        inner \in SUBSET {"join", "window", "prefix"}}

MCGraphs == Chains \cup Convolutions

MCPasses == <<"SigmoidMul", "MatMulAdd", "QwenDepthwiseConv", "Identity", "ReshapeChain",
              "NoOp", "DeadNode", "StateOutputAlias">>
MCTargets == {<<4, 1>>, <<2, 2>>}
MCCopyTargets == {<<4, 1>>, <<0, -1>>}
=============================================================================
