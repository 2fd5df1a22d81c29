---------------------------- MODULE GraphMeaning ----------------------------
(***************************************************************************)
(* What the passes of GraphPasses promise of the outputs: their meaning, a *)
(* term over the sources, is the same after every call.                    *)
(***************************************************************************)
EXTENDS GraphPasses

(***************************************************************************)
(* The meaning of a value: a term over the sources in the vocabulary of    *)
(* the operators the passes start from, beside its dimensions.  A reshape  *)
(* keeps the elements; SiLU, Gemm and the fused convolution stand for what *)
(* they replace; the operands of Mul and Add commute.                      *)
(***************************************************************************)
RECURSIVE Elements(_)
Meaning(v) == <<Elements(v), dims[v]>>
Elements(v) ==
    IF v \in Source THEN <<v>>
    ELSE IF alias[v] # NoValue THEN Elements(alias[v])
    ELSE LET n == producer[v]
             in(i) == Meaning(ins[n][i])
             join == <<<<"Concat", <<in(1), in(2)>>>>, <<1, dims[ins[n][1]][2], 4>>>>
             at == CHOOSE i \in 1 .. Len(outs[n]) : outs[n][i] = v
         IN CASE op[n] \in {"Identity", "Reshape"} -> Elements(ins[n][1])
              [] op[n] = "Sigmoid" -> <<"Sigmoid", in(1)>>
              [] op[n] = "SiLU" ->
                    <<"Mul", {in(1), <<<<"Sigmoid", in(1)>>, dims[ins[n][1]]>>}>>
              [] op[n] \in {"Mul", "Add"} -> <<op[n], {in(1), in(2)}>>
              [] op[n] = "MatMul" -> <<"MatMul", <<in(1), in(2)>>>>
              [] op[n] = "Gemm" ->
                    <<"Add", {<<<<"MatMul", <<in(1), in(2)>>>>, dims[v]>>, in(3)}>>
              [] op[n] = "Transpose" ->
                    IF attr[n] = [i \in 1 .. Len(attr[n]) |-> i] THEN Elements(ins[n][1])
                    ELSE <<"Transpose", in(1)>>
              [] op[n] = "Concat" -> join[1]
              [] op[n] = "Conv" -> <<"Conv", <<Elements(ins[n][1]), in(2)>>>>
              [] op[n] = "Split" -> <<"Split", <<in(1), at>>>>
              [] op[n] = "QwenDepthwiseConvState" ->
                    IF at = 1 THEN <<"Conv", <<join[1], in(3)>>>>
                    ELSE <<"Split", <<join, at - 1>>>>

\* Every call of every pass leaves each graph output with the elements and the
\* dimensions it had: the pipeline may stop after any step and the outputs that
\* are then computed are those of the model.  A call that stops for its data types
\* is excepted: it may leave an output resized, or the operator that makes it not
\* the one the indexes name.
OutputsKeepMeaning ==
    [][status' \notin {"no kernel", "metadata"} =>
         \A v \in outputs : Meaning(v)' = Meaning(v)]_vars
=============================================================================
