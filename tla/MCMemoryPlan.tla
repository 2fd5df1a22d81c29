----------------------------- MODULE MCMemoryPlan -----------------------------
EXTENDS MemoryPlan, TLC

(* Value i is node i - 1's output and 9 is the graph input, a seed. *)
Own == [n \in 0..3 |-> {n + 1}]
All5 == {1, 2, 3, 4, 9}
Grouping(a, b, c, d) == (1 :> a) @@ (2 :> b) @@ (3 :> c) @@ (4 :> d) @@ (9 :> 5)

(* Every graph of three nodes that read one or two values, in any stored order,
   cycles included, with outputs of different sizes; node 3 writes nothing. *)
Reads2 == {S \in SUBSET {1, 2, 3, 9} : Cardinality(S) \in {1, 2}}
SmallGraphs ==
  {[ins |-> i @@ (3 :> {2}), outs |-> [Own EXCEPT ![3] = {}], group |-> Grouping(1, 2, 3, 4), at |-> [v \in All5 |-> 0],
    size |-> (1 :> 3) @@ (2 :> s) @@ (3 :> 2) @@ (4 :> 0) @@ (9 :> 1), seeds |-> {9}, results |-> r] :
     i \in {f \in [0..2 -> Reads2] : \A n \in 0..2 : n + 1 \notin f[n]},
     s \in {1, 4}, r \in {{1}, {3}, {2, 3}}}

(* Views: node 1's output is a view of node 0's, at an offset, and the group of
   the graph input has a view of its own. *)
ViewGraphs ==
  {[ins |-> (0 :> {9}) @@ (1 :> {1}) @@ (2 :> a) @@ (3 :> b), outs |-> Own,
    group |-> g, at |-> [v \in All5 |-> IF v = 2 THEN 1 ELSE 0],
    size |-> (1 :> 2) @@ (2 :> 2) @@ (3 :> 3) @@ (4 :> 1) @@ (9 :> 1), seeds |-> {9}, results |-> r] :
     a \in {{1}, {2}, {9}}, b \in {{2, 3}, {3}, {1, 3}, {2}},
     g \in {Grouping(1, 1, 3, 4), Grouping(5, 5, 3, 4), Grouping(4, 4, 2, 3)}, r \in {{4}, {3, 4}, {2}}}

(* Two outputs of one node, one of them never read, and external state (9, no
   seed) that a later node reads; sizes that overflow size_t in every way. *)
WideGraphs ==
  {[ins |-> (0 :> {}) @@ (1 :> {1}) @@ (2 :> {3, 9}) @@ (3 :> {}),
    outs |-> (0 :> {1, 2}) @@ (1 :> {3}) @@ (2 :> {4}) @@ (3 :> {}),
    group |-> Grouping(1, 2, 3, 4), at |-> [v \in All5 |-> o],
    size |-> (1 :> s) @@ (2 :> t) @@ (3 :> u) @@ (4 :> 1) @@ (9 :> 1), seeds |-> {}, results |-> {4}] :
     s \in {1, 2, 6}, t \in {0, 2, 3}, u \in {1, 3, 5}, o \in {0, 1, 3}}

AllGraphs == SmallGraphs \cup ViewGraphs \cup WideGraphs
===============================================================================
