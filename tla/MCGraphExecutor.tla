--------------------------- MODULE MCGraphExecutor ----------------------------
EXTENDS GraphExecutor, TLC

(* Four nodes: a diamond whose sink reads one branch twice; a fork of three
   nodes that all read a persistent input; a node with two outputs; a chain
   stored in reverse; and two independent chains whose indices interleave. *)
Graph4(o, r, p) == [owner |-> o, reads |-> r, producer |-> p, kept |-> {9}]
Single == (0 :> 0) @@ (1 :> 1) @@ (2 :> 2) @@ (3 :> 3) @@ (9 :> None)
LargeGraphs ==
  {Graph4(<<1, 2, 3, 3, 3>>, <<0, 0, 1, 2, 2>>, Single),
   Graph4(<<0, 1, 2, 3, 3>>, <<9, 9, 9, 0, 1>>, Single),
   Graph4(<<0, 2, 2, 3, 3>>, <<9, 0, 1, 1, 2>>, [Single EXCEPT ![1] = 0]),
   Graph4(<<0, 1, 2, 3, 3>>, <<1, 2, 3, 9, 9>>, Single),
   Graph4(<<2, 3, 3, 0, 1>>, <<0, 1, 1, 9, 9>>, Single)}

(* Every graph of three nodes and three input slots, cycles included, beside a
   fourth node that reads a graph input twice: value i is node i's output and 9
   is a graph input. *)
SmallGraphs ==
  {[owner |-> o \o <<3, 3>>, reads |-> r \o <<9, 9>>, producer |-> Single, kept |-> {2}] :
     o \in {f \in [1..3 -> 0..2] : f[1] <= f[2] /\ f[2] <= f[3]}, r \in [1..3 -> {0, 1, 2, 9}]}
AllGraphs == LargeGraphs \cup SmallGraphs
===============================================================================
