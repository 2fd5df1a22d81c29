--------------------------- MODULE MCStatefulSession ---------------------------
EXTENDS StatefulSession, TLC

(* s and t are states, u and v outputs, w a tensor in between. *)
AllTensors == {"s", "t", "u", "v", "w"}
AllStates == {"s", "t"}
Five(a, b, c, d, e) == ("s" :> a) @@ ("t" :> b) @@ ("u" :> c) @@ ("v" :> d) @@ ("w" :> e)
Apart == (1 :> 0) @@ (2 :> 10) @@ (3 :> 20) @@ (4 :> 30) @@ (5 :> 40)
Own == Five(<<1, 0>>, <<2, 0>>, <<3, 0>>, <<4, 0>>, <<5, 0>>)
B(in, out, append, stable) == [input |-> in, output |-> out, append |-> append, stable |-> stable]
Op(src, dst, kind) == [src |-> src, dst |-> dst, kind |-> kind]
Case(b, v, r, c, f, n, bs, p, x) ==
  [base |-> b, view |-> v, rows |-> r, cols |-> c, frozen |-> f, nodes |-> n, binds |-> bs,
   plan |-> p, device |-> FALSE, shown |-> {}, calls |-> x, space |-> 0..49]
One == [x \in AllTensors |-> 1]
Two == [x \in AllTensors |-> 2]
Kernels == <<Op("s", "u", "compute"), Op("t", "v", "compute")>>

(* Kernels write the outputs; states are copied, exchanged or appended to. *)
PlainCases ==
  {Case(Apart, Own, r, IF a THEN Five(3, 2, 1, 2, 1) ELSE Two, {}, Kernels, <<B("s", "u", a, x), B("t", "v", FALSE, y)>>, p, 1) :
     r \in {One, Two}, a, x, y, p \in BOOLEAN}

(* Outputs that are other states, views of them, or the same tensor; a constant;
   storages that wrap the same addresses; an append from its own row. *)
AliasCases ==
  {Case(Apart, Own, One, Two, {}, Kernels, bs, p, 1) : p \in BOOLEAN,
     bs \in {<<B("s", "t", FALSE, FALSE), B("t", "s", FALSE, FALSE)>>, <<B("s", "u", FALSE, FALSE), B("t", "u", FALSE, FALSE)>>,
             <<B("s", "t", FALSE, FALSE), B("t", "u", FALSE, FALSE)>>}}
  \cup {Case(Apart, Five(<<1, 0>>, <<2, 0>>, <<2, 0>>, <<1, 0>>, <<5, 0>>), One, Two, {},
             <<Op("t", "u", k), Op("s", "v", k)>>, <<B("s", "u", FALSE, FALSE), B("t", "v", FALSE, FALSE)>>, TRUE, 1) :
          k \in {"view", "whole"}}
  \cup {Case(Apart, Five(<<1, 0>>, <<2, 0>>, <<5, 0>>, <<4, 0>>, <<5, 0>>), One, Two, {"w"},
             <<Op("w", "u", "whole"), Op("t", "v", "compute")>>, <<B("s", x, FALSE, FALSE), B("t", "v", FALSE, y)>>, p, 1) :
          x \in {"u", "w"}, y, p \in BOOLEAN}
  \cup {Case((1 :> 0) @@ (2 :> 10) @@ (3 :> x) @@ (4 :> y) @@ (5 :> 40), Own, One, Five(3, 3, 1, 1, 1), {}, <<>>,
             <<B("s", "u", TRUE, FALSE), B("t", "v", TRUE, FALSE)>>, FALSE, 1) : x \in {0, 10, 12, 2}, y \in {0, 2, 30}}

(* States in one storage, and in storages that wrap the same addresses. *)
OverlapCases ==
  {Case((1 :> 0) @@ (2 :> x) @@ (3 :> 20) @@ (4 :> 30) @@ (5 :> 40), Five(<<1, 0>>, y, <<3, 0>>, <<4, 0>>, <<5, 0>>),
        One, Two, {}, Kernels, <<B("s", "u", FALSE, TRUE), B("t", "v", FALSE, TRUE)>>, p, 0) :
     x \in {1, 10}, y \in {<<1, 1>>, <<2, 0>>}, p \in BOOLEAN}

(* A stable or planned session may bind a view of what a kernel wrote. *)
ViewCases ==
  {Case(Apart, Five(<<1, 0>>, <<2, 0>>, <<5, 0>>, <<4, 0>>, <<5, 0>>), One, Two, {},
        <<Op("s", "w", "compute"), Op("w", "u", k), Op("t", "v", "compute")>>,
        <<B("s", "u", FALSE, x), B("t", "v", FALSE, FALSE)>>, ~x, 1) : k \in {"view", "whole"}, x \in BOOLEAN}

(* The same on a device: every tensor has a storage of its own, but for a state that is its
   own output, and five blocks follow the storages. *)
AllBlocks == 6..10
OnDeviceCase(v, c, f, n, bs, sh, x) ==
  [Case(Apart @@ [b \in AllBlocks |-> 10 * (b - 1)], v, One, c, f, n, bs, FALSE, x) EXCEPT
     !.device = TRUE, !.shown = sh, !.space = 0..99]
DeviceCases ==
  {OnDeviceCase(Own, IF a THEN Five(3, 2, 1, 2, 1) ELSE Two, {}, Kernels, <<B("s", "u", a, x), B("t", "v", FALSE, y)>>, {"v"}, 1) :
     a, x, y \in BOOLEAN}
  \cup {OnDeviceCase(Own, Two, {}, <<Op("t", "u", k), Op("s", "v", "view")>>, <<B("s", "u", FALSE, x), B("t", "v", FALSE, y)>>, {}, 1) :
          k \in {"view", "whole"}, x, y \in BOOLEAN}
  \cup {OnDeviceCase(Own, Two, {}, <<Op("s", "w", "compute"), Op("w", "u", k), Op("t", "v", "compute")>>,
                     <<B("s", "u", FALSE, x), B("t", "v", FALSE, FALSE)>>, IF x \/ k = "whole" THEN {"w"} ELSE {"u"}, 1) :
          k \in {"view", "whole"}, x \in BOOLEAN}
  \cup {OnDeviceCase(Own, Two, {"w"}, <<Op("w", "u", "whole"), Op("s", "v", "compute")>>, <<B("s", x, FALSE, FALSE), B("t", "v", FALSE, y)>>, {}, 1) :
          x \in {"u", "w"}, y \in BOOLEAN}
  \cup {OnDeviceCase(Five(<<1, 0>>, <<2, 0>>, <<1, 0>>, <<4, 0>>, <<5, 0>>), Two, {}, <<Op("s", "u", k), Op("t", "v", "compute")>>,
                     <<B("t", "v", FALSE, x), B("s", "u", FALSE, FALSE)>>, {}, 1) : k \in {"view", "whole"}, x \in BOOLEAN}
  \cup {OnDeviceCase(Own, Two, {}, Kernels, <<B("s", "u", FALSE, TRUE), B("t", "u", FALSE, TRUE)>>, {}, 0)}

AllCases == PlainCases \cup AliasCases \cup OverlapCases \cup ViewCases \cup DeviceCases

(* The same graphs, when storages are exchanged. *)
ExchangeCases ==
  {Case(Apart, Five(<<1, 0>>, <<2, 0>>, <<5, 0>>, <<4, 0>>, <<5, 0>>), One, Two, {},
        <<Op("s", "w", "compute"), Op("w", "u", k)>>, <<B("s", "u", FALSE, FALSE)>>, FALSE, 0) : k \in {"view", "whole"}}
===============================================================================
