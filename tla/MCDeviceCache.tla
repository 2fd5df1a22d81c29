---------------------------- MODULE MCDeviceCache -----------------------------
EXTENDS DeviceCache, TLC

Part(storage, offset, bytes) == [storage |-> storage, offset |-> offset, bytes |-> bytes]
(* A tensor and a part of it; one view of two tensors; two tensors of one size,
   which can alias, copy and exchange; a state with history and its new row; a
   tensor and both its halves; two tensors of one size that overlap. *)
Nested == [a |-> Part("s", 0, 2), b |-> Part("s", 0, 1)]
SameView == [a |-> Part("s", 0, 1), b |-> Part("s", 0, 1)]
Equal == [a |-> Part("s", 0, 1), b |-> Part("z", 0, 1)]
History == [a |-> Part("s", 0, 2), b |-> Part("z", 0, 1)]
Halves == [a |-> Part("s", 0, 2), b |-> Part("s", 0, 1), c |-> Part("s", 1, 1)]
Shifted == [a |-> Part("s", 0, 2), b |-> Part("s", 1, 2)]
SmallLayouts == {Nested, SameView, Equal, History, Halves, Shifted}

Calls(v) == IF v = SameView THEN 2 ELSE 1
Exports(v) == IF v \in {SameView, History} THEN 1 ELSE 0
BlockSymmetry == Permutations(Blocks)
===============================================================================
