----------------------------- MODULE MCThreadPool -----------------------------
(* Small instances of ThreadPool for TLC. *)
EXTENDS ThreadPool, TLC

(* Threads are interchangeable; used only by runs without liveness. *)
ThreadSymmetry == Permutations(Workers) \cup Permutations(Clients)
===============================================================================
