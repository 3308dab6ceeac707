---------------------------- MODULE MCThreadPool ----------------------------
(***************************************************************************)
(* ThreadPool with few workers and connections, both interchangeable.      *)
(***************************************************************************)
EXTENDS ThreadPool, TLC

PoolSymmetry == Permutations(Workers) \cup Permutations(Conns)
=============================================================================
