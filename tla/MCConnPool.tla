----------------------------- MODULE MCConnPool -----------------------------
(* Constants for model checking ConnPool. *)
EXTENDS ConnPool, TLC

PoolSymmetry == Permutations(Conns) \cup Permutations(Keys)
=============================================================================
