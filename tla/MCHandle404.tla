---------------------------- MODULE MCHandle404 ----------------------------
(* A small instance of Handle404 for TLC: requests are interchangeable. *)
EXTENDS Handle404, TLC

Symmetry == Permutations(Requests)
=============================================================================
