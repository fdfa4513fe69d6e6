--------------------------- MODULE MCFlowControl ---------------------------
(* Two interchangeable streams and windows of three bits. *)
EXTENDS FlowControl, TLC

Symmetry == Permutations(Streams)
=============================================================================
