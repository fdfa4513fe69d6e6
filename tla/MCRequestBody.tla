--------------------------- MODULE MCRequestBody ---------------------------
(***************************************************************************)
(* Two uploads that share the windows of one connection: one longer than   *)
(* the window, whose Content-Length may be wrong, and one of a byte.       *)
(***************************************************************************)
EXTENDS RequestBody, TLC

CONSTANTS s1, s2

Bounds   == [s \in Streams |-> IF s = s1 THEN 3 ELSE 1]
Declares == [s \in Streams |-> IF s = s1 THEN {2} ELSE {}]
=============================================================================
