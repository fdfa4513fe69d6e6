--------------------------- MODULE RequestBodies ---------------------------
(***************************************************************************)
(* What a handler is promised of the bodies of its requests: the           *)
(* abstraction of RequestBody.                                             *)
(*                                                                         *)
(* It reads what the client sent, in order and nothing twice.  It is told  *)
(* of the end only when it has read all there is and the client has said   *)
(* that this is all; otherwise it is told of an error, at any time.        *)
(***************************************************************************)
EXTENDS Naturals, Sequences

CONSTANT Streams

VARIABLES
  sent,    \* the bytes a client has sent of each body; byte i is the number i
  whole,   \* the bodies the client has sent to their end
  read,    \* what was read of each body
  outcome  \* how the reading ended

vars == <<sent, whole, read, outcome>>

Init ==
  /\ sent    = [s \in Streams |-> 0]
  /\ whole   = {}
  /\ read    = [s \in Streams |-> <<>>]
  /\ outcome = [s \in Streams |-> "none"]

Send(s) ==
  /\ s \notin whole
  /\ sent'[s] >= sent[s] /\ sent' = [sent EXCEPT ![s] = sent'[s]]
  /\ whole' \in {whole, whole \cup {s}}
  /\ UNCHANGED <<read, outcome>>

\* A read hands over some bytes, the verdict, or both.
Read(s) ==
  /\ outcome[s] = "none"
  /\ \E n \in 0..sent[s] - Len(read[s]) :
       read' = [read EXCEPT ![s] = @ \o [i \in 1..n |-> Len(@) + i]]
  /\ \/ UNCHANGED outcome
     \/ outcome' = [outcome EXCEPT ![s] = "error"]
     \/ /\ s \in whole /\ Len(read'[s]) = sent[s]
        /\ outcome' = [outcome EXCEPT ![s] = "EOF"]
  /\ UNCHANGED <<sent, whole>>

Next == \E s \in Streams : Send(s) \/ Read(s)

Spec == Init /\ [][Next]_vars
=============================================================================
