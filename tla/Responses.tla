----------------------------- MODULE Responses -----------------------------
(***************************************************************************)
(* What a client may see of the responses on one HTTP/2 connection: the    *)
(* abstraction of ServerConn.                                              *)
(*                                                                         *)
(* Each response is its header, then its body in order, then its end.  It  *)
(* ends only when all that the handler gave has been delivered; until then *)
(* it may stop short, as it does when the stream or the connection breaks. *)
(***************************************************************************)
EXTENDS Naturals

CONSTANTS
  Streams,  \* the requests
  MaxData   \* the largest piece a handler gives at once

VARIABLE wire  \* for each stream, the phase of its response and two counts of bytes

Silent == [phase |-> "silent", given |-> 0, delivered |-> 0]

Init == wire = [s \in Streams |-> Silent]

\* The handler gives n bytes to be delivered.
Give(s, n) ==
  /\ wire[s].phase # "ended"
  /\ wire' = [wire EXCEPT ![s].given = @ + n]

Header(s) ==
  /\ wire[s].phase = "silent"
  /\ wire' = [wire EXCEPT ![s].phase = "header"]

\* A response without a body
HeaderOnly(s) ==
  /\ wire[s] = Silent
  /\ wire' = [wire EXCEPT ![s].phase = "ended"]

Body(s, n) ==
  /\ wire[s].phase = "header" /\ wire[s].delivered + n <= wire[s].given
  /\ wire' = [wire EXCEPT ![s].delivered = @ + n]

\* The last piece of the body, which may be empty
End(s) ==
  /\ wire[s].phase = "header"
  /\ wire' = [wire EXCEPT ![s].delivered = wire[s].given, ![s].phase = "ended"]

Next ==
  \E s \in Streams :
    \/ Header(s)
    \/ HeaderOnly(s)
    \/ End(s)
    \/ \E n \in 1..MaxData : Give(s, n) \/ Body(s, n)

Spec == Init /\ [][Next]_wire
=============================================================================
