-------------------------- MODULE Http2Connection --------------------------
(***************************************************************************)
(* What the client of one HTTP/2 connection is promised of its life: the   *)
(* abstraction of ConnLifecycle.                                           *)
(*                                                                         *)
(* Requests are taken up after the greetings and until the connection is   *)
(* closed, in the order of their streams.  A GOAWAY names the last stream  *)
(* that may have been taken up; what the client began after that one, it   *)
(* may safely send again elsewhere.                                        *)
(***************************************************************************)
EXTENDS Integers

CONSTANT Streams  \* stream identifiers: positive integers

VARIABLES
  phase,  \* greeting, open, goingAway, closed
  served, \* the streams whose requests were handed to a handler
  last    \* the stream named by the GOAWAY frame

vars == <<phase, served, last>>

Unannounced == -1

Init ==
  /\ phase  = "greeting"
  /\ served = {}
  /\ last   = Unannounced

Greet == phase = "greeting" /\ phase' = "open" /\ UNCHANGED <<served, last>>

Serve(s) ==
  /\ phase \in {"open", "goingAway"}
  /\ \A t \in served : t < s
  /\ last # Unannounced => s <= last
  /\ served' = served \cup {s}
  /\ UNCHANGED <<phase, last>>

GoAway ==
  /\ phase \in {"greeting", "open"}
  /\ phase' = "goingAway"
  /\ UNCHANGED served
  /\ last' = last \/ \A t \in served : t <= last'

Announce ==
  /\ phase = "goingAway" /\ last = Unannounced
  /\ \A t \in served : t <= last'
  /\ UNCHANGED <<phase, served>>

Close == phase' = "closed" /\ UNCHANGED <<served, last>>

Next ==
  \/ Greet
  \/ \E s \in Streams : Serve(s)
  \/ GoAway
  \/ Announce
  \/ Close

Spec == Init /\ [][Next]_vars
=============================================================================
