---------------------------- MODULE Http2Windows ----------------------------
(***************************************************************************)
(* What a sender of DATA makes of its peer's grants on one HTTP/2          *)
(* connection, with windows that are plain integers: the abstraction of    *)
(* FlowControl.                                                            *)
(*                                                                         *)
(* A window grows by what the peer grants and shrinks by what is sent; a   *)
(* change of the initial size moves the window of every open stream by the *)
(* same amount, below zero if need be; nothing is sent beyond a window,    *)
(* and no window ever exceeds the largest size.                            *)
(*                                                                         *)
(* A grant is refused, with the stream or the connection it is for, only   *)
(* when it would make a window exceed the largest size.  The sender falls  *)
(* short of this in two ways: it refuses whatever comes for a window that  *)
(* is below zero (Refusable), and it may lose some of the connection's     *)
(* window, once for each stream that was reset (Lose).                     *)
(***************************************************************************)
EXTENDS Integers

CONSTANTS
  Streams,    \* the streams the peer may open
  MaxWindow,  \* the largest size of a window, 2^31-1
  Default,    \* the size windows have before any setting arrives
  MaxData     \* the largest piece of data handed over for sending

VARIABLES
  stage,   \* idle, open, or how it was closed: ended, reset or refused
  initial, \* the size a new stream's window has
  conn,    \* what may still be sent on the connection
  win,     \* what may still be sent on each open stream, 0 for the others
  dead,    \* the connection was given up
  lost     \* of the connection's window, by stream: what was spent and not sent

vars == <<stage, initial, conn, win, dead, lost>>

Init ==
  /\ stage   = [s \in Streams |-> "idle"]
  /\ initial = Default
  /\ conn    = Default
  /\ win     = [s \in Streams |-> 0]
  /\ dead    = FALSE
  /\ lost    = [s \in Streams |-> 0]

Open(s) ==
  /\ ~dead /\ stage[s] = "idle"
  /\ stage' = [stage EXCEPT ![s] = "open"]
  /\ win' = [win EXCEPT ![s] = initial]
  /\ UNCHANGED <<initial, conn, dead, lost>>

\* The window of a closed stream counts no more.
Close(s, how) ==
  /\ stage[s] = "open"
  /\ stage' = [stage EXCEPT ![s] = how]
  /\ win' = [win EXCEPT ![s] = 0]

\* The response is complete, or the peer resets the stream.
End(s)   == ~dead /\ Close(s, "ended") /\ UNCHANGED <<initial, conn, dead, lost>>
Reset(s) == Close(s, "reset") /\ UNCHANGED <<initial, conn, dead, lost>>

Refusable(w, n) == w < 0 \/ w + n > MaxWindow

Grant(s, n) ==
  /\ ~dead /\ stage[s] = "open" /\ win[s] + n <= MaxWindow
  /\ win' = [win EXCEPT ![s] = @ + n]
  /\ UNCHANGED <<stage, initial, conn, dead, lost>>

Refuse(s, n) ==
  /\ ~dead /\ Refusable(win[s], n)
  /\ Close(s, "refused")
  /\ UNCHANGED <<initial, conn, dead, lost>>

GrantConn(n) ==
  /\ ~dead /\ conn + n <= MaxWindow
  /\ conn' = conn + n
  /\ UNCHANGED <<stage, initial, win, dead, lost>>

RefuseConn(n) ==
  /\ ~dead /\ conn + n > MaxWindow
  /\ dead' = TRUE
  /\ UNCHANGED <<stage, initial, conn, win, lost>>

Opened == {s \in Streams : stage[s] = "open"}

Moved(streams, n) == [s \in Streams |-> win[s] + IF s \in streams THEN n ELSE 0]

Resize(size) ==
  /\ ~dead
  /\ \A s \in Opened : win[s] + (size - initial) <= MaxWindow
  /\ initial' = size
  /\ win' = Moved(Opened, size - initial)
  /\ UNCHANGED <<stage, conn, dead, lost>>

\* A new initial size that some window cannot take is the end, half-way.
RefuseSize(size) ==
  LET refusing == {s \in Opened : Refusable(win[s], size - initial)} IN
  /\ ~dead /\ refusing # {}
  /\ dead' = TRUE
  /\ initial' = size
  /\ \E streams \in SUBSET (Opened \ refusing) : win' = Moved(streams, size - initial)
  /\ UNCHANGED <<stage, conn, lost>>

\* DATA is sent, which may be the last of its stream.
Send(s, n) ==
  /\ ~dead /\ stage[s] = "open" /\ n <= win[s] /\ n <= conn
  /\ conn' = conn - n
  /\ \/ win' = [win EXCEPT ![s] = @ - n] /\ UNCHANGED stage
     \/ Close(s, "ended")
  /\ UNCHANGED <<initial, dead, lost>>

\* DATA of a stream that was closed under its writer is paid for and dropped.
Lose(s, n) ==
  /\ ~dead /\ stage[s] \in {"reset", "refused"} /\ n <= conn
  /\ lost[s] + n <= MaxData
  /\ conn' = conn - n
  /\ lost' = [lost EXCEPT ![s] = @ + n]
  /\ UNCHANGED <<stage, initial, win, dead>>

Sizes == 0..MaxWindow

Next ==
  \/ \E s \in Streams : Open(s) \/ End(s) \/ Reset(s)
  \/ \E s \in Streams, n \in 1..MaxWindow :
       Grant(s, n) \/ Refuse(s, n) \/ Send(s, n) \/ Lose(s, n)
  \/ \E n \in 1..MaxWindow : GrantConn(n) \/ RefuseConn(n)
  \/ \E size \in Sizes : Resize(size) \/ RefuseSize(size)

Spec == Init /\ [][Next]_vars
=============================================================================
