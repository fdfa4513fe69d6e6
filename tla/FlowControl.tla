---------------------------- MODULE FlowControl ----------------------------
(***************************************************************************)
(* The send windows of the http2 server (flow.go; processWindowUpdate,     *)
(* processSettingInitialWindowSize and processHeaders of server.go; the    *)
(* part of writesched.go that cuts DATA to the windows).                   *)
(*                                                                         *)
(* A window is an int32: flow.add computes the room that is left in int32  *)
(* too, so the arithmetic here wraps at the width MaxWindow stands for.    *)
(***************************************************************************)
EXTENDS Integers

CONSTANTS
  Streams,    \* the streams the client may open
  MaxWindow,  \* 2^31-1, the largest int32; smaller in the runs
  Default,    \* initialWindowSize, 65535
  MaxFrame,   \* writeScheduler.maxFrameSize
  MaxData     \* bound: the largest write of a handler

ASSUME SizesAssumption ==
  /\ MaxWindow \in Nat \ {0}
  /\ Default \in 0..MaxWindow
  /\ MaxFrame \in 1..MaxWindow
  /\ MaxData \in Nat

VARIABLES
  stage,    \* of a stream: in sc.streams when open, else how it left them
  initial,  \* sc.initialWindowSize
  conn,     \* sc.flow.n
  win,      \* st.flow.n, which stays what it was when the stream is closed
  dead,     \* the connection is going away: no more DATA is written
  queue,    \* bytes of the DATA frame a stream has queued
  handlers, \* the streams whose handler may still hand over DATA
  lost      \* history: bytes paid for DATA that was skipped

vars == <<stage, initial, conn, win, dead, queue, handlers, lost>>

Modulus == 2 * (MaxWindow + 1)

\* int32 arithmetic, for results less than one modulus out of range
Wrap(n) ==
  IF n > MaxWindow THEN n - Modulus
  ELSE IF n < -(MaxWindow + 1) THEN n + Modulus ELSE n

---------------------------------------------------------------------------
(* flow.go *)

\* Mutation: f.conn is not looked at.
AvailableOnStream(s) == win[s]

\* flow.available
Available(s) == IF conn < win[s] THEN conn ELSE win[s]

\* Mutation: a window may not become full.
AddNeverFull(w, n) == n < Wrap(MaxWindow - w)

\* flow.add: whether it returns true, and the window it leaves then
AddOK(w, n) == n <= Wrap(MaxWindow - w)
Added(w, n) == Wrap(w + n)

Open == {s \in Streams : stage[s] = "open"}

---------------------------------------------------------------------------

Init ==
  /\ stage    = [s \in Streams |-> "idle"]
  /\ initial  = Default
  /\ conn     = Default
  /\ win      = [s \in Streams |-> 0]
  /\ dead     = FALSE
  /\ queue    = [s \in Streams |-> 0]
  /\ handlers = {}
  /\ lost     = [s \in Streams |-> 0]

\* closeStream of a stream that is reset or refused: it leaves sc.streams and
\* forgetStream empties its queue.  A handler whose frame was there gets an
\* error, which its bufio.Writer keeps; one that is just handing over a frame,
\* or is going to, still does so.
CloseStream(s, how) ==
  /\ stage'    = [stage EXCEPT ![s] = how]
  /\ queue'    = [queue EXCEPT ![s] = 0]
  /\ handlers' = IF queue[s] = 0 THEN handlers ELSE handlers \ {s}

\* processHeaders: a new stream's window starts at sc.initialWindowSize.
ProcessHeaders(s) ==
  /\ ~dead /\ stage[s] = "idle"
  /\ stage' = [stage EXCEPT ![s] = "open"]
  /\ win' = [win EXCEPT ![s] = IF AddOK(0, initial) THEN Added(0, initial) ELSE 0]
  /\ handlers' = handlers \cup {s}
  /\ UNCHANGED <<initial, conn, dead, queue, lost>>

\* processWindowUpdate for a stream; one that is not open is ignored.  A
\* window that cannot take the increment is a StreamError: resetStream.
WindowUpdate(s, n) ==
  /\ ~dead /\ stage[s] = "open"
  /\ IF AddOK(win[s], n)
     THEN win' = [win EXCEPT ![s] = Added(@, n)] /\ UNCHANGED <<stage, queue, handlers>>
     ELSE CloseStream(s, "refused") /\ UNCHANGED win
  /\ UNCHANGED <<initial, conn, dead, lost>>

\* processWindowUpdate for the connection; goAwayFlowError when refused
ConnWindowUpdate(n) ==
  /\ ~dead
  /\ IF AddOK(conn, n)
     THEN conn' = Added(conn, n) /\ UNCHANGED dead
     ELSE dead' = TRUE /\ UNCHANGED conn
  /\ UNCHANGED <<stage, initial, win, queue, handlers, lost>>

\* processSettingInitialWindowSize: the streams come in map order, and the
\* first that refuses leaves the ones before it moved and ends the connection.
InitialWindowSize(val) ==
  LET growth  == Wrap(val - initial)
      refuses == {s \in Open : ~AddOK(win[s], growth)}
      Grown(m) == [s \in Streams |-> IF s \in m THEN Added(win[s], growth)
                                                ELSE win[s]]
  IN
  /\ ~dead
  /\ initial' = val
  /\ IF refuses = {}
     THEN win' = Grown(Open) /\ UNCHANGED dead
     ELSE /\ dead' = TRUE
          /\ \E moved \in SUBSET (Open \ refuses) : win' = Grown(moved)
  /\ UNCHANGED <<stage, conn, queue, handlers, lost>>

\* serve queues a DATA frame of a handler, which blocks until it is written:
\* at most one is in a stream's queue.  A frame that waited in wantWriteFrameCh
\* while its stream was reset is queued like any other; it is the last, since
\* stream.cw tells its handler of the reset.
QueueData(s, n) ==
  /\ s \in handlers /\ queue[s] = 0
  /\ queue' = [queue EXCEPT ![s] = n]
  /\ handlers' = IF stage[s] = "open" THEN handlers ELSE handlers \ {s}
  /\ UNCHANGED <<stage, initial, conn, win, dead, lost>>

Smaller(m, n) == IF m < n THEN m ELSE n

\* Mutation: the length of the queued frame is not looked at.
WritableUnqueued(s) == Smaller(Available(s), MaxFrame)

\* writeScheduler.streamWritableBytes
Writable(s) == Smaller(Smaller(Available(s), MaxFrame), queue[s])

\* startFrameWrite of the last frame of a response: closeStream
Finish(s) ==
  /\ stage'    = [stage EXCEPT ![s] = "ended"]
  /\ handlers' = handlers \ {s}

\* writeScheduler.take and takeFrom pick a stream that can send and cut its
\* frame to what the windows and the frame size allow; flow.take pays for it.
Pay(s) ==
  /\ ~dead /\ Writable(s) > 0
  /\ win'   = [win EXCEPT ![s] = @ - Writable(s)]
  /\ conn'  = conn - Writable(s)
  /\ queue' = [queue EXCEPT ![s] = @ - Writable(s)]
  /\ UNCHANGED <<initial, dead>>

\* ... and startFrameWrite writes it; the last of a response closes the stream.
TakeFrom(s) ==
  /\ Pay(s) /\ stage[s] = "open"
  /\ \/ UNCHANGED <<stage, handlers>>
     \/ queue[s] = Writable(s) /\ Finish(s)
  /\ UNCHANGED lost

\* ... or skips it, as the stream was reset: it is paid for and not sent.
SkipFrom(s) ==
  /\ Pay(s) /\ stage[s] # "open"
  /\ lost' = [lost EXCEPT ![s] = @ + Writable(s)]
  /\ UNCHANGED <<stage, handlers>>

\* A response ends with a frame that costs nothing: its header, or no DATA.
EndStream(s) ==
  /\ ~dead /\ stage[s] = "open" /\ queue[s] = 0
  /\ Finish(s)
  /\ UNCHANGED <<initial, conn, win, dead, queue, lost>>

\* The client resets the stream, or sends a frame that is an error of it.
ResetStream(s) ==
  /\ stage[s] = "open"
  /\ CloseStream(s, "reset")
  /\ UNCHANGED <<initial, conn, win, dead, lost>>

Increments == 1..MaxWindow
Sizes      == 0..MaxWindow   \* Setting.Valid lets no other through

Next ==
  \/ \E s \in Streams :
       ProcessHeaders(s) \/ TakeFrom(s) \/ SkipFrom(s) \/ EndStream(s) \/ ResetStream(s)
  \/ \E s \in Streams, n \in Increments : WindowUpdate(s, n)
  \/ \E s \in Streams, n \in 1..MaxData : QueueData(s, n)
  \/ \E n \in Increments : ConnWindowUpdate(n)
  \/ \E val \in Sizes : InitialWindowSize(val)

Spec == Init /\ [][Next]_vars

---------------------------------------------------------------------------
(* Properties *)

\* Every variable keeps its type, windows within int32.
TypeOK ==
  /\ stage    \in [Streams -> {"idle", "open", "ended", "reset", "refused"}]
  /\ initial  \in Sizes
  /\ conn     \in -(MaxWindow + 1)..MaxWindow
  /\ win      \in [Streams -> -(MaxWindow + 1)..MaxWindow]
  /\ dead     \in BOOLEAN
  /\ queue    \in [Streams -> 0..MaxData]
  /\ handlers \in SUBSET Streams
  /\ lost     \in [Streams -> 0..MaxData]

\* The connection's window is never overdrawn, and a stream's is below zero
\* only by what was sent before the client made its windows smaller: by no
\* more than what fits between the new initial size and the largest one.
NoOverdraft ==
  ~dead => /\ conn >= 0
           /\ \A s \in Open : win[s] < 0 => initial - win[s] <= MaxWindow

\* The int32 windows are the integers they stand for: nothing wraps, DATA is
\* never sent beyond what the client granted, a new initial size reaches every
\* open stream or ends the connection, what the client may grant is taken
\* unless the window is below zero, and the connection's window shrinks by
\* what is sent, and beside it by one frame for each stream that was reset.
Windows ==
  INSTANCE Http2Windows
  WITH win <- [s \in Streams |-> IF stage[s] = "open" THEN win[s] ELSE 0]
ImplementsWindows == Windows!Spec
=============================================================================
