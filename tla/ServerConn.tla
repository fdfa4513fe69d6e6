----------------------------- MODULE ServerConn -----------------------------
(***************************************************************************)
(* How responses reach the wire of one http2 connection (server.go,        *)
(* writesched.go, write.go).                                               *)
(*                                                                         *)
(* Each handler runs on a goroutine and sends the frames of its response   *)
(* to the serve goroutine over wantWriteFrameCh.  serve queues them and    *)
(* starts a goroutine for each frame it takes (writeFrameAsync), which     *)
(* writes it, tells the handler, and wakes serve over wroteFrameCh.  One   *)
(* iteration of serve's select is one action here; the goroutines it       *)
(* starts, and the handlers, run between any two of them.                  *)
(*                                                                         *)
(* The windows are FlowControl's: here one window, the connection's,       *)
(* stands for both.  Request bodies matter only in that they end.          *)
(***************************************************************************)
EXTENDS Integers, Sequences, FiniteSets

CONSTANTS
  Streams,     \* the requests, one stream each
  None,        \* the stream of a frame that belongs to none
  Events,      \* what the client does besides sending requests
  WantCap,     \* capacity of wantWriteFrameCh: 8 in the code
  MaxFrame,    \* writeScheduler.maxFrameSize
  Window,      \* the connection's window at first
  MaxData,     \* bound: bytes in a handler's buffer
  MaxWrites,   \* bound: times a handler fills or flushes its buffer
  MaxControl   \* bound: SETTINGS and PING frames the client sends

ASSUME NoneAssumption == None \notin Streams

\* Requests with bodies, resets, errors of a stream and of the connection,
\* settings, pings, and leaving
AllEvents == {"body", "reset", "streamError", "connError", "settings", "ping", "leave"}

ASSUME EventsAssumption == Events \subseteq AllEvents
ASSUME SizesAssumption ==
  /\ WantCap \in Nat \ {0} /\ MaxFrame \in Nat \ {0}
  /\ Window \in Nat /\ MaxData \in Nat /\ MaxWrites \in Nat /\ MaxControl \in Nat

VARIABLES
  sc,       \* what the serve goroutine owns, wroteFrameCh and the writing goroutines;
            \* skipped, which counts the frames it skipped, is history
  h,        \* the handlers, with their responseWriterStates
  want,     \* wantWriteFrameCh
  gone,     \* the connection under it is closed
  control,  \* SETTINGS and PING frames received
  wire      \* the responses, as the client has them so far

vars == <<sc, h, want, gone, control, wire>>

---------------------------------------------------------------------------
(* Frames *)

Frame(kind, s, n, end, waits) ==
  [kind |-> kind, stream |-> s, n |-> n, end |-> end, waits |-> waits]

OfConn(kind) == Frame(kind, None, 0, FALSE, FALSE)

\* write100ContinueHeadersFrame and writeWindowUpdate are left out: they are
\* for requests with bodies.
NoCost(f) == f.kind # "data" \/ f.n = 0

---------------------------------------------------------------------------
(* The write scheduler *)

Smaller(m, n) == IF m < n THEN m ELSE n

\* writeScheduler.add
Add(c, f) ==
  IF f.stream = None THEN [c EXCEPT !.zero = Append(@, f)]
  ELSE [c EXCEPT !.sq[f.stream] = Append(@, f)]

Taken(f, c) == [frame |-> f, rest |-> c]

\* Mutation: the part of a DATA frame that is sent first ends the stream too.
TakeFromEnding(c, s) ==
  LET f       == Head(c.sq[s])
      allowed == Smaller(c.window, MaxFrame)
  IN
  IF ~NoCost(f) /\ f.n > allowed
  THEN Taken([f EXCEPT !.n = allowed, !.waits = FALSE],
             [c EXCEPT !.window = @ - allowed, !.sq[s][1].n = @ - allowed])
  ELSE Taken(f, [c EXCEPT !.window = @ - f.n, !.sq[s] = Tail(@)])

\* Mutation: only the size of a frame is limited.
TakeFromUnlimited(c, s) ==
  LET f == Head(c.sq[s]) IN
  IF f.n > MaxFrame
  THEN Taken([f EXCEPT !.n = MaxFrame, !.end = FALSE, !.waits = FALSE],
             [c EXCEPT !.window = @ - MaxFrame, !.sq[s][1].n = @ - MaxFrame])
  ELSE Taken(f, [c EXCEPT !.window = @ - f.n, !.sq[s] = Tail(@)])

\* writeScheduler.takeFrom: as much of a DATA frame as may be sent.
TakeFrom(c, s) ==
  LET f       == Head(c.sq[s])
      allowed == Smaller(c.window, MaxFrame)
  IN
  IF ~NoCost(f) /\ f.n > allowed
  THEN Taken([f EXCEPT !.n = allowed, !.end = FALSE, !.waits = FALSE],
             [c EXCEPT !.window = @ - allowed, !.sq[s][1].n = @ - allowed])
  ELSE Taken(f, [c EXCEPT !.window = @ - f.n, !.sq[s] = Tail(@)])

\* writeScheduler.take: first what belongs to no stream, then what costs
\* nothing, then DATA the window has room for; streams come in map order.
Take(c) ==
  LET queued == {s \in Streams : c.sq[s] # <<>>}
      free   == {s \in queued : NoCost(Head(c.sq[s]))}
  IN
  IF c.zero # <<>> THEN {Taken(Head(c.zero), [c EXCEPT !.zero = Tail(@)])}
  ELSE IF free # {} THEN {TakeFrom(c, s) : s \in free}
  ELSE IF c.window > 0 THEN {TakeFrom(c, s) : s \in queued}
  ELSE {}

---------------------------------------------------------------------------
(* Functions of the serve goroutine, from its state to its state *)

\* closeStream
CloseStream(c, s) == [c EXCEPT !.state[s] = "closed", !.sq[s] = <<>>]

\* A stream that ends while the client still sends is reset.  The frame is
\* only queued: one is being written.
EndStream(c, s) ==
  IF c.state[s] = "open"
  THEN CloseStream([Add(c, OfConn("rst")) EXCEPT !.reset = @ \cup {s}], s)
  ELSE CloseStream(c, s)

\* startFrameWrite.  A frame of a stream that was reset is skipped, and the
\* wakeup sent in its place blocks serve when the channel is full.
StartFrameWrite(c, f) ==
  LET started == [c EXCEPT !.writing = TRUE, !.flush = TRUE,
                           !.writers = Append(@, [frame |-> f, at |-> "write"])]
  IN
  IF f.stream # None /\ c.state[f.stream] = "closed"
  THEN IF f.stream \notin c.reset THEN [c EXCEPT !.serve = "panic"]
       ELSE IF c.wrote THEN [c EXCEPT !.serve = "stuck"]
       ELSE [c EXCEPT !.wrote = TRUE, !.skipped = @ + 1]
  ELSE IF f.end THEN EndStream(started, f.stream)
  ELSE started

\* scheduleFrameWrite: the states it may leave
Schedule(c) ==
  IF c.writing THEN {c}
  ELSE IF c.needGoAway
  THEN {StartFrameWrite([c EXCEPT !.needGoAway = FALSE], OfConn("goaway"))}
  ELSE IF c.needAck
  THEN {StartFrameWrite([c EXCEPT !.needAck = FALSE], OfConn("settingsAck"))}
  ELSE IF ~c.inGoAway /\ Take(c) # {}
  THEN {StartFrameWrite(t.rest, t.frame) : t \in Take(c)}
  ELSE IF c.flush
  THEN {[StartFrameWrite(c, OfConn("flush")) EXCEPT !.flush = FALSE]}
  ELSE {c}

---------------------------------------------------------------------------

Idle == [pc |-> "none", typed |-> FALSE, sentHeader |-> FALSE, done |-> FALSE,
         broken |-> FALSE, n |-> 0, writes |-> 0, reply |-> FALSE]

Responding == INSTANCE Responses

NewConn ==
  [serve |-> "loop", writing |-> FALSE, flush |-> FALSE, wrote |-> FALSE,
   inGoAway |-> FALSE, needGoAway |-> FALSE, needAck |-> FALSE,
   window |-> Window, zero |-> <<>>, sq |-> [s \in Streams |-> <<>>],
   state |-> [s \in Streams |-> "idle"], reset |-> {}, writers |-> <<>>,
   skipped |-> 0]

\* serve writes its SETTINGS and has got the client's preface.
Init ==
  /\ sc = StartFrameWrite(NewConn, OfConn("settings"))
  /\ h       = [s \in Streams |-> Idle]
  /\ want    = <<>>
  /\ gone    = FALSE
  /\ control = 0
  /\ Responding!Init

---------------------------------------------------------------------------
(* The handler of a stream *)

Goto(s, label) == h' = [h EXCEPT ![s].pc = label]

\* After the header of a chunk: its data, unless there is none
AfterHeader(s) ==
  IF h[s].n = 0 THEN IF h[s].done THEN "exited" ELSE "run" ELSE "sendData"

\* writeChunk, from a full buffer or a Flush: the header first, if not sent.
\* bufio.Writer refuses to go on after an error.
WriteChunk(s, n) ==
  /\ h[s].pc = "run" /\ h[s].writes < MaxWrites /\ ~h[s].broken
  /\ n > 0 \/ ~h[s].sentHeader
  /\ h' = [h EXCEPT ![s].pc = IF h[s].sentHeader THEN "sendData" ELSE "sendHeader",
                    ![s].n = n, ![s].writes = @ + 1]
  /\ wire' = [wire EXCEPT ![s].given = @ + n]
  /\ UNCHANGED <<sc, want, gone, control>>

\* The handler returns: handlerDone flushes what is in the buffer, with the
\* end of the stream.  A broken buffer with something in it is left alone.
HandlerDone(s, n) ==
  /\ h[s].pc = "run"
  /\ h' = [h EXCEPT ![s].pc = IF h[s].broken /\ n > 0 THEN "exited"
                              ELSE IF h[s].sentHeader THEN "sendData" ELSE "sendHeader",
                    ![s].n = n, ![s].done = TRUE]
  /\ wire' = [wire EXCEPT ![s].given = @ + n]
  /\ UNCHANGED <<sc, want, gone, control>>

\* writeFrameFromHandler: the frame is given up when serve is done.
FromHandler(f) ==
  \/ Len(want) < WantCap /\ want' = Append(want, f)
  \/ sc.serve = "done" /\ UNCHANGED want

\* writeHeaders: the handler waits for a header it has a map of.
SendHeader(s) ==
  /\ h[s].pc = "sendHeader"
  /\ FromHandler(Frame("header", s, 0, h[s].done /\ h[s].n = 0, h[s].typed))
  /\ h' = [h EXCEPT ![s].sentHeader = TRUE,
                    ![s].pc = IF h[s].typed THEN "waitHeader" ELSE AfterHeader(s)]
  /\ UNCHANGED <<sc, gone, control, wire>>

\* Mutation: the handler waits for its frame and nothing else.
HeaderWrittenOnly(s) ==
  /\ h[s].pc = "waitHeader" /\ h[s].reply
  /\ h' = [h EXCEPT ![s].pc = AfterHeader(s), ![s].reply = FALSE]
  /\ UNCHANGED <<sc, want, gone, control, wire>>

\* ... until its frame is written or serve is done
HeaderWritten(s) ==
  /\ h[s].pc = "waitHeader"
  /\ \/ h[s].reply /\ h' = [h EXCEPT ![s].pc = AfterHeader(s), ![s].reply = FALSE]
     \/ sc.serve = "done" /\ Goto(s, AfterHeader(s))
  /\ UNCHANGED <<sc, want, gone, control, wire>>

\* writeDataFromHandler
SendData(s) ==
  /\ h[s].pc = "sendData"
  /\ FromHandler(Frame("data", s, h[s].n, h[s].done, TRUE))
  /\ Goto(s, "waitData")
  /\ UNCHANGED <<sc, gone, control, wire>>

DataWritten(s) ==
  LET next == IF h[s].done THEN "exited" ELSE "run" IN
  /\ h[s].pc = "waitData"
  /\ \/ h[s].reply /\ h' = [h EXCEPT ![s].pc = next, ![s].reply = FALSE]
     \/ /\ sc.serve = "done" \/ sc.state[s] = "closed"
        /\ h' = [h EXCEPT ![s].pc = next, ![s].broken = TRUE]
  /\ UNCHANGED <<sc, want, gone, control, wire>>

Handler(s) ==
  \/ \E n \in 0..MaxData : WriteChunk(s, n) \/ HandlerDone(s, n)
  \/ SendHeader(s)
  \/ HeaderWritten(s)
  \/ SendData(s)
  \/ DataWritten(s)

---------------------------------------------------------------------------
(* The goroutines that write frames *)

\* What a frame is to the client
Sent(w, f) ==
  CASE f.kind = "header" -> [w EXCEPT ![f.stream].phase = IF f.end THEN "ended" ELSE "header"]
    [] f.kind = "data" ->
         [w EXCEPT ![f.stream].delivered = @ + f.n,
                   ![f.stream].phase = IF f.end THEN "ended" ELSE @]
    [] OTHER -> w

\* writeFrameAsync: the write, which fails once the connection is closed, and
\* the answer to the handler, for which its channel has to have room.
\* writeGoAway closes the connection.
WriteFrame(i) ==
  LET f == sc.writers[i].frame IN
  /\ sc.writers[i].at = "write"
  /\ sc' = IF f.waits /\ h[f.stream].reply THEN [sc EXCEPT !.serve = "panic"]
           ELSE [sc EXCEPT !.writers[i].at = "wake"]
  /\ wire' = IF gone THEN wire ELSE Sent(wire, f)
  /\ h' = IF f.waits THEN [h EXCEPT ![f.stream].reply = TRUE] ELSE h
  /\ gone' = (gone \/ f.kind = "goaway")
  /\ UNCHANGED <<want, control>>

\* ... and the wakeup
Wake(i) ==
  /\ sc.writers[i].at = "wake" /\ ~sc.wrote
  /\ sc' = [sc EXCEPT !.wrote = TRUE,
                      !.writers = SubSeq(@, 1, i - 1) \o SubSeq(@, i + 1, Len(@))]
  /\ UNCHANGED <<h, want, gone, control, wire>>

Writer(i) == WriteFrame(i) \/ Wake(i)

---------------------------------------------------------------------------
(* serve: one action for each case of its select *)

Loop == sc.serve = "loop"

\* case wm := <-sc.wantWriteFrameCh
WantWrite ==
  /\ Loop /\ want # <<>>
  /\ want' = Tail(want)
  /\ sc' \in Schedule(Add(sc, Head(want)))
  /\ UNCHANGED <<h, gone, control, wire>>

\* case <-sc.wroteFrameCh
Wrote ==
  /\ Loop /\ sc.wrote
  /\ sc' \in Schedule([sc EXCEPT !.wrote = FALSE, !.writing = FALSE])
  /\ UNCHANGED <<h, want, gone, control, wire>>

\* case fg := <-sc.readFrameCh, a HEADERS frame that is in order: with the end
\* of the stream, or with a body to follow.  Ignored once the connection goes
\* away.
ProcessHeaders(s) ==
  /\ Loop /\ ~gone /\ ~sc.inGoAway /\ sc.state[s] = "idle"
  /\ sc' \in {[sc EXCEPT !.state[s] = st] :
                st \in IF "body" \in Events THEN {"open", "halfClosedRemote"}
                      ELSE {"halfClosedRemote"}}
  /\ h' \in {[h EXCEPT ![s].pc = "run", ![s].typed = typed] : typed \in BOOLEAN}
  /\ UNCHANGED <<want, gone, control, wire>>

\* ... the end of a request's body
ProcessDataEnd(s) ==
  /\ Loop /\ ~gone /\ sc.state[s] = "open"
  /\ sc' = [sc EXCEPT !.state[s] = "halfClosedRemote"]
  /\ UNCHANGED <<h, want, gone, control, wire>>

\* Mutation: gotReset is not set.
ProcessResetUnmarked(s) ==
  /\ "reset" \in Events /\ Loop /\ ~gone /\ sc.state[s] \notin {"idle", "closed"}
  /\ sc' = CloseStream(sc, s)
  /\ UNCHANGED <<h, want, gone, control, wire>>

\* ... RST_STREAM
ProcessResetStream(s) ==
  /\ "reset" \in Events /\ Loop /\ ~gone /\ sc.state[s] \notin {"idle", "closed"}
  /\ sc' = CloseStream([sc EXCEPT !.reset = @ \cup {s}], s)
  /\ UNCHANGED <<h, want, gone, control, wire>>

\* ... a frame that is an error of the stream: resetStream
ResetStream(s) ==
  /\ "streamError" \in Events /\ Loop /\ ~gone /\ sc.state[s] \notin {"idle", "closed"}
  /\ sc' \in {CloseStream([c EXCEPT !.reset = @ \cup {s}], s) :
                c \in Schedule(Add(sc, OfConn("rst")))}
  /\ UNCHANGED <<h, want, gone, control, wire>>

\* Mutation: nothing is scheduled.
WindowUpdateUnscheduled ==
  /\ Loop /\ ~gone /\ sc.window = 0
  /\ sc' = [sc EXCEPT !.window = @ + 1]
  /\ UNCHANGED <<h, want, gone, control, wire>>

\* ... WINDOW_UPDATE.  Bound: the client waits until there is no window left.
ProcessWindowUpdate ==
  /\ Loop /\ ~gone /\ sc.window = 0
  /\ sc' \in Schedule([sc EXCEPT !.window = @ + 1])
  /\ UNCHANGED <<h, want, gone, control, wire>>

\* ... SETTINGS, which may resize the table of the header encoder
ProcessSettings ==
  /\ "settings" \in Events /\ Loop /\ ~gone /\ control < MaxControl
  /\ control' = control + 1
  /\ sc' \in Schedule([sc EXCEPT !.needAck = TRUE])
  /\ UNCHANGED <<h, want, gone, wire>>

\* ... PING
ProcessPing ==
  /\ "ping" \in Events /\ Loop /\ ~gone /\ control < MaxControl
  /\ control' = control + 1
  /\ sc' \in Schedule(Add(sc, OfConn("ping")))
  /\ UNCHANGED <<h, want, gone, wire>>

\* Mutation: the GOAWAY is written at once.
GoAwayNow ==
  /\ "connError" \in Events /\ Loop /\ ~gone /\ ~sc.inGoAway
  /\ sc' = StartFrameWrite([sc EXCEPT !.inGoAway = TRUE], OfConn("goaway"))
  /\ UNCHANGED <<h, want, gone, control, wire>>

\* ... a frame that is an error of the connection: goAway
GoAway ==
  /\ "connError" \in Events /\ Loop /\ ~gone /\ ~sc.inGoAway
  /\ sc' \in Schedule([sc EXCEPT !.inGoAway = TRUE, !.needGoAway = TRUE])
  /\ UNCHANGED <<h, want, gone, control, wire>>

\* serve returns: the deferred calls
Stop ==
  /\ LET open == {s \in Streams : sc.state[s] \notin {"idle", "closed"}} IN
     sc' = [sc EXCEPT !.serve = "done",
              !.state = [s \in Streams |-> IF s \in open THEN "closed" ELSE @[s]],
              !.sq    = [s \in Streams |-> IF s \in open THEN <<>> ELSE @[s]]]
  /\ gone' = TRUE

\* ... on an error of the reader, which the client's leaving is too, and on
\* case <-sc.shutdownTimerCh.
ServeEnds ==
  /\ Loop /\ (gone \/ sc.inGoAway)
  /\ Stop
  /\ UNCHANGED <<h, want, control, wire>>

\* The client leaves.
ClientGone ==
  /\ "leave" \in Events /\ ~gone /\ gone' = TRUE
  /\ UNCHANGED <<sc, h, want, control, wire>>

Serve ==
  \/ WantWrite
  \/ Wrote
  \/ ServeEnds

Client ==
  \/ \E s \in Streams :
       ProcessHeaders(s) \/ ProcessDataEnd(s) \/ ProcessResetStream(s) \/ ResetStream(s)
  \/ ProcessWindowUpdate
  \/ ProcessSettings
  \/ ProcessPing
  \/ GoAway
  \/ ClientGone

Next ==
  \/ Serve
  \/ Client
  \/ \E s \in Streams : Handler(s)
  \/ \E i \in DOMAIN sc.writers : Writer(i)

Spec == Init /\ [][Next]_vars

\* The goroutines run; select chooses at random among the cases that are ready.
Running ==
  /\ WF_vars(WantWrite) /\ WF_vars(Wrote) /\ WF_vars(ServeEnds)
  /\ \A s \in Streams : WF_vars(Handler(s))
  /\ WF_vars(\E i \in DOMAIN sc.writers : Writer(i))

FairSpec == Spec /\ Running

\* ... and the client makes room for what it asked for, as long as it is there.
GrantingSpec == FairSpec /\ WF_vars(ProcessWindowUpdate)

---------------------------------------------------------------------------
(* Properties *)

Kinds == {"header", "data", "rst", "ping", "settings", "settingsAck", "goaway", "flush"}

HeaderFrames == [kind : {"header"}, stream : Streams, n : {0}, end : BOOLEAN, waits : BOOLEAN]
DataFrames   == [kind : {"data"}, stream : Streams, n : 0..MaxData, end : BOOLEAN, waits : BOOLEAN]
StreamFrames == HeaderFrames \cup DataFrames
ConnFrames   == [kind : Kinds, stream : {None}, n : {0}, end : {FALSE}, waits : {FALSE}]

ServeType ==
  [serve : {"loop", "stuck", "panic", "done"}, writing : BOOLEAN, flush : BOOLEAN,
   wrote : BOOLEAN, inGoAway : BOOLEAN, needGoAway : BOOLEAN, needAck : BOOLEAN,
   window : Nat, zero : Seq(ConnFrames), sq : [Streams -> Seq(StreamFrames)],
   state : [Streams -> {"idle", "open", "halfClosedRemote", "closed"}],
   reset : SUBSET Streams,
   writers : Seq([frame : StreamFrames \cup ConnFrames, at : {"write", "wake"}]),
   skipped : Nat]

HandlerType ==
  [pc : {"none", "run", "sendHeader", "waitHeader", "sendData", "waitData", "exited"},
   typed : BOOLEAN, sentHeader : BOOLEAN, done : BOOLEAN, broken : BOOLEAN,
   n : 0..MaxData, writes : 0..MaxWrites, reply : BOOLEAN]

\* Every variable keeps its type: no window is overdrawn, no channel overfull,
\* and what is queued for a stream belongs to it.
TypeOK ==
  /\ sc \in ServeType
  /\ \A s \in Streams : \A i \in DOMAIN sc.sq[s] : sc.sq[s][i].stream = s
  /\ h \in [Streams -> HandlerType]
  /\ want \in Seq(StreamFrames) /\ Len(want) <= WantCap
  /\ gone \in BOOLEAN /\ control \in 0..MaxControl

\* No frame of a handler makes serve panic ("attempt to send a write on a
\* closed stream"), and none makes its writer panic ("unbuffered done channel"),
\* however late it comes after a reset, an error or the end of its stream.
NoPanic == sc.serve # "panic"

Count(b) == IF b THEN 1 ELSE 0

\* Frames being written and wakeups under way, beyond the one that
\* writingFrame tells of
Excess(c) == Len(c.writers) + Count(c.wrote) - Count(c.writing)

\* While serve runs, writingFrame is set only if there is a write or a wakeup
\* that is going to clear it, and each skipped frame makes for one more of
\* them at most: as long as none was, one frame is written at a time.
WritesAccounted == sc.serve = "loop" => Excess(sc) \in 0..sc.skipped

\* "At most one goroutine can be running writeFrameAsync at a time per
\* serverConn." (server.go:551)
OneWriter == Len(sc.writers) <= 1

\* What the client sees of each response is its header, all that the handler
\* wrote, in order, and its end; or it stops short.
ImplementsResponses == Responding!Spec

\* Every handler returns, once the client makes room for its response or the
\* connection ends.
HandlersReturn == \A s \in Streams : h[s].pc = "run" ~> h[s].pc = "exited"

\* The end of the connection ends every handler, also one whose stream was
\* reset and whose frames are never going to be written.
EndReleasesHandlers ==
  \A s \in Streams : sc.serve = "done" /\ h[s].pc # "none" ~> h[s].pc = "exited"

\* "The serve goroutine never blocks" (server.go:731).
ServeNeverBlocks == sc.serve # "stuck"
=============================================================================
