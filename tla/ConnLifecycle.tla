--------------------------- MODULE ConnLifecycle ---------------------------
(***************************************************************************)
(* The life of one http2 connection (server.go): the greetings and their   *)
(* timeouts, the goroutine that reads frames, the streams that are opened  *)
(* and refused, GOAWAY and its timer, and how everything ends.             *)
(*                                                                         *)
(* Which frames serve writes when is ServerConn's matter; here a frame is  *)
(* being written or not, and the write may block until the connection is   *)
(* closed, for the client need not read.                                   *)
(***************************************************************************)
EXTENDS Integers, FiniteSets

CONSTANTS
  MaxStream,     \* the identifiers of streams: 1..MaxStream, for 1, 3, 5, ...
  AdvMaxStreams  \* SETTINGS_MAX_CONCURRENT_STREAMS as advertised

ASSUME LimitsAssumption == MaxStream \in Nat /\ AdvMaxStreams \in Nat \ {0}

VARIABLES
  sc,      \* what the serve goroutine owns, and its channels
  preface, \* the goroutine of readPreface
  reader,  \* the goroutine of readFrames
  writer,  \* the goroutine that writes a frame
  conn,    \* whether the server closed the connection
  gone     \* the client left

vars == <<sc, preface, reader, writer, conn, gone>>

Streams == 1..MaxStream
NoStream == 0
Unannounced == -1

---------------------------------------------------------------------------
(* Functions of the serve goroutine, from its state to its state *)

Open(c) == {s \in Streams : c.state[s] = "open"}

\* Mutation: curOpenStreams is not counted down.
CloseStreamUncounted(c, s) == [c EXCEPT !.state[s] = "closed"]

\* closeStream
CloseStream(c, s) == [c EXCEPT !.state[s] = "closed", !.curOpen = @ - 1]

\* resetStream
ResetStream(c, s) == IF s \in Open(c) THEN CloseStream(c, s) ELSE c

\* Mutation: there is no timer.
GoAwayUntimed(c) == IF c.goAway = "no" THEN [c EXCEPT !.goAway = "wanted"] ELSE c

\* goAway: once, with a timer for the end
GoAway(c) ==
  IF c.goAway = "no" THEN [c EXCEPT !.goAway = "wanted", !.shutdown = "running"] ELSE c

\* serve leaves its loop and closes doneServing.
Return(c) == [c EXCEPT !.pc = "released"]

Refused(c) == c.curOpen > AdvMaxStreams

\* processHeaderBlockFragment: the end of a header block is a request, unless
\* there are too many streams or it is malformed.  A block that cannot be
\* decompressed is an error of no kind serve knows: it returns.
Fragment(c, s, end, block) ==
  IF block = "corrupt" THEN Return(c)
  ELSE IF ~end THEN c
  ELSE IF Refused(c) \/ block = "malformed"
  THEN ResetStream([c EXCEPT !.pending = NoStream], s)
  ELSE [c EXCEPT !.pending = NoStream, !.handler[s] = "running"]

\* Mutation: HEADERS are also looked at when the connection goes away.
HeadersInGoAway(c, s, end, block) ==
  IF s <= c.maxID THEN GoAway(c)
  ELSE Fragment([c EXCEPT !.state[s] = "open", !.curOpen = @ + 1,
                          !.maxID = s, !.pending = s], s, end, block)

\* processHeaders.  Streams must be new; those skipped count as closed.
Headers(c, s, end, block) ==
  IF c.goAway # "no" THEN c
  ELSE IF s <= c.maxID THEN GoAway(c)
  ELSE Fragment([c EXCEPT !.state[s] = "open", !.curOpen = @ + 1,
                          !.maxID = s, !.pending = s], s, end, block)

\* processContinuation
Continuation(c, s, end, block) ==
  IF c.pending = s /\ s \in Open(c) THEN Fragment(c, s, end, block) ELSE GoAway(c)

---------------------------------------------------------------------------

NewConn ==
  [pc |-> "start", handler |-> [s \in Streams |-> "none"],
   writing |-> FALSE, wrote |-> FALSE,
   readCh |-> "open", readErr |-> "none",
   sawFirst |-> FALSE, unacked |-> 0, settings |-> "off",
   state |-> [s \in Streams |-> "idle"], curOpen |-> 0, maxID |-> 0,
   pending |-> NoStream, goAway |-> "no", announced |-> Unannounced, shutdown |-> "off"]

Init ==
  /\ sc      = NewConn
  /\ preface = "none"
  /\ reader  = "none"
  /\ writer  = "none"
  /\ conn    = "open"
  /\ gone    = FALSE

Loop == sc.pc = "loop"

\* scheduleFrameWrite: a GOAWAY that is wanted comes first.  Other frames are
\* begun by StartFrame.
Scheduled(c) ==
  IF c.goAway = "wanted" /\ ~c.writing
  THEN [c EXCEPT !.goAway = "sent", !.announced = c.maxID, !.writing = TRUE] ELSE c

\* ... and the goroutine that writes it
ServeDoes(c) ==
  /\ sc' = Scheduled(c)
  /\ writer' = IF Scheduled(c) # c THEN "goaway" ELSE writer

---------------------------------------------------------------------------
(* Greetings *)

\* handleConn refuses what is no TLS 1.2 or has a bad cipher (rejectConn).
RejectConn ==
  /\ sc.pc = "start"
  /\ sc' = [sc EXCEPT !.pc = "done"]
  /\ conn' = "closed"
  /\ UNCHANGED <<preface, reader, writer, gone>>

\* serve writes its SETTINGS and waits for the preface.
ServeStarts ==
  /\ sc.pc = "start"
  /\ sc' = [sc EXCEPT !.pc = "preface", !.writing = TRUE, !.unacked = 1]
  /\ writer' = "write"
  /\ preface' = "reading"
  /\ UNCHANGED <<reader, conn, gone>>

\* The goroutine of readPreface: 24 bytes, or an error when the client left or
\* the connection was closed.  errc has room for its answer.
PrefaceRead ==
  /\ preface = "reading"
  /\ preface' \in (IF conn = "closed" \/ gone THEN {"bad"} ELSE {"good", "bad"})
  /\ UNCHANGED <<sc, reader, writer, conn, gone>>

\* ... its answer, upon which serve starts the reader and a timer
PrefaceDone ==
  /\ sc.pc = "preface" /\ preface \in {"good", "bad"}
  /\ IF preface = "good"
     THEN sc' = [sc EXCEPT !.pc = "loop", !.settings = "running"] /\ reader' = "read"
     ELSE sc' = Return(sc) /\ UNCHANGED reader
  /\ UNCHANGED <<preface, writer, conn, gone>>

\* prefaceTimeout
PrefaceTimeout ==
  /\ sc.pc = "preface"
  /\ sc' = Return(sc)
  /\ UNCHANGED <<preface, reader, writer, conn, gone>>

---------------------------------------------------------------------------
(* readFrames *)

\* A frame was read: serve is next.
ReadFrame ==
  /\ reader = "read" /\ conn = "open" /\ ~gone
  /\ reader' = "send"
  /\ UNCHANGED <<sc, preface, writer, conn, gone>>

\* An error ends the reader; readFrameErrCh has room for it.  The framer finds
\* errors of a stream, of the connection, and frames that are too large.
Fails(err) ==
  /\ reader = "read"
  /\ reader' = "ended"
  /\ sc' = [sc EXCEPT !.readCh = "closed", !.readErr = err]
  /\ UNCHANGED <<preface, writer, conn, gone>>

ReadFails ==
  \/ (conn = "closed" \/ gone) /\ Fails("gone")
  \/ conn = "open" /\ ~gone /\ \E err \in {"streamError", "connError", "tooLarge", "other"} : Fails(err)

---------------------------------------------------------------------------
(* serve: one action for each case of its select.  The reader waits at its *)
(* gate until the frame is processed.                                      *)

\* The first processed frame, or the end of the reader, stops settingsTimer.
Heard(c) == [c EXCEPT !.settings = "off"]

FrameFromReader == Loop /\ reader = "send" /\ reader' = "read"

\* processFrame: SETTINGS first, and nothing between the frames of a header block
InOrder == sc.sawFirst /\ sc.pending = NoStream

\* processSettings, valid or not
ProcessSettings ==
  LET saw == Heard([sc EXCEPT !.sawFirst = TRUE]) IN
  /\ FrameFromReader
  /\ \E valid \in BOOLEAN :
       ServeDoes(IF valid /\ sc.pending = NoStream THEN saw ELSE GoAway(saw))
  /\ UNCHANGED <<preface, conn, gone>>

\* Mutation: acknowledgements are not counted against what was sent.
AckUnchecked ==
  LET saw == Heard([sc EXCEPT !.sawFirst = TRUE]) IN
  /\ FrameFromReader
  /\ ServeDoes(IF sc.pending = NoStream THEN [saw EXCEPT !.unacked = @ - 1] ELSE GoAway(saw))
  /\ UNCHANGED <<preface, conn, gone>>

\* ... their acknowledgement, one too many being an error
ProcessSettingsAck ==
  LET saw == Heard([sc EXCEPT !.sawFirst = TRUE]) IN
  /\ FrameFromReader
  /\ ServeDoes(IF sc.unacked > 0 /\ sc.pending = NoStream
               THEN [saw EXCEPT !.unacked = @ - 1] ELSE GoAway(saw))
  /\ UNCHANGED <<preface, conn, gone>>

Blocks == {"ok", "malformed", "corrupt"}

ProcessHeaders(s) ==
  /\ FrameFromReader
  /\ \E end \in BOOLEAN, block \in Blocks :
       ServeDoes(IF InOrder THEN Headers(Heard(sc), s, end, block) ELSE GoAway(Heard(sc)))
  /\ UNCHANGED <<preface, conn, gone>>

ProcessContinuation(s) ==
  /\ FrameFromReader
  /\ \E end \in BOOLEAN, block \in Blocks :
       ServeDoes(IF sc.sawFirst THEN Continuation(Heard(sc), s, end, block)
                 ELSE GoAway(Heard(sc)))
  /\ UNCHANGED <<preface, conn, gone>>

\* processResetStream; a stream that was never opened cannot be reset.
ProcessResetStream(s) ==
  /\ FrameFromReader
  /\ ServeDoes(IF InOrder /\ s <= sc.maxID THEN ResetStream(Heard(sc), s)
               ELSE GoAway(Heard(sc)))
  /\ UNCHANGED <<preface, conn, gone>>

\* Any other frame, or one of these with an identifier that is not a client's:
\* in order, or an error of the connection or of a stream
ProcessOther ==
  /\ FrameFromReader
  /\ \/ InOrder /\ ServeDoes(Heard(sc))
     \/ InOrder /\ \E s \in Streams : ServeDoes(ResetStream(Heard(sc), s))
     \/ ServeDoes(GoAway(Heard(sc)))
  /\ UNCHANGED <<preface, conn, gone>>

\* case fg, ok := <-sc.readFrameCh when the reader has ended
ReaderEnded ==
  LET c == Heard([sc EXCEPT !.readCh = "nil"]) IN
  /\ Loop /\ sc.readCh = "closed"
  /\ \/ sc.readErr \in {"gone", "other"} /\ ServeDoes(Return(c))
     \/ sc.readErr \in {"connError", "tooLarge"} /\ ServeDoes(GoAway(c))
     \/ sc.readErr = "streamError" /\ \E s \in Streams : ServeDoes(ResetStream(c, s))
  /\ UNCHANGED <<preface, reader, conn, gone>>

\* Mutation: nothing is scheduled.
WroteUnscheduled ==
  /\ Loop /\ sc.wrote
  /\ sc' = [sc EXCEPT !.wrote = FALSE, !.writing = FALSE]
  /\ UNCHANGED <<preface, reader, writer, conn, gone>>

\* case <-sc.wroteFrameCh
Wrote ==
  /\ Loop /\ sc.wrote
  /\ ServeDoes([sc EXCEPT !.wrote = FALSE, !.writing = FALSE])
  /\ UNCHANGED <<preface, reader, conn, gone>>

\* case <-settingsTimer.C
SettingsTimeout ==
  /\ Loop /\ sc.settings = "running"
  /\ sc' = Return(sc)
  /\ UNCHANGED <<preface, reader, writer, conn, gone>>

\* case <-sc.shutdownTimerCh
ShutdownTimeout ==
  /\ Loop /\ sc.shutdown = "running"
  /\ sc' = Return(sc)
  /\ UNCHANGED <<preface, reader, writer, conn, gone>>

\* A frame is begun: an ACK, a RST_STREAM, part of a response, a flush.
StartFrame ==
  /\ Loop /\ ~sc.writing
  /\ sc' = [sc EXCEPT !.writing = TRUE]
  /\ writer' = "write"
  /\ UNCHANGED <<preface, reader, conn, gone>>

\* ... the last of a response, which goAway keeps back
EndStream(s) ==
  /\ Loop /\ ~sc.writing /\ sc.goAway = "no"
  /\ s \in Open(sc) /\ sc.handler[s] = "returned"
  /\ sc' = [CloseStream(sc, s) EXCEPT !.writing = TRUE]
  /\ writer' = "write"
  /\ UNCHANGED <<preface, reader, conn, gone>>

\* What serve deferred: stopShutdownTimer and closeAllStreamsOnConnClose ...
CloseStreams ==
  /\ sc.pc = "released"
  /\ sc' = [sc EXCEPT !.pc = "closing", !.shutdown = "off",
                      !.state = [s \in Streams |-> IF s \in Open(sc) THEN "closed" ELSE @[s]],
                      !.curOpen = @ - Cardinality(Open(sc))]
  /\ UNCHANGED <<preface, reader, writer, conn, gone>>

\* Mutation: the connection is left to the client to close.
CloseNothing ==
  /\ sc.pc = "closing"
  /\ sc' = [sc EXCEPT !.pc = "done"]
  /\ UNCHANGED <<preface, reader, writer, conn, gone>>

\* ... and conn.Close
CloseConn ==
  /\ sc.pc = "closing"
  /\ sc' = [sc EXCEPT !.pc = "done"]
  /\ conn' = "closed"
  /\ UNCHANGED <<preface, reader, writer, gone>>

---------------------------------------------------------------------------
(* The goroutines that write, handlers and the client *)

\* The write ends, unless the client does not read.
WriteFrame ==
  /\ writer = "write"
  /\ writer' = "wake"
  /\ UNCHANGED <<sc, preface, reader, conn, gone>>

\* writeGoAway: the frame, a while for the client to read it ...
WriteGoAway ==
  /\ writer = "goaway"
  /\ writer' = "sleep"
  /\ UNCHANGED <<sc, preface, reader, conn, gone>>

\* ... and the end of the connection
GoAwaySlept ==
  /\ writer = "sleep"
  /\ writer' = "wake"
  /\ conn' = "closed"
  /\ UNCHANGED <<sc, preface, reader, gone>>

Wake ==
  /\ writer = "wake" /\ ~sc.wrote
  /\ writer' = "none"
  /\ sc' = [sc EXCEPT !.wrote = TRUE]
  /\ UNCHANGED <<preface, reader, conn, gone>>

HandlerReturns(s) ==
  /\ sc.handler[s] = "running"
  /\ sc' = [sc EXCEPT !.handler[s] = "returned"]
  /\ UNCHANGED <<preface, reader, writer, conn, gone>>

ClientLeaves ==
  /\ ~gone /\ gone' = TRUE
  /\ UNCHANGED <<sc, preface, reader, writer, conn>>

Frame ==
  \/ ProcessSettings
  \/ ProcessSettingsAck
  \/ \E s \in Streams : ProcessHeaders(s) \/ ProcessContinuation(s) \/ ProcessResetStream(s)
  \/ ProcessOther

Deferred == CloseStreams \/ CloseConn

Writes == WriteFrame \/ WriteGoAway

Next ==
  \/ RejectConn \/ ServeStarts
  \/ PrefaceRead \/ PrefaceDone \/ PrefaceTimeout
  \/ ReadFrame \/ ReadFails
  \/ Frame \/ ReaderEnded \/ Wrote \/ SettingsTimeout \/ ShutdownTimeout
  \/ StartFrame \/ \E s \in Streams : EndStream(s) \/ HandlerReturns(s)
  \/ Deferred
  \/ Writes \/ GoAwaySlept \/ Wake
  \/ ClientLeaves

Spec == Init /\ [][Next]_vars

\* Timers fire; serve's select takes every case that stays ready; reads and
\* writes return once the connection is closed or the client has left.  The
\* client need not send or read anything, handlers need not return.
FairSpec ==
  /\ Spec
  /\ WF_vars(ServeStarts \/ RejectConn)
  /\ WF_vars((conn = "closed" \/ gone) /\ PrefaceRead)
  /\ WF_vars(PrefaceDone) /\ WF_vars(PrefaceTimeout)
  /\ WF_vars((conn = "closed" \/ gone) /\ ReadFails)
  /\ WF_vars(Frame) /\ WF_vars(ReaderEnded) /\ WF_vars(Wrote)
  /\ WF_vars(SettingsTimeout) /\ WF_vars(ShutdownTimeout)
  /\ WF_vars(Deferred)
  /\ WF_vars((conn = "closed" \/ gone) /\ Writes) /\ WF_vars(GoAwaySlept) /\ WF_vars(Wake)

---------------------------------------------------------------------------
(* Properties *)

ServerType ==
  [pc : {"start", "preface", "loop", "released", "closing", "done"},
   handler : [Streams -> {"none", "running", "returned"}],
   writing : BOOLEAN, wrote : BOOLEAN,
   readCh : {"open", "closed", "nil"},
   readErr : {"none", "gone", "other", "connError", "tooLarge", "streamError"},
   sawFirst : BOOLEAN, unacked : {0, 1}, settings : {"off", "running"},
   state : [Streams -> {"idle", "open", "closed"}], curOpen : Nat,
   maxID : Streams \cup {NoStream}, pending : Streams \cup {NoStream},
   goAway : {"no", "wanted", "sent"},
   announced : Streams \cup {NoStream, Unannounced},
   shutdown : {"off", "running"}]

\* Every variable keeps its type; no more SETTINGS are acknowledged than were sent.
TypeOK ==
  /\ sc \in ServerType
  /\ preface \in {"none", "reading", "good", "bad"}
  /\ reader \in {"none", "read", "send", "ended"}
  /\ writer \in {"none", "write", "goaway", "sleep", "wake"}
  /\ conn \in {"open", "closed"}
  /\ gone \in BOOLEAN

\* The client is served as Http2Connection has it: requests in the order of
\* their streams, and none after the one its GOAWAY names.
Promise == INSTANCE Http2Connection WITH
  phase  <- IF sc.pc \in {"start", "preface"} THEN "greeting"
            ELSE IF ~Loop THEN "closed"
            ELSE IF sc.goAway # "no" THEN "goingAway"
            ELSE IF sc.sawFirst THEN "open" ELSE "greeting",
  served <- {s \in Streams : sc.handler[s] # "none"},
  last   <- sc.announced
KeepsPromise == Promise!Spec

\* curOpenStreams counts the open streams, so that the limit is one on requests
\* that are served at a time, with one more whose header is being read.
LimitKept ==
  /\ sc.curOpen = Cardinality(Open(sc))
  /\ Cardinality({s \in Open(sc) : sc.handler[s] # "none"}) <= AdvMaxStreams
  /\ sc.curOpen <= AdvMaxStreams + 1
  /\ \A s \in Open(sc) : sc.handler[s] # "none" \/ s = sc.pending

\* A GOAWAY that is wanted is never forgotten: a frame is being written, at the
\* end of which it follows.
GoAwayFollows ==
  Loop /\ sc.goAway = "wanted" => writer # "none" \/ sc.wrote

\* The connection ends: once it goes away, whatever is being written and even if
\* the client reads nothing; when the client says nothing at first; and when it
\* leaves, unless an error of a stream has ended the reader, which alone could
\* have noticed.
ConnectionEnds ==
  /\ sc.goAway # "no" ~> sc.pc = "done"
  /\ sc.pc = "preface" \/ (Loop /\ sc.settings = "running")
       ~> (Loop /\ sc.settings = "off") \/ sc.pc = "done"
  /\ gone ~> sc.pc = "done" \/ sc.readErr = "streamError"

\* The end of the connection ends its goroutines, the reader unless it holds a
\* frame that serve will never take.
EndReleasesAll ==
  sc.pc = "done" ~> /\ preface # "reading"
                    /\ writer = "none"
                    /\ reader \in {"none", "ended", "send"}
=============================================================================
