---------------------------- MODULE RequestBody ----------------------------
(***************************************************************************)
(* How the bodies of requests reach the handlers of one http2 connection   *)
(* (server.go, pipe.go, buffer.go).                                        *)
(*                                                                         *)
(* serve takes the DATA of a stream from the receive windows and puts it   *)
(* into the stream's pipe.  A goroutine reads it there (the handler's, or  *)
(* that of the transport which forwards the request, so reading may go on  *)
(* when the handler has returned), tells serve how much it read, and serve *)
(* gives that much room back to the client in WINDOW_UPDATE frames.        *)
(***************************************************************************)
EXTENDS Integers, Sequences, FiniteSetsExt

CONSTANTS
  Streams,   \* the requests, one stream each
  Window,    \* initialWindowSize, also the size of a pipe's buffer
  Events,    \* what may happen besides reading and sending
  MaxEvents, \* bound: how many of them happen
  Lengths,   \* the Content-Lengths the client may declare, by stream
  MaxBody,   \* bound: bytes the client sends, by stream
  MaxPad,    \* bound: bytes by which padding makes a frame longer
  NetCap     \* bound: frames on their way from the client

\* A client that exceeds its windows, pads a frame, resets a stream or expects a
\* 100-continue, readers that close the body or just stop, responses that end
\* before the body does, the end of the connection
AllEvents == {"overrun", "pad", "reset", "expect", "close", "quit", "respond", "end"}

ASSUME StreamsAssumption == IsFiniteSet(Streams)
ASSUME EventsAssumption == Events \subseteq AllEvents
ASSUME SizesAssumption == Window \in Nat \ {0} /\ Lengths \in [Streams -> SUBSET Nat]
                          /\ MaxBody \in [Streams -> Nat] /\ MaxPad \in Nat
                          /\ MaxEvents \in Nat /\ NetCap \in Nat \ {0}

VARIABLES
  sc,      \* what the serve goroutine owns, and the pipes it shares with the readers
  reader,  \* the readers of the bodies
  net,     \* frames on their way from the client
  cl,      \* what the client knows; padded, the bytes of padding it sent, is history
  grant,   \* WINDOW_UPDATEs on their way to it: by stream, and grant.conn
  refused, \* bytes of each stream taken from the windows for a closed pipe
  ignored, \* bytes in frames that were an error before they were counted
  events   \* how many Events happened

vars == <<sc, reader, net, cl, grant, refused, ignored, events>>

Undeclared == -1

---------------------------------------------------------------------------
(* buffer.go and pipe.go.  A buffer is the part of buf up to w, and r; it  *)
(* is closed once it has an err.                                           *)

NewPipe == [data |-> <<>>, r |-> 0, err |-> "none", waiting |-> FALSE]

Unread(p) == Len(p.data) - p.r

\* Mutation: what is left is not moved to the beginning.
Unslid(p, n) == p

\* buffer.Write moves what is left to the beginning when it needs the room.
Slide(p, n) ==
  IF p.r > 0 /\ n > Window - Len(p.data)
  THEN [p EXCEPT !.data = SubSeq(@, p.r + 1, Len(@)), !.r = 0] ELSE p

\* Mutation: the reader is not woken.
WritePipeSilently(p, bytes) ==
  LET slid == Slide(p, Len(bytes))
      n    == Min({Len(bytes), Window - Len(slid.data)})
  IN [slid EXCEPT !.data = @ \o SubSeq(bytes, 1, n)]

\* pipe.Write of some bytes, as many as fit; the reader is woken.
WritePipe(p, bytes) ==
  LET slid == Slide(p, Len(bytes))
      n    == Min({Len(bytes), Window - Len(slid.data)})
  IN [slid EXCEPT !.data = @ \o SubSeq(bytes, 1, n), !.waiting = FALSE]

\* Mutation: the reader is not woken.
ClosePipeSilently(p, err) == IF p.err = "none" THEN [p EXCEPT !.err = err] ELSE p

\* pipe.Close: the first error stays, the reader is woken.
ClosePipe(p, err) ==
  [p EXCEPT !.err = IF @ = "none" THEN err ELSE @, !.waiting = FALSE]

---------------------------------------------------------------------------
(* Functions of the serve goroutine, from its state to its state *)

\* closeStream; forgetStream drops a queued 100-continue.
CloseStream(c, s, err) ==
  [c EXCEPT !.state[s] = "closed",
            !.pipe[s]  = ClosePipe(@, err),
            !.cont[s]  = IF @ = "queued" THEN "none" ELSE @]

Live(c) == {s \in Streams : c.state[s] \notin {"idle", "closed"}}

\* resetStream.  The client learns of the RST_STREAM some time.
ResetStream(c, s) ==
  IF s \in Live(c)
  THEN CloseStream([c EXCEPT !.reset = @ \cup {s}], s, "StreamError") ELSE c

\* The end of serve, also after a panic: closeAllStreamsOnConnClose
End(c, why) ==
  [c EXCEPT !.serve = why,
            !.state = [s \in Streams |-> IF s \in Live(c) THEN "closed" ELSE @[s]],
            !.pipe  = [s \in Streams |-> IF s \in Live(c)
                                         THEN ClosePipe(@[s], "errClientDisconnected")
                                         ELSE @[s]]]

\* Mutation: the connection's window is not looked at.
AvailableOnStream(c, s) == c.win[s]

\* flow.available of a stream's inflow
Available(c, s) == Min({c.win[s], c.conn})

Declared(c, s) == c.decl[s] # Undeclared

\* The end of a request's body in processData
EndBody(c, s) ==
  [c EXCEPT !.state[s] = "halfClosedRemote",
            !.pipe[s]  = ClosePipe(@, IF Declared(c, s) /\ c.decl[s] # c.bytes[s]
                                      THEN "length" ELSE "EOF")]

\* Mutation: the stream's window is not linked to the connection's.
TakeDataUnlinked(c, f) ==
  LET s   == f.stream
      all == [c EXCEPT !.win[s]   = @ - f.n,
                       !.pipe[s]  = WritePipe(@, [i \in 1..f.n |-> f.at + i]),
                       !.bytes[s] = @ + f.n]
  IN IF f.end THEN EndBody(all, s) ELSE all

\* processData of a frame that is in order: flow.take, then into the pipe.
\* A pipe its reader closed, or one that is full, is an error of the stream.
TakeData(c, f) ==
  LET s     == f.stream
      taken == [c EXCEPT !.conn = @ - f.n, !.win[s] = @ - f.n]
      put   == [taken EXCEPT !.pipe[s] = WritePipe(@, [i \in 1..f.n |-> f.at + i])]
      all   == [put EXCEPT !.bytes[s] = @ + f.n]
      fits  == Unread(put.pipe[s]) = Unread(c.pipe[s]) + f.n
  IN
  IF f.n = 0 THEN IF f.end THEN EndBody(c, s) ELSE c
  ELSE IF c.pipe[s].err # "none" THEN ResetStream(taken, s)
  ELSE IF ~fits THEN ResetStream(put, s)
  ELSE IF f.end THEN EndBody(all, s) ELSE all

\* Mutation: only the connection's window is given back.
GiveBackConn(c, s, n) == [c EXCEPT !.conn = @ + n]

\* sendWindowUpdate for the connection, and for the stream as long as the
\* client may send on it
GiveBack(c, s, n) ==
  LET conn == [c EXCEPT !.conn = @ + n] IN
  IF c.state[s] = "open" THEN [conn EXCEPT !.win[s] = @ + n] ELSE conn
---------------------------------------------------------------------------

Init ==
  /\ sc = [serve |-> "loop", conn |-> Window, reset |-> {},
           state |-> [s \in Streams |-> "idle"],
           win   |-> [s \in Streams |-> 0],
           bytes |-> [s \in Streams |-> 0],
           decl  |-> [s \in Streams |-> Undeclared],
           cont  |-> [s \in Streams |-> "none"],
           pipe  |-> [s \in Streams |-> NewPipe]]
  /\ reader  = [s \in Streams |-> [pc |-> "none", n |-> 0, err |-> "none", got |-> <<>>]]
  /\ net     = <<>>
  /\ cl      = [conn |-> Window, win |-> [s \in Streams |-> 0],
                sent |-> [s \in Streams |-> 0], ended |-> {}, whole |-> {},
                padded |-> [s \in Streams |-> 0]]
  /\ grant   = [conn |-> 0, win |-> [s \in Streams |-> 0]]
  /\ refused = [s \in Streams |-> 0]
  /\ ignored = 0
  /\ events  = 0

Loop == sc.serve = "loop"

Event(e) == e \in Events /\ events < MaxEvents /\ events' = events + 1

---------------------------------------------------------------------------
(* The readers *)

Goto(s, label) == reader' = [reader EXCEPT ![s].pc = label]

\* requestBody.Read: the first one answers Expect: 100-continue
\* (write100ContinueHeaders).
SendContinue(s) ==
  /\ reader[s].pc = "continue"
  /\ Goto(s, "reading")
  /\ \/ Loop /\ sc' = [sc EXCEPT !.cont[s] = "want"]
     \/ ~Loop /\ UNCHANGED sc
  /\ UNCHANGED <<net, cl, grant, refused, ignored, events>>

\* pipe.Read: wait while there is nothing and more may come.
WaitInPipe(s) ==
  /\ reader[s].pc = "reading" /\ ~sc.pipe[s].waiting
  /\ Unread(sc.pipe[s]) = 0 /\ sc.pipe[s].err = "none"
  /\ sc' = [sc EXCEPT !.pipe[s].waiting = TRUE]
  /\ UNCHANGED <<reader, net, cl, grant, refused, ignored, events>>

\* Mutation: the error comes as soon as the pipe is closed.
VerdictAtOnce(p, n) == p.err

\* buffer.Read gives the error with the last byte.
Verdict(p, n) == IF n = Unread(p) THEN p.err ELSE "none"

\* ... of up to k bytes.  What was read is noted before the Read returns.
ReadPipe(s, k) ==
  LET p == sc.pipe[s]
      n == Min({k, Unread(p)})
  IN
  /\ reader[s].pc = "reading" /\ ~p.waiting
  /\ Unread(p) > 0 \/ p.err # "none"
  /\ sc' = [sc EXCEPT !.pipe[s].r = @ + n]
  /\ reader' = [reader EXCEPT ![s] =
       [pc  |-> IF n > 0 THEN "noting" ELSE "ended",
        n   |-> n,
        err |-> Verdict(p, n),
        got |-> @.got \o SubSeq(p.data, p.r + 1, p.r + n)]]
  /\ UNCHANGED <<net, cl, grant, refused, ignored, events>>

\* case m := <-sc.bodyReadCh: serve meets the reader in noteBodyReadFromHandler.
NoteBodyRead(s) ==
  LET n == reader[s].n IN
  /\ Loop /\ reader[s].pc = "noting"
  /\ sc' = GiveBack(sc, s, n)
  /\ grant' = [grant EXCEPT !.conn = @ + n,
                            !.win[s] = IF sc.state[s] = "open" THEN @ + n ELSE @]
  /\ reader' = [reader EXCEPT ![s] =
       [@ EXCEPT !.n = 0, !.pc = IF reader[s].err = "none" THEN "reading" ELSE "ended"]]
  /\ UNCHANGED <<net, cl, refused, ignored, events>>

\* requestBody.Close, maybe by another goroutine than the one that reads
CloseBody(s) ==
  /\ Event("close") /\ reader[s].pc \notin {"none", "ended"}
  /\ sc.pipe[s].err = "none"
  /\ sc' = [sc EXCEPT !.pipe[s] = ClosePipe(@, "errClosedBody")]
  /\ UNCHANGED <<reader, net, cl, grant, refused, ignored>>

\* Nobody is interested in the rest.
Quit(s) ==
  /\ Event("quit") /\ reader[s].pc \in {"continue", "reading"} /\ ~sc.pipe[s].waiting
  /\ Goto(s, "ended")
  /\ UNCHANGED <<sc, net, cl, grant, refused, ignored>>

Reads(s) ==
  \/ SendContinue(s)
  \/ WaitInPipe(s)
  \/ \E k \in 1..Window : ReadPipe(s, k)

---------------------------------------------------------------------------
(* serve *)

\* processHeaders and newWriterAndRequest.  The body of a request that ends
\* with its header has no pipe; here it has one that has ended.
ProcessHeaders(s) ==
  /\ Loop /\ sc.state[s] = "idle"
  /\ \/ UNCHANGED events /\ Goto(s, "reading")
     \/ Event("expect") /\ Goto(s, "continue")
  /\ \/ /\ \E decl \in Lengths[s] \cup {Undeclared} :
             sc' = [sc EXCEPT !.state[s] = "open", !.win[s] = Window, !.decl[s] = decl]
        /\ cl' = [cl EXCEPT !.win[s] = Window]
     \/ /\ sc' = [sc EXCEPT !.state[s] = "halfClosedRemote", !.pipe[s].err = "EOF"]
        /\ cl' = [cl EXCEPT !.ended = @ \cup {s}, !.whole = @ \cup {s}]
  /\ UNCHANGED <<net, grant, refused, ignored>>

\* The errors processData finds before it counts the bytes
InError(f) ==
  \/ sc.state[f.stream] # "open"
  \/ Declared(sc, f.stream) /\ sc.bytes[f.stream] + f.n > sc.decl[f.stream]
  \/ f.n > 0 /\ f.n > Available(sc, f.stream)

Received(kind) == Loop /\ net # <<>> /\ Head(net).kind = kind /\ net' = Tail(net)

\* processData, a frame in order
ProcessData ==
  LET f == Head(net) IN
  /\ Received("data") /\ ~InError(f)
  /\ sc' = TakeData(sc, f)
  /\ refused' = IF sc.pipe[f.stream].err = "none" THEN refused
                ELSE [refused EXCEPT ![f.stream] = @ + f.n]
  /\ UNCHANGED <<reader, cl, grant, ignored, events>>

\* ... and one that is an error of its stream.  A body that is longer than
\* declared is closed with that.
ProcessDataInError ==
  LET f == Head(net)
      s == f.stream
      excess == sc.state[s] = "open" /\ Declared(sc, s) /\ sc.bytes[s] + f.n > sc.decl[s]
  IN
  /\ Received("data") /\ InError(f)
  /\ sc' = ResetStream(IF excess THEN [sc EXCEPT !.pipe[s] = ClosePipe(@, "length")]
                       ELSE sc, s)
  /\ ignored' = ignored + f.n
  /\ UNCHANGED <<reader, cl, grant, refused, events>>

\* processResetStream
ProcessResetStream ==
  LET s == Head(net).stream IN
  /\ Received("reset")
  /\ sc' = ResetStream(sc, s)
  /\ UNCHANGED <<reader, cl, grant, refused, ignored, events>>

\* A 100-continue comes out of wantWriteFrameCh ...
WantContinue(s) ==
  /\ Loop /\ sc.cont[s] = "want"
  /\ sc' = [sc EXCEPT !.cont[s] = "queued"]
  /\ UNCHANGED <<reader, net, cl, grant, refused, ignored, events>>

\* ... and is its stream's turn (startFrameWrite): skipped on a stream that
\* was reset, a panic on one that ended.
WriteContinue(s) ==
  /\ Loop /\ sc.cont[s] = "queued"
  /\ sc' = IF sc.state[s] = "closed" /\ s \notin sc.reset THEN End(sc, "panic")
           ELSE [sc EXCEPT !.cont[s] = "none"]
  /\ UNCHANGED <<reader, net, cl, grant, refused, ignored, events>>

\* The last frame of the response is written (startFrameWrite).
Respond(s) ==
  /\ Event("respond") /\ Loop /\ s \in Live(sc)
  /\ sc' = IF sc.state[s] = "open" THEN ResetStream(sc, s) ELSE CloseStream(sc, s, "nil")
  /\ UNCHANGED <<reader, net, cl, grant, refused, ignored>>

\* serve returns, for whatever reason.
ServeEnds ==
  /\ Event("end") /\ Loop
  /\ sc' = End(sc, "done")
  /\ UNCHANGED <<reader, net, cl, grant, refused, ignored>>

Serve ==
  \/ ProcessData
  \/ ProcessDataInError
  \/ ProcessResetStream
  \/ \E s \in Streams : NoteBodyRead(s) \/ WantContinue(s) \/ WriteContinue(s)

---------------------------------------------------------------------------
(* The client *)

MaySend(s) == sc.state[s] # "idle" /\ s \notin cl.ended /\ Len(net) < NetCap

Room(s) == Min({cl.win[s], cl.conn})

\* DATA, within the windows unless the client does not care.  Padding takes room
\* from them like data (http2 draft, "DATA"), but is gone when serve gets the
\* frame (parseDataFrame).
SendData(s, n, pad, end) ==
  /\ MaySend(s) /\ cl.sent[s] + n <= MaxBody[s]
  /\ n > 0 \/ pad > 0 \/ end
  /\ IF pad = 0 /\ n <= Room(s) THEN UNCHANGED events
     ELSE Event(IF n + pad <= Room(s) THEN "pad" ELSE "overrun")
  /\ net' = Append(net, [kind |-> "data", stream |-> s, at |-> cl.sent[s], n |-> n, end |-> end])
  /\ cl' = [cl EXCEPT !.conn = @ - (n + pad), !.win[s] = @ - (n + pad), !.sent[s] = @ + n,
                      !.padded[s] = @ + pad,
                      !.ended = IF end THEN @ \cup {s} ELSE @,
                      !.whole = IF end THEN @ \cup {s} ELSE @]
  /\ UNCHANGED <<sc, reader, grant, refused, ignored>>

\* RST_STREAM
SendReset(s) ==
  /\ Event("reset") /\ MaySend(s)
  /\ net' = Append(net, [kind |-> "reset", stream |-> s, at |-> 0, n |-> 0, end |-> FALSE])
  /\ cl' = [cl EXCEPT !.ended = @ \cup {s}]
  /\ UNCHANGED <<sc, reader, grant, refused, ignored>>

\* The server's RST_STREAM arrives: the client sends no more.
LearnOfReset(s) ==
  /\ s \in sc.reset /\ s \notin cl.ended
  /\ cl' = [cl EXCEPT !.ended = @ \cup {s}]
  /\ UNCHANGED <<sc, reader, net, grant, refused, ignored, events>>

\* All WINDOW_UPDATEs under way arrive, of the connection or of a stream.
ConnGrantArrives ==
  /\ grant.conn > 0
  /\ cl' = [cl EXCEPT !.conn = @ + grant.conn]
  /\ grant' = [grant EXCEPT !.conn = 0]
  /\ UNCHANGED <<sc, reader, net, refused, ignored, events>>

GrantArrives(s) ==
  /\ grant.win[s] > 0
  /\ cl' = [cl EXCEPT !.win[s] = @ + grant.win[s]]
  /\ grant' = [grant EXCEPT !.win[s] = 0]
  /\ UNCHANGED <<sc, reader, net, refused, ignored, events>>

Sends(s) ==
  \E n \in 0..MaxBody[s], pad \in 0..MaxPad, end \in BOOLEAN : SendData(s, n, pad, end)

Next ==
  \/ \E s \in Streams :
       \/ Reads(s) \/ CloseBody(s) \/ Quit(s)
       \/ ProcessHeaders(s) \/ Respond(s)
       \/ Sends(s) \/ SendReset(s) \/ LearnOfReset(s) \/ GrantArrives(s)
  \/ ConnGrantArrives
  \/ Serve
  \/ ServeEnds

Spec == Init /\ [][Next]_vars

\* A client that does not stop before the last byte
GoesOn(s) ==
  MaySend(s) /\ \E n \in 0..(MaxBody[s] - cl.sent[s]), end \in BOOLEAN :
    (end => cl.sent[s] + n = MaxBody[s]) /\ SendData(s, n, 0, end)

\* Goroutines run, frames arrive, and clients go on as often as they have room.
FairSpec ==
  /\ Spec
  /\ WF_vars(ProcessData \/ ProcessDataInError \/ ProcessResetStream)
  /\ WF_vars(ConnGrantArrives)
  /\ \A s \in Streams :
       /\ WF_vars(Reads(s)) /\ WF_vars(NoteBodyRead(s))
       /\ SF_vars(GoesOn(s)) /\ WF_vars(GrantArrives(s))

---------------------------------------------------------------------------
(* Properties *)

Errors == {"none", "EOF", "length", "StreamError", "errClosedBody",
           "errClientDisconnected", "nil"}

\* A buffer never holds more than its size.
PipeType ==
  {p \in [data : Seq(Nat), r : Nat, err : Errors, waiting : BOOLEAN] :
     p.r <= Len(p.data) /\ Len(p.data) <= Window}

ServeType ==
  [serve : {"loop", "done", "panic"}, conn : Nat, reset : SUBSET Streams,
   state : [Streams -> {"idle", "open", "halfClosedRemote", "closed"}],
   win   : [Streams -> 0..Window],
   bytes : [Streams -> Nat],
   decl  : [Streams -> Nat \cup {Undeclared}],
   cont  : [Streams -> {"none", "want", "queued"}],
   pipe  : [Streams -> PipeType]]

ReaderType ==
  [pc : {"none", "continue", "reading", "noting", "ended"}, n : 0..Window,
   err : Errors, got : Seq(Nat)]

FrameType ==
  [kind : {"data", "reset"}, stream : Streams, at : Nat, n : Nat, end : BOOLEAN]

ClientType ==
  [conn : Int, win : [Streams -> Int], sent : [Streams -> Nat],
   ended : SUBSET Streams, whole : SUBSET Streams, padded : [Streams -> Nat]]

\* Every variable keeps its type; the windows stay within their bounds whatever
\* the client sends.
TypeOK ==
  /\ sc \in ServeType
  /\ reader \in [Streams -> ReaderType]
  /\ net \in Seq(FrameType)
  /\ cl \in ClientType
  /\ grant \in [conn : Nat, win : [Streams -> Nat]]
  /\ refused \in [Streams -> Nat] /\ ignored \in Nat /\ events \in Nat

\* A body is read as the client sent it, in order, and ends with EOF only when
\* all of it, and as much as was declared, was read.  No reader is told that
\* nothing was read and nothing is wrong (closeStream closes the pipe of a
\* finished response with nil), upon which io.Copy would ask again for ever.
Bodies == INSTANCE RequestBodies WITH
  sent    <- cl.sent,
  whole   <- {s \in cl.whole : sc.decl[s] \in {Undeclared, cl.sent[s]}},
  read    <- [s \in Streams |-> reader[s].got],
  outcome <- [s \in Streams |-> IF reader[s].err \in {"none", "EOF", "nil"}
                                THEN reader[s].err ELSE "error"]
ImplementsBodies == Bodies!Spec

\* What is missing from the window of an open stream is in its pipe or just
\* being read, so DATA within the window always fits the pipe.
StreamAccounted ==
  \A s \in Streams : sc.state[s] = "open" =>
    sc.win[s] + Unread(sc.pipe[s]) + reader[s].n = Window

\* What is missing from the connection's window is in some pipe, just being
\* read, or was refused by a pipe that its reader closed.
ConnAccounted ==
  sc.conn + SumFunction([s \in Streams |-> Unread(sc.pipe[s]) + reader[s].n + refused[s]])
    = Window

InNet(S) ==
  SumFunction([i \in DOMAIN net |-> IF net[i].stream \in S THEN net[i].n ELSE 0])

\* By how much the two ends of the connection disagree about the windows: the
\* client has less room than the server thinks for each byte of padding, which the
\* server never counts and so never gives back, and for each byte of a frame in
\* error.  But for them and for what is under way they agree.
WindowsAgree ==
  sc.serve = "loop" =>
    /\ cl.conn + grant.conn + ignored + SumFunction(cl.padded) = sc.conn - InNet(Streams)
    /\ \A s \in Streams : sc.state[s] = "open" =>
         cl.win[s] + grant.win[s] + cl.padded[s] = sc.win[s] - InNet({s})

\* A reader that waits in a pipe gets on when its stream or connection ends: what
\* is left in the pipe is read, and then it stops.  (No stream opens again, so the
\* readers of closed streams all stop if each of them does.)
ReadsReturn ==
  <>[](\A s \in Streams : ~(sc.state[s] = "closed" /\ reader[s].pc = "reading"))

\* No byte of room was taken for good.  What is lost never comes back, so this
\* holds infinitely often only if it always does.
NothingLost ==
  /\ ignored = 0
  /\ \A s \in Streams : /\ cl.padded[s] = 0 /\ refused[s] = 0
                        /\ reader[s].pc = "ended" => Unread(sc.pipe[s]) = 0

\* As long as no room is lost, every body comes to its end: a window update is
\* never forgotten while somebody still has to send.
UploadsFinish ==
  []<>NothingLost => []<>(\A s \in Streams : sc.state[s] # "open")
=============================================================================
