# Verification of k8s-proxy

`k8s-proxy` (`src/main.go`) is one process that serves static files, a custom page
for 404s and a generated `config.js`, and forwards requests below two path prefixes
to a Kubernetes (and OpenShift) API server. With a TLS certificate it speaks HTTP/2,
by the vendored package `bradfitz/http2`, to the browsers in front of it. This
directory holds TLA+ modules of the parts in which something can go wrong that a
test would hardly reach, the TLC configurations that check them, and TLAPS proofs of
what matters most.

Paths below are relative to the repository, `http2/` stands for
`src/Godeps/_workspace/src/github.com/bradfitz/http2/` and `kubernetes/` for
`src/Godeps/_workspace/src/github.com/GoogleCloudPlatform/kubernetes/`.

## Inventory

### The proxy's own code

| Part | State | Operations | Correct when |
|---|---|---|---|
| `main` (`src/main.go:42-137`) | the options, the client's base URL, `http.DefaultServeMux` | read options, `New`, `ServerVersion` (with retries on 429), register the handlers, listen | startup ends; what listens is complete; the server probed is the server proxied to |
| Routing and reverse proxies (`main.go:90-108,144-160`, `kubernetes/pkg/kubectl/proxy_server.go`) | none beside the mux | `NewProxyServer`, `newProxyServer`, `osapi`, `stripGenericWebhookBody`, `singleJoiningSlash` | each path reaches the handler its prefix says, and the right URL upstream; only a generic webhook loses its body |
| `hijack404` (`src/main.go:162-208`) | per request: `handled`; shared: the page on disk, the file handles of the process | `WriteHeader`, `Write` under whatever handler runs | a 404 carries the page once and as HTML; nothing else does; a 404 is answered whatever the page does |
| `filters.go` | none | never called | – |

`http.ListenAndServe` runs one goroutine for each request. They share the mux, which
does not change any more, the reverse proxies, which keep no state, and the file
handles.

### The http2 server (`http2/server.go`, `flow.go`, `writesched.go`, `write.go`, `pipe.go`, `buffer.go`)

For each connection there is one `serve` goroutine that owns everything but what is
named here, one goroutine that reads frames, one that writes a frame (at most one at
a time is what the code means, see *Findings*), and one for each handler. They talk over channels:

| Channel | From | To | Capacity |
|---|---|---|---|
| `readFrameCh` | `readFrames` | `serve`, which answers by `processed` | 0 |
| `wantWriteFrameCh` | handlers | `serve` | 8 |
| `wroteFrameCh` | `writeFrameAsync`, and `serve` itself | `serve` | 1 |
| `frameWriteMsg.done`, `stream.cw` | writer, `closeStream` | a waiting handler | 1, closed |
| `bodyReadCh` | handlers that read a body | `serve` | 0 |
| `doneServing` | the end of `serve` | handlers | closed |

| Part | State | Operations | Correct when |
|---|---|---|---|
| Responses | queues, `writingFrame`, `needsFrameFlush`, stream states, each `responseWriterState` | the cases of the select, `scheduleFrameWrite`, `startFrameWrite`, `closeStream`, `writeHeaders`, `writeDataFromHandler`, `writeFrameAsync` | one frame at a time; each response whole and in order; handlers are released; nothing panics |
| Send windows | `flow.n` of streams and connection, `initialWindowSize` | HEADERS, WINDOW_UPDATE, SETTINGS, DATA | never more than the client granted; a grant is taken unless it is too large; the int32 arithmetic is exact |
| Priorities | `stream.parent` | HEADERS, PRIORITY, closing | the dependencies are a tree |
| Request bodies | `pipe`, `buffer`, `inflow`, `bodyBytes`, `declBodyBytes`, 100-continue | DATA, `Read`, `Close`, `noteBodyRead` | no byte lost, windows given back, readers released |
| Lifecycle | preface, first SETTINGS, stream count, GOAWAY, timers, the reader goroutine | `readPreface`, `readFrames`, `processFrameFromReader`, `goAway`, `shutDownIn` | every goroutine ends; the limits of streams hold; GOAWAY tells the truth |
| Header compression (`http2/hpack/`) | the dynamic table of the encoder and of the client's decoder, the sizes announced | `WriteField`, `SetMaxDynamicTableSize`, `parseHeaderFieldRepr` | both tables stay the same; each field arrives |
| Framing (`http2/frame.go`) | a buffer for the frame at hand | parse and print one frame | – |

### Linked and not run, or run once

The Kubernetes client library is used for `New`, `ServerVersion` and `TransportFor`;
the http2 client transport, `go-restful`, `cobra`, `yaml`, `glog` and the rest of
Kubernetes are linked and not reached. `go-flags` parses the command line before
anything else happens.

### What is hard here

`PROJECT.json` lists the hazards line by line. In groups:

* what goroutines may do between two iterations of `serve`: a handler that sends a
  frame for a stream that was closed meanwhile, a wakeup that stands for no frame, a
  buffer that goes back to its pool too early;
* handlers that wait for something nobody is going to do, when a stream or the
  connection ends under them;
* sequences of frames the client chooses: priorities, resets, sizes of windows,
  bodies that are shorter or longer than declared, streams beyond the limit;
* what is counted at both ends of the connection by events that are under way, the
  windows and the tables of headers;
* timers that race what they wait for, and an end that has to reach goroutines
  which block in a read, a write or a channel;
* a handler contract (`http.ResponseWriter`) that `hijack404` bends: it reports 0
  bytes for what it takes over, on which `io.Copy` and `bufio` rely;
* startup that reads the same file three times and drops two errors;
* one option that becomes a URL in three ways, and path joining.

## Modules

| Module | Models | Role |
|---|---|---|
| `Handle404` | `hijack404`, and the handlers that write through it | component |
| `ProxyMain` | `main`, `NewProxyServer`, what they use of the client library, `http.ServeMux` | component |
| `FlowControl` | `flow.go`, the frames that move windows, the cutting of DATA | component |
| `Http2Windows` | windows that are integers | abstract specification of `FlowControl` |
| `StreamPriority` | `adjustStreamPriority` and its callers | component |
| `ServerConn` | `serve`, the scheduler, the writers and the handlers' side of `server.go` | component, composes the goroutines of a connection that respond |
| `Responses` | what a client may see of its responses | abstract specification of `ServerConn` |
| `RequestBody` | `processData`, `pipe.go`, `buffer.go`, `requestBody`, `sendWindowUpdate`, 100-continue, with the client on the other side | component, composes client, `serve` and readers |
| `RequestBodies` | what a reader may see of a body | abstract specification of `RequestBody` |
| `ConnLifecycle` | `handleConn`, `readPreface`, `readFrames`, `processFrameFromReader`, opening and refusing streams, `goAway`, the timers and the end | component, composes the goroutines from the first byte to the last |
| `Http2Connection` | what a client may conclude about its requests | abstract specification of `ConnLifecycle` |
| `HeaderTables` | `hpack` and who calls it when | component, composes encoder, decoder and SETTINGS |
| `*_proof` | | the theorems about the module of that name |
| `MC*` | | symmetry sets and values of constants for TLC |

`ServerConn` and `StreamPriority` need neither and are run as they are.

Four components are shown to implement an abstract specification, by a refinement
mapping that is written into the component:

| Component | `INSTANCE` | Mapping |
|---|---|---|
| `FlowControl` | `Http2Windows` | the windows of open streams, the connection's, and what was `lost`, by name |
| `ServerConn` | `Responses` | `wire`, a variable that records what the writers sent |
| `RequestBody` | `RequestBodies` | `sent` is what the client sent, `whole` the bodies it ended as long as their length is the declared one, `read` what `Read` returned, `outcome` its error |
| `ConnLifecycle` | `Http2Connection` | `phase` from where `serve` is and its `goAway`; `served` the streams that have got a handler; `last` the stream GOAWAY named |

### How they correspond to the code

**Handle404.** `handled`, `header` and `wire` of a request are `hijack404.handled`,
the header map, and the response as sent; `RawHeader` and `RawWrite` are the
`ResponseWriter` below the wrapper (external: `net/http` of Go 1.3), of which HTTP/1
enforces a `Content-Length` and http2 does not. `HijackWriteHeader` and
`HijackWrite` are the two methods, whole: opening, `Stat`, `ReadAll`, the type set
too late, the handle that is not closed, the error of `ReadAll` that is not looked
at (a page may be `torn`, or a directory), and the result 0. The actions are the
handlers that use the writer: `http.Error` in two steps, a failed and an answered
round trip, `io.Copy` one iteration at a time, `http.FileServer`, `config.js`.
Between any two of them the page changes on disk, and a garbage collection closes
handles that were lost. Bodies are sequences of pieces, since only what a piece is
and how long it is matters.

**ProxyMain.** `phase` is how far `main` has come, one action a step. A path is a
sequence of pieces, `"/"` and names, so that prefixes, slashes at the ends and
segments can be told apart without characters. `mux` is the table of
`http.DefaultServeMux`, with its rules of matching (external). `Served` is the whole
way of one request: `cleanPath`, the mux, `StripPrefix`, the director, the
transport. Registering panics where `http.Handle` does.

**FlowControl.** `win`, `conn`, `initial` are `stream.flow.n`, `serverConn.flow.n`,
`initialWindowSize`. `AddOK` and `Added` are `flow.add` in arithmetic that wraps
(`Wrap`), at the width `MaxWindow` stands for. `InitialWindowSize` ends the
connection where `flow.add` refuses, with some of the streams already moved (map
order). A queued DATA frame is the number of its bytes. `stage` tells how a stream
left `sc.streams`, since that decides what becomes of a frame its handler still
hands over: a reset (`CloseStream`) forgets what is queued, but not a frame that
waits in `wantWriteFrameCh`, which is queued afterwards (`QueueData`), taken and paid
for (`Pay`) and then skipped (`SkipFrom`) instead of written (`TakeFrom`).
`handlers` are those that may still hand one over; a handler whose frame came late
learns of the reset from `stream.cw`, and its `bufio.Writer` keeps that error, so it
is one frame at most. `lost` counts what was paid for and not sent; it is history.
`Http2Windows` says when a grant may be refused (`Refusable`) and what follows: the
stream is closed for an increment, the connection for its own or for a new initial
size, with some of the windows moved.

**StreamPriority.** `parent` is `stream.parent`, `stage` whether the stream is in
`sc.streams`. `Adjusted` is `adjustStreamPriority` as an operator on the tree. The
loop over a parent chain is `OnChain`, said as reachability so that it can be
reasoned about; `LoopDecides` checks it against the walk the code does.

**ServerConn.** The record `sc` is what `serve` owns, with the value in
`wroteFrameCh` (`wrote`) and the goroutines that write (`writers`). One iteration of
the select is an action; the functions it calls (`Add`, `Take`, `TakeFrom`,
`StartFrameWrite`, `EndStream`, `CloseStream`, `Schedule`) are operators from `sc`
to `sc`, in the order the code calls them. `sc.skipped` counts the frames that were
skipped; it is history. `take` picks streams in map order, so
`Schedule` gives a set. The record of a handler is the point it has reached in
`writeChunk` or `handlerDone`, and `writeFrameAsync` takes two steps, the write with
its answer to the handler and the wakeup. `serve` blocked on its own channel and a
panic are values of `sc.serve`. Left out, and named in the module: windows of single
streams (in `FlowControl`), request bodies but for their end, priorities (in
`StreamPriority`), the first bytes of the connection.

**RequestBody.** `sc.pipe[s]` is a stream's `pipe` with its `buffer`: `data` is `buf`
up to `w`, `r` is `r`, and byte `i` of a body is the number `i`, so that order and
loss show. `Slide` and `WritePipe` are `buffer.Write`, `ClosePipe` is `pipe.Close`.
`InError` and `TakeData` are `processData` in its order: what is checked before the
windows are touched, and what after. `sc.cont` is a stream's 100-continue on its way
from `requestBody.Read` to `startFrameWrite`. A reader is the handler or the
transport that forwards its request; `NoteBodyRead` is the meeting of
`noteBodyReadFromHandler` and `serve`. The client keeps its own windows, with DATA,
RST_STREAM and WINDOW_UPDATE frames under way. `SendData` may pad a frame: the client
pays for the padding, as the draft has it
(`http2/testdata/draft-ietf-httpbis-http2.xml:1629`), and `parseDataFrame` drops it
before `serve` sees the frame (`frame.go:440`), so that the frame under way has none.
`refused` and `ignored` count bytes the code forgets, `cl.padded` the padding; they
are history, and no action looks at them.

**ConnLifecycle.** `sc.pc` is how far `serve` is (`start` in `handleConn`, `preface`,
`loop`, and the deferred calls `released`, `closing`, `done`). `preface`, `reader`
and `writer` are the goroutines it starts. `Headers`, `Continuation`, `Fragment`,
`CloseStream`, `ResetStream` and `GoAway` are functions of `serve` from its state to
its state. `Scheduled` is `scheduleFrameWrite` as far as GOAWAY is concerned; any
other frame is one that `StartFrame` begins. `sc.handler` counts a request as served
from the `go sc.runHandler`. Left out: what the streams' handlers send.

**HeaderTables.** `enc.table` and `dec.table` are `dynamicTable`, whose entries are
fields. `WriteField` is three steps, since `serve` runs beside it: `AnnounceSize`,
`SearchTable`, `PutField`. `SetMaxDynamicTableSize` is two. `wire` is a sequence of
representations; their bytes are left out. The decoder on the client's side is this
package's own; that a client applies its SETTINGS when they are acknowledged is an
assumption about clients. `WhileEncoding` lets `serve` process SETTINGS during
`WriteField`, as the code does; without it `serve` waits, as the comment at
`server.go:363` has it.

## Runs

| Run | Asks | Bounds |
|---|---|---|
| `error_page` | what a 404 carries, on HTTP/1 and http2, while the page comes, goes and is torn and handles run out; that a request loses one handle at most | 2 requests, 2 handles, up to 3 chunks, lengths 2, 1, 1, 1 |
| `proxy` | startup ends and what listens is complete; where each request goes | 8 masters, 3 by 4 by 3 prefixes, 15 paths, 2 retries |
| `windows` | int32 windows implement integer ones (`Http2Windows`), which says what is granted, refused, sent and lost; DATA overdraws nothing | windows of three bits, 2 streams, frames of up to 3 bytes |
| `priority` | the tree stays a tree; an exclusive stream has no open sibling | 4 streams |
| `responses_end` | types; no panic of `serve` or a writer; `writingFrame` against the writes under way; when `serve` ends, every handler returns | 1 handler, all that a client does, frames in two parts, 1 SETTINGS or PING |
| `responses_steady` | each response whole (`Responses`); handlers return | 2 handlers, nothing reset |
| `bodies` | what is read is what was sent (`RequestBodies`); where every byte of the windows is; no reader stays in a pipe of a closed stream; no upload waits for a window that is never given back | uploads of 3 bytes and of 1, windows of 2, 1 frame under way, 1 of 8 mishaps |
| `lifecycle` | the limit of streams; GOAWAY is sent and kept (`Http2Connection`); the connection and its goroutines end | 3 streams of which 1 may be open |
| `headers` | fields arrive; the tables agree; limits are in force once acknowledged | 4 fields of 5 kinds, 2 SETTINGS of 3 sizes, tables of 3 |
| `responses_stuck` | violated: `serve` never blocks | 2 handlers, resets |
| `responses_writers` | violated: one frame is written at a time | 2 handlers, resets |
| `headers_race` | violated: the encoder belongs to the writer | as `headers`, with SETTINGS at any time |

The last three show a disagreement between the code and a comment in it; see
*Findings*.

**Why the bounds are enough.** The lengths in `Handle404` make the page longer than
a chunk and a body of chunks longer than the page, so that each order of their sizes
against a `Content-Length` occurs; two handles are fewer than two requests and a
lost page need. Three-bit windows reach every sum that wraps, and a frame of 3 bytes
(`MaxData`) is cut to any window and to `MaxFrame = 2`; the proofs cover every
width. Four streams have a chain of three between a stream and the one it
moves below, with closed ones on it; the proofs cover any number. Two retries have a
first, one in the middle and a last, where the code has ten. `Request` serves one
request, since none leaves anything for the next to meet. The values of the options
hold each combination that the joining and matching of paths tell apart.

In `ServerConn`, `WantCap = 1` instead of 8 makes a full channel a common state
rather than one of nine handlers; two handlers make every race of two frames;
`MaxData = 2` with `MaxFrame = 1` or `Window = 1` makes a frame go out in two parts;
`MaxWrites` and `MaxControl` bound how often a buffer is flushed and how many
SETTINGS and PINGs arrive; a client that grants room only when it has run out keeps
the window finite; with room left a grant changes only where `takeFrom` cuts a
frame, which `FlowControl` covers. `Events` splits the client's acts over the runs,
whose product TLC cannot exhaust. `responses_steady` leaves out resets because a
second writer may then start, and two write in any order: see *Findings*.

In `RequestBody`, a `Window` of 2 and a body of 3 make a pipe fill up, be read in
part and slide; a second stream with a body of 1 competes for the window of the
connection (`MaxBody`, by stream). The first may declare a length of 2 (`Lengths`),
which is more, as much, or less than it sends. `NetCap` is the number of frames under
way, `MaxPad` the padding of one, and `MaxEvents` the number of mishaps: one of each
makes every race with what is already queued. The safety properties and the
refinement are also proved, for any of these. In `ConnLifecycle`, three streams
(`MaxStream`) and a limit of one (`AdvMaxStreams`) give a stream that is served, one
that is refused and one that is new after that. In `HeaderTables`, a table of 3
(`TableSize`) holds none, one or several of fields with lengths 1 and 3, and 4
fields (`MaxFields`) with 2 SETTINGS (`MaxSettings`) of `Sizes` 0, 2 and 4 have a
table that shrinks and grows between two headers, a size above the largest the
server uses, and an entry found again after an eviction; the proofs cover any of them.

**Fairness.** `ProxyMain`'s `FairSpec` has `WF(Startup)`: `main` is one goroutine
that waits for nothing else; the answer of the API server has none, as the probe has
no timeout, and so `StartupEnds` allows to wait for ever. `ServerConn`'s `FairSpec`
has weak fairness of each ready case of the select, which Go chooses at random, of
each handler and of the writers, which are goroutines that Go schedules (a write
fails at the latest when the connection is closed). `GrantingSpec` adds that the
client makes room for the responses it asked for as long as it is connected; without
it no server could promise that handlers return. A handler here returns in finitely
many steps when it is not blocked.

`RequestBody`'s `FairSpec` has the same of `serve` and of the readers, and of frames
that they arrive. The client sends more again and again when it has room
(`SF(GoesOn(s))`, strong because the other stream may take the room of the
connection first, and both get their turn). No mishap is fair. `UploadsFinish` is
about behaviours in which no room is lost, to padding, errors or bodies that nobody
reads (`NothingLost`), which the code cannot promise: see below. What is lost never
comes back, so it is enough to ask for `[]<>NothingLost`, and for `ReadsReturn` that
in the end no reader waits in the pipe of a closed stream, since streams stay closed.
TLC checks properties of that form without a graph of their own. `ConnLifecycle`'s `FairSpec` has timers that fire, cases of the select
that are taken, and reads and writes that return once the connection is closed or
the client has left; that the client sends or reads anything is not assumed, nor
that handlers return. `ConnectionEnds` therefore says that the server's own timers
are enough.

Deadlock is not checked where the system may stop: all requests served, the process
exited, the connection gone, a client that sends no more.

## Proofs

All are by an inductive invariant, one lemma per action, and hold for every value of
the constants under the `ASSUME`s of the modules, which TLC evaluates too.

* **Handle404_proof.** `ErrorBodyIsPage` alone is not inductive: that the page is
  sent once depends on the point the handler has reached. `Phase` adds what is known
  at each: before the header nothing is sent; a copy over a hijacked writer has
  chunks left to move only while nothing was sent, which is where the result 0 of
  `Write` enters. `LeakBound` charges each lost handle to a request that has passed
  its one write (`Spent`). Assumptions: positive lengths and finitely many requests.
* **FlowControl_proof.** `TypeOK /\ NoOverdraft` is inductive with `LateFrames`, which
  says that what a closed stream's handler may still hand over is one frame, paid for
  at most once (`lost` and the frame in the queue are within `MaxData`). A window
  below zero is within `MaxWindow` of the initial size, so no change of the initial
  size is large enough to wrap past the test of `flow.add` (`ShrinkingRefused`): what
  would wrap is refused. `AddExact` and `AddRefusesBelowZero` are `flow.add` on both
  sides of zero, and with them `Exact` concludes that `FlowControl` implements
  `Http2Windows`, initial states and steps: each refusal has its reason, and each
  step that takes from the connection's window is a `Send` or a `Lose`.
* **StreamPriority_proof.** `TypeOK /\ Acyclic` is inductive. `AdjustedTree` turns a
  set of streams closed under the new parents into one closed under the old, by
  adding the chain from `p` to the stream. `ExclusiveAlone` is an action property
  from the same invariant. `LoopEnds` follows from it for finitely many streams
  (`StreamsAssumption`): a walk that went on for as many steps as there are streams
  would have met one of them twice, and the streams between would be a cycle.
* **RequestBody_proof.** The invariant follows each byte. `Chained` says that the
  DATA under way continues where the stream's count of bytes ends and leads to what
  the client has sent; `Numbered` that a pipe holds, in order, what came and was not
  read; `Ending` that a pipe ends with EOF only if all there is was put into it;
  `Fresh` and `Reading` what idle streams and resting readers are like; `Account`
  is `StreamAccounted`, from which `WriteFits` concludes that DATA within the window
  never finds the pipe full. The lemmas about pipes (`SlideKeeps`, `WriteFits`,
  `CloseKeeps`) are about any buffer. `BodiesImplemented` maps each step to a send,
  a read or a stutter: bytes in windows, pipes and frames are invisible. The second
  part is about the window of the connection, which all streams share. `Books` says,
  as sums over the streams and over the frames under way, what is missing from the
  server's window (`ConnsAccounted`) and how far the client's windows are from the
  server's (`WindowsAgreed`): by the padding the client has paid for (`Padding`) and the
  bytes of frames in error, and else only by what is under way. It needs the first invariant on both sides of a step:
  what a step moves is known from `Chained` and `Account`. The lemmas on sums (they
  exist, are unique, change with one summand) argue by a smallest counterexample.
  Assumption: finitely many streams.
* **ConnLifecycle_proof.** The invariant says that the counter is the number of open
  streams, one more than the limit only while the header of the newest is being
  read (`Counted`), that GOAWAY named the newest stream and none is newer since
  (`Named`), and that a GOAWAY that waits has a frame to wait for (`Written`,
  `GoAwayWaits`). `Does` relates the state before a function of `serve` to the one
  after it; `Schedules` turns that into a step of the invariant and of
  `Http2Connection` at once.
* **ServerConn_proof.** `NoPanic` follows from an invariant about the frames of one
  stream, wherever they are (in `want`, in its queue, with a writer): they are in
  order, and only the last may end the response or be waited for (`LastOnly`); a
  handler whose end was given sends nothing more (`Finished`); a stream that was
  closed and not reset has nothing left (`ClosedInv`); a handler gets one answer for
  each frame it waits for (`OneAnswer`). So a frame for a closed stream is one of a
  reset stream, and a writer always finds room for its answer. `ScheduleKeeps`
  carries all of it through `scheduleFrameWrite`, whatever is taken. `WritesAreAccounted`
  needs `Accounted` of every state in which `serve` may schedule: what is under way
  beyond the one frame of `writingFrame` is at most what was skipped (`Excess`),
  since a skipped frame leaves a wakeup without a write and a wakeup clears the flag
  of one write. It holds with resets. `ResponsesImplemented` is under the assumption
  `Steady` that neither "reset" nor "streamError" is among the `Events`, by which
  nothing is skipped and one frame is with a writer or written (`Flying`): each step of
  `ServerConn` is one of `Responses` or invisible there. As long as the connection is
  there, the invariant (`Tracking`) knows for each stream where the header is, which
  is first in its queue and written before anything else is taken (`HeaderInv`),
  where its bytes are, delivered, with the handler, queued or being written
  (`BytesInv`), and that the end comes last (`EndInv`). `TakeMoves` is what
  `takeFrom` moves from the queue to the writer, `Arrives` what the write moves on to
  the client. It uses that there is one writer (`Flying`): two could write in either
  order.
* **ProxyMain_proof.** The invariant says what `main` has done at each phase: how
  often the probe was sent (`Counted`) and what is registered so far (`Registered`).
  From it follow the bound on the retries and `RoutesTogether`, for any options,
  files and answers. `Configured` adds under which prefix each handler is, and that
  the client's target is the master. `StraightThrough` and `HooksWithoutBody` then
  come down to lemmas about paths: which pattern the mux takes for a path that is
  clean, what `StripPrefix` leaves of it (`PrefixSplits`, `RestOfPath`), what
  `singleJoiningSlash` makes of that (`ApiJoined`, `OsApiJoined`). The property
  `WebhookBodyDropped` is about the path that arrives upstream, the test of
  `stripGenericWebhookBody` about the one behind the prefix; the proof shows that
  they name the same requests, whatever the prefix (`HookIsFive`, `TakingTurns`).
  Assumptions: a master without a scheme has no path but a slash, and where a path may
  be a webhook's, its names are in one piece.
* **HeaderTables_proof.** The decoder is behind the encoder by what is on its way, so
  the invariant says that the messages in `wire` lead it from where it is to where
  the encoder is: there is a `Path` of places, one before and one after each message
  (a table, a number of fields, a number of acknowledgements), each of which the
  decoder gets to from the last by that message. The server adds a place at the end
  (`PathAppend`), the client takes the first away (`PathTail`), and its SETTINGS
  change what is allowed on the way (`PathAllowed`, `PathAcked`). Two facts carry it.
  `FitTwice`: entries that were cut to one size and then to another are those that
  the smaller one leaves, which is why `WriteField` need tell only the least size and
  the last. `Owed`: acknowledgements, those on their way and the one `serve` owes,
  are never more than the SETTINGS it processed, so one flag for all of them delays
  what a client may count on and never advances it. Under `~WhileEncoding`, that SETTINGS
  and headers are processed one after the other, which finding 3 shows the code not
  to keep; without it `FieldsDoArrive` would be false. Assumption: lengths are numbers.

Every invariant and action property that a passing run checks is stated by a
theorem. Only model-checked is liveness, which the prover cannot reach:
`StartupEnds`, `EndReleasesHandlers`, `HandlersReturn`, `ReadsReturn`,
`UploadsFinish`, `ConnectionEnds` and `EndReleasesAll`. That the code does not do
what `ServeNeverBlocks`, `OneWriter` and `EncoderOwned` say is shown by runs alone.

## Findings

Three runs check a comment that the code does not keep; TLC finds each violated.
`PROJECT.json` quotes the sentences.

1. `responses_stuck`: a frame of a reset stream is skipped by putting a wakeup in
   `wroteFrameCh`; two in a row block `serve` on its own channel.
2. `responses_writers`: that wakeup may be read when another frame has just been
   started. `serve` takes it for the end of that frame, clears `writingFrame`, and
   starts a second writer beside the first, on the same framer. `WritesAccounted`
   says how far it can go: one write too many for each frame that was skipped.
3. `headers_race`: `serve` resizes the encoder's table while another goroutine may be
   encoding with it. The flag that a size has to be told is taken by the header that
   is being encoded, with the old size, and the new size is never told; from there
   on the client decodes something else, or fails.

What the passing properties leave room for, because the code does it:

* A 404 whose handler writes no body is sent empty: `LocalNotFoundAnswered` is about
  the answers the proxy makes itself.
* The page is sent under the `Content-Length` of the body it replaces. HTTP/1 refuses
  what exceeds it, http2 sends a malformed response; `ErrorBodyIsPage` allows both.
* A reset does not release a handler that waits for its header to be written, only
  the end of `serve` does: `HandlersReturn` is checked where nothing is reset.
* `startFrameWrite` closes the stream of a last frame before it is written, which
  releases the handler, and its buffer is reused while the writer reads it. Bytes of
  responses are counted in `ServerConn`, not compared.
* On a window below zero, `flow.add` computes the room in int32, which wraps, and
  refuses every increment, although the sum would not exceed 2^31-1, which is what its
  comment says of a refusal (`flow.go:42`). A WINDOW_UPDATE for such a stream resets
  it, and every SETTINGS_INITIAL_WINDOW_SIZE ends the connection while there is one:
  `Http2Windows` lets a window below zero refuse (`Refusable`).
* A DATA frame that waits for `serve` while its stream is reset is queued after it,
  takes its bytes from the connection's window and is skipped: the client never gets
  them and never gives that room back. `Http2Windows` counts it (`Lose`), one frame
  for each stream.
* `main` drops the error of `NewProxyServer` and may listen without API and files:
  `RoutesTogether` says that it is both or neither.
* A bare `host:port` passes the version probe and then fails for each request:
  `ProxiedStraightThrough` is about what reaches an upstream.
* An `--api-prefix` without a slash at its end is an exact pattern, which serves
  nothing below it.
* An exclusive dependency adopts open siblings, not the open streams below a closed
  sibling: `ExclusiveHasNoSibling` is about the first.
* The bytes of a body that nobody reads, or that came for a pipe its reader had
  closed, are never given back to the connection: `ConnAccounted` counts them in
  `refused` and in the pipe, `UploadsFinish` assumes there are none.
* DATA that is an error of its stream is not taken from the connection window,
  though the client has spent it there (the draft in `http2/testdata` wants it
  counted): `WindowsAgree` has them in `ignored`.
* Padding is not counted at all: the draft charges the whole payload of DATA
  (`http2/testdata/draft-ietf-httpbis-http2.xml:1629-1630`), `parseDataFrame` drops
  the padding (`frame.go:440`) and `processData` takes `len(data)`. A client that pads
  loses that room on the stream and on the connection for good, and at last may send
  nothing more: `WindowsAgree` has it in `padded`, `UploadsFinish` assumes there is
  none.
* What is read of the page before a read fails is sent as the page, and nothing if
  that is nothing: `ErrorBodyIsPage` allows a part where the page may be `torn`,
  `LocalNotFoundAnswered` leaves out directories.
* The 100-continue of a body that is first read after its handler returned makes
  `serve` panic.
* A reader that has read and is telling `serve` how much hangs for ever when `serve`
  has ended (`server.go:1476`): `ReadsReturn` is about the one that waits in a pipe.
* `readFrames` may hold a frame for ever that `serve` never takes
  (`EndReleasesAll` lets it be in `send`).
* An error of a stream found by the framer ends the reader, although it is to affect
  one stream only (`http2/errors.go`); nobody notices then that the client leaves.
* One flag stands for the acknowledgements of several SETTINGS; a client that counts
  them waits for the rest.

## Not modelled

The map covers about a thirtieth of the lines of the repository. All that is left is
vendored code: of 67 500 lines, 250 are the proxy's own and some 4 000 the http2
server's and its header compression. The rest is linked because the Kubernetes
client library imports it, and no call of `main.go` reaches it: API types and their
conversions, `yaml`, `cobra`, `go-restful`, `glog`, the other commands of `kubectl`,
the http2 client. A model of what never runs would say nothing about the program.

Of what does run, not modelled are:

* `frame.go`: one frame is parsed or printed at a time with no state that is shared.
  Its errors are inputs of `ConnLifecycle`, its limits on settings and increments
  are in `FlowControl`.
* In `hpack`, the bytes of representations: integers, Huffman codes, and
  representations that two frames share.
* `go-flags`, which parses the command line before anything else happens; `glog`.
* Formats, such as the text of `config.js`, which `fmt.Fprintf` takes for a format
  string, so that a percent sign in an option garbles it: no property here is about
  them.
* `filters.go`, which nothing calls.

## Plan

Done, in this order: `Handle404`, `FlowControl` with `Http2Windows`,
`StreamPriority`, `ProxyMain`, `ServerConn` with `Responses`, `RequestBody` with
`RequestBodies`, `ConnLifecycle` with `Http2Connection`, each with its proofs;
`HeaderTables`; then the theorems on the paths of `ProxyMain`, on the windows of the
connection, on the walk of `adjustStreamPriority` and on the tables of headers.

Left: **composition** of `ServerConn` with `RequestBody` in one state, for responses
and bodies that share the queues of the scheduler; today each sees the other as
events that may happen at any time.
