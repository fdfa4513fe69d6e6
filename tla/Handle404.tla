----------------------------- MODULE Handle404 -----------------------------
(***************************************************************************)
(* The 404 hijacking of k8s-proxy (main.go, Handle404 and hijack404).      *)
(*                                                                         *)
(* Every request is served by http.DefaultServeMux through a hijack404     *)
(* wrapped around the connection's ResponseWriter.  The wrapper turns the  *)
(* body of a 404 into the configured error page.  Requests run on          *)
(* goroutines of their own and share the process's table of file handles   *)
(* and the error page on disk.                                             *)
(*                                                                         *)
(* A body is a sequence of pieces (the page, the "404 page not found"      *)
(* text, a chunk copied by io.Copy, config.js); only their lengths matter. *)
(***************************************************************************)
EXTENDS Integers, Sequences, FiniteSets

CONSTANTS
  Requests,   \* the requests of one run of the server
  PageLen,    \* bytes of the error page
  PartLen,    \* bytes of it that are read before a read fails
  TextLen,    \* bytes of the text "404 page not found"
  ChunkLen,   \* bytes one io.Copy iteration moves
  MaxChunks,  \* bound: most iterations one copied body takes
  FdLimit,    \* file handles the process may have open
  Pages       \* the conditions the error page on disk goes through

ASSUME LengthsAssumption ==
  /\ PageLen \in Nat \ {0}
  /\ PartLen \in Nat \ {0}
  /\ TextLen \in Nat \ {0}
  /\ ChunkLen \in Nat \ {0}
  /\ MaxChunks \in Nat
  /\ FdLimit \in Nat

ASSUME RequestsAssumption == IsFiniteSet(Requests)

\* A page that opens and reads, one that is not there, one whose Stat fails, and
\* two that cannot be read: to the end, or (a directory) at all.
PageConditions == {"ok", "missing", "unstatable", "torn", "directory"}

ASSUME PagesAssumption == Pages \subseteq PageConditions /\ Pages # {}

VARIABLES
  pc,       \* where the goroutine of each request is
  proto,    \* the protocol of its connection
  source,   \* who answers it: the proxy itself, a file, the API server
  handled,  \* hijack404.handled
  header,   \* the header map the handler fills in
  wire,     \* the response as the connection has it
  toCopy,   \* chunks io.Copy has still to move
  held,     \* requests whose handler holds a static file open
  leaked,   \* handles hijack404.Write opened; only a collection closes them
  page      \* the condition of the error page on disk

vars == <<pc, proto, source, handled, header, wire, toCopy, held, leaked, page>>

Undeclared == -1  \* no Content-Length
Unsent     == 0   \* no status line yet

Pieces == {"page", "part", "text", "chunk", "config"}

Protocols    == {"http1", "http2"}
Sources      == {"none", "proxy", "file", "upstream"}
Control      == {"start", "errorBody", "copy", "done"}
ContentTypes == {"none", "text", "html", "upstream", "javascript"}
Statuses     == {Unsent, 200, 404, 500}

PieceLen(p) == CASE p = "page"  -> PageLen
                 [] p = "part"  -> PartLen
                 [] p = "chunk" -> ChunkLen
                 [] OTHER       -> TextLen

---------------------------------------------------------------------------
(* The ResponseWriter under the wrapper: net/http's for HTTP/1, and the    *)
(* http2 package's, which checks no Content-Length of a response.          *)

\* The first WriteHeader sends the status and snapshots the header map; what
\* the handler sets in the map later is never seen by the client.
RawHeader(w, h, code) ==
  IF w.status # Unsent
  THEN w
  ELSE [w EXCEPT !.status = code, !.ctype = h.ctype, !.clen = h.clen]

\* HTTP/1 counts what it is given and refuses to exceed Content-Length.
RawAccepts(p, w, len) ==
  p = "http1" /\ w.clen # Undeclared => w.count + len <= w.clen

\* Write sends an implicit 200 first when no header was written.
RawWrite(p, w, h, piece) ==
  LET sent == RawHeader(w, h, 200) IN
  [sent EXCEPT !.count = @ + PieceLen(piece),
               !.body  = IF RawAccepts(p, sent, PieceLen(piece))
                         THEN Append(@, piece) ELSE @]

---------------------------------------------------------------------------
(* hijack404 *)

HandlesOpen == leaked + Cardinality(held)

\* http.Dir.Open of the error page
PageOpens == page # "missing" /\ HandlesOpen < FdLimit

\* Mutation: the html type is set in the map after the header is written.
TypeAfterHeader(r, h, code) ==
  /\ header'  = [header EXCEPT ![r] = IF code = 404 THEN [h EXCEPT !.ctype = "html"] ELSE h]
  /\ handled' = [handled EXCEPT ![r] = @ \/ code = 404]
  /\ wire'    = [wire EXCEPT ![r] = RawHeader(@, h, code)]

\* hijack404.WriteHeader: the html type has to be in the map before the
\* wrapped WriteHeader takes its snapshot.
HijackWriteHeader(r, h, code) ==
  LET typed == IF code = 404 THEN [h EXCEPT !.ctype = "html"] ELSE h IN
  /\ header'  = [header EXCEPT ![r] = typed]
  /\ handled' = [handled EXCEPT ![r] = @ \/ code = 404]
  /\ wire'    = [wire EXCEPT ![r] = RawHeader(@, typed, code)]

\* Mutation: a page that cannot be opened or stat'ed sends nothing.
SubstituteOrNothing == IF PageOpens /\ page = "ok" THEN {"page"} ELSE {}

\* What hijack404.Write hands on once it has taken over a 404: the plain text
\* when the page cannot be opened or stat'ed, otherwise as much as was read: the
\* error of ReadAll is not looked at.
Substitute ==
  CASE ~PageOpens \/ page = "unstatable" -> {"text"}
    [] PageOpens /\ page = "ok"          -> {"page"}
    [] PageOpens /\ page = "torn"        -> {"part"}
    [] PageOpens /\ page = "directory"   -> {}

\* The response after hijack404.Write was called with one piece.
HijackedWire(r, h, piece) ==
  IF ~handled[r] THEN RawWrite(proto[r], wire[r], h, piece)
  ELSE IF Substitute = {} THEN wire[r]
  ELSE RawWrite(proto[r], wire[r], h, CHOOSE s \in Substitute : TRUE)

\* hijack404.Write, called by the handler of r with one piece.  The handle of
\* a page that opened is never closed, and the type detected from its contents
\* is set in the map too late for the client to see.
HijackWrite(r, h, piece) ==
  /\ wire' = [wire EXCEPT ![r] = HijackedWire(r, h, piece)]
  /\ leaked' = IF handled[r] /\ PageOpens THEN leaked + 1 ELSE leaked
  /\ header' = [header EXCEPT ![r] =
        IF handled[r] /\ PageOpens /\ page # "unstatable"
        THEN [h EXCEPT !.ctype = "html"] ELSE h]

\* Mutation: a hijacked Write returns len(p).
ReportsAllHijacked(r, piece) == RawAccepts(proto[r], wire[r], PieceLen(piece))

\* Whether that Write reports to its caller that all bytes were taken: a
\* hijacked one always returns 0.
WriteReportsAll(r, piece) ==
  ~handled[r] /\ RawAccepts(proto[r], wire[r], PieceLen(piece))

---------------------------------------------------------------------------
(* The handlers behind the mux that write through the wrapper. *)

NoHeader  == [ctype |-> "none", clen |-> Undeclared]
NoAnswer  == [status |-> Unsent, ctype |-> "none", clen |-> Undeclared,
              count |-> 0, body |-> <<>>]

Init ==
  /\ pc      = [r \in Requests |-> "start"]
  /\ proto   \in [Requests -> Protocols]
  /\ source  = [r \in Requests |-> "none"]
  /\ handled = [r \in Requests |-> FALSE]
  /\ header  = [r \in Requests |-> NoHeader]
  /\ wire    = [r \in Requests |-> NoAnswer]
  /\ toCopy  = [r \in Requests |-> 0]
  /\ held    = {}
  /\ leaked  = 0
  /\ page    \in Pages

Goto(r, label) == pc' = [pc EXCEPT ![r] = label]
From(r, s)     == source' = [source EXCEPT ![r] = s]

\* http.Error(w, "404 page not found", 404), its header: no route, or a file
\* that does not open.
NotFound(r) ==
  /\ pc[r] = "start"
  /\ HijackWriteHeader(r, [header[r] EXCEPT !.ctype = "text"], 404)
  /\ From(r, "proxy") /\ Goto(r, "errorBody")
  /\ UNCHANGED <<proto, toCopy, held, leaked, page>>

\* ... and its body, one Write whose result nobody looks at.
ErrorBody(r) ==
  /\ pc[r] = "errorBody"
  /\ HijackWrite(r, header[r], "text")
  /\ Goto(r, "done")
  /\ UNCHANGED <<proto, source, handled, toCopy, held, page>>

\* ReverseProxy.ServeHTTP when the round trip fails: a 500 without a body.
RoundTripError(r) ==
  /\ pc[r] = "start"
  /\ HijackWriteHeader(r, header[r], 500)
  /\ From(r, "proxy") /\ Goto(r, "done")
  /\ UNCHANGED <<proto, toCopy, held, leaked, page>>

\* ReverseProxy.ServeHTTP when the API server answers: its status and header
\* are passed on, and io.Copy is about to move a body of n chunks.
RoundTrip(r) ==
  /\ pc[r] = "start"
  /\ \E code \in {200, 404}, n \in 0..MaxChunks :
       \E len \in {Undeclared, n * ChunkLen} :
         /\ HijackWriteHeader(r, [ctype |-> "upstream", clen |-> len], code)
         /\ toCopy' = [toCopy EXCEPT ![r] = n]
  /\ From(r, "upstream") /\ Goto(r, "copy")
  /\ UNCHANGED <<proto, held, leaked, page>>

\* http.FileServer with a file that opens; it is closed when the copy ends.
ServeFile(r) ==
  /\ pc[r] = "start"
  /\ HandlesOpen < FdLimit
  /\ \E n \in 0..MaxChunks :
       /\ HijackWriteHeader(r, [ctype |-> "upstream", clen |-> n * ChunkLen], 200)
       /\ toCopy' = [toCopy EXCEPT ![r] = n]
  /\ held' = held \cup {r}
  /\ From(r, "file") /\ Goto(r, "copy")
  /\ UNCHANGED <<proto, leaked, page>>

\* The handler of /osconsole/config.js
ConfigJs(r) ==
  /\ pc[r] = "start"
  /\ HijackWrite(r, [header[r] EXCEPT !.ctype = "javascript"], "config")
  /\ From(r, "proxy") /\ Goto(r, "done")
  /\ UNCHANGED <<proto, handled, toCopy, held, page>>

\* Mutation: the end of the source is not noticed.
CopyPastEnd(r) ==
  /\ pc[r] = "copy"
  /\ HijackWrite(r, header[r], "chunk")
  /\ toCopy' = [toCopy EXCEPT ![r] = IF WriteReportsAll(r, "chunk") THEN @ - 1 ELSE 0]
  /\ UNCHANGED <<pc, proto, source, handled, held, page>>

\* One iteration of io.Copy: a short write ends it.
Copy(r) ==
  /\ pc[r] = "copy" /\ toCopy[r] > 0
  /\ HijackWrite(r, header[r], "chunk")
  /\ toCopy' = [toCopy EXCEPT ![r] = IF WriteReportsAll(r, "chunk") THEN @ - 1 ELSE 0]
  /\ UNCHANGED <<pc, proto, source, handled, held, page>>

\* The copy ends: its source is exhausted, a read of it failed, or a write
\* was short.  The deferred Close of a static file runs.
CopyEnd(r) ==
  /\ pc[r] = "copy"
  /\ Goto(r, "done")
  /\ toCopy' = [toCopy EXCEPT ![r] = 0]
  /\ held' = held \ {r}
  /\ UNCHANGED <<proto, source, handled, header, wire, leaked, page>>

\* The error page on disk is replaced, removed, made unreadable.
PageChange ==
  /\ \E p \in Pages \ {page} : page' = p
  /\ UNCHANGED <<pc, proto, source, handled, header, wire, toCopy, held, leaked>>

\* A garbage collection finds some of the unreferenced files: their finalizer
\* closes them.
Collect ==
  /\ leaked > 0
  /\ leaked' \in 0..(leaked - 1)
  /\ UNCHANGED <<pc, proto, source, handled, header, wire, toCopy, held, page>>

Serve(r) ==
  \/ NotFound(r)
  \/ ErrorBody(r)
  \/ RoundTripError(r)
  \/ RoundTrip(r)
  \/ ServeFile(r)
  \/ ConfigJs(r)
  \/ Copy(r)
  \/ CopyEnd(r)

Next ==
  \/ \E r \in Requests : Serve(r)
  \/ PageChange
  \/ Collect

Spec == Init /\ [][Next]_vars

---------------------------------------------------------------------------
(* Properties *)

Lengths == Nat \cup {Undeclared}

Answer == [status : Statuses, ctype : ContentTypes, clen : Lengths,
           count : Nat, body : Seq(Pieces)]

\* Every variable keeps its type.
TypeOK ==
  /\ pc      \in [Requests -> Control]
  /\ proto   \in [Requests -> Protocols]
  /\ source  \in [Requests -> Sources]
  /\ handled \in [Requests -> BOOLEAN]
  /\ header  \in [Requests -> [ctype : ContentTypes, clen : Lengths]]
  /\ wire    \in [Requests -> Answer]
  /\ toCopy  \in [Requests -> Nat]
  /\ held    \subseteq Requests
  /\ leaked  \in Nat
  /\ page    \in Pages

\* What may stand for the body of a 404
Replacements == IF "torn" \in Pages THEN {"page", "part", "text"} ELSE {"page", "text"}

BodyFits(w) ==
  IF w.status = 404
  THEN w.body = <<>> \/ w.body \in {<<p>> : p \in Replacements}
  ELSE \A i \in 1..Len(w.body) : w.body[i] \in {"chunk", "config"}

\* hijack404 exists to replace the body of a 404: nothing of the original body
\* gets through, and the page is sent once however many writes the wrapped
\* handler makes.  Only a page that may fail to read is sent in part.  Any other
\* answer carries neither the page nor the text.
ErrorBodyIsPage == \A r \in Requests : BodyFits(wire[r])

\* A 404 announces the page as HTML, whatever type the wrapped handler or the
\* API server gave its own body.
HtmlTypeOn404 ==
  \A r \in Requests : wire[r].status = 404 => wire[r].ctype = "html"

\* A 404 the proxy itself made is never empty once its handler has returned,
\* whatever happens to the page and however many handles are open, as long as
\* the page is not a directory.
LocalNotFoundAnswered ==
  "directory" \notin Pages =>
    \A r \in Requests :
      pc[r] = "done" /\ source[r] = "proxy" /\ wire[r].status = 404
        => wire[r].body \in {<<p>> : p \in Replacements}

\* The handles Write never closes are at most one for each request it took
\* over: a 404 of many chunks does not open the page once for each.
OneLeakPerRequest == leaked <= Cardinality({r \in Requests : handled[r]})
=============================================================================
