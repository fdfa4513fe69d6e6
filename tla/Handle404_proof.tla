-------------------------- MODULE Handle404_proof --------------------------
(***************************************************************************)
(* What Handle404 promises, for every number of requests, every length of  *)
(* page and body and every limit on handles.                               *)
(*                                                                         *)
(* ErrorBodyIsPage is not inductive: that a hijacked body is written once  *)
(* depends on where the writer is.  Phases adds what each point of the     *)
(* handler knows of the answer: above all that a copy over a hijacked      *)
(* writer still has chunks to move only while nothing was sent.            *)
(***************************************************************************)
EXTENDS Handle404, FiniteSetTheorems, TLAPS

Headers == [ctype : ContentTypes, clen : Lengths]

\* What the goroutine of r knows of its answer at each of its labels.
Phase(r) ==
  /\ handled[r] <=> wire[r].status = 404
  /\ pc[r] = "start" <=> wire[r].status = Unsent
  /\ pc[r] = "start" =>
       wire[r].body = <<>> /\ wire[r].clen = Undeclared /\ header[r] = NoHeader
  /\ pc[r] = "errorBody" =>
       handled[r] /\ wire[r].body = <<>> /\ wire[r].clen = Undeclared
  /\ pc[r] = "copy" => source[r] # "proxy"
  /\ pc[r] = "copy" /\ handled[r] /\ toCopy[r] > 0 => wire[r].body = <<>>

\* What ErrorBodyIsPage, HtmlTypeOn404 and LocalNotFoundAnswered say of one
\* request.
Promise(r) ==
  /\ BodyFits(wire[r])
  /\ wire[r].status = 404 => wire[r].ctype = "html"
  /\ "directory" \notin Pages =>
       (pc[r] = "done" /\ source[r] = "proxy" /\ wire[r].status = 404
          => wire[r].body \in {<<p>> : p \in Replacements})

\* The inductive invariant
IInv == TypeOK /\ \A r \in Requests : Phase(r) /\ Promise(r)

\* The first WriteHeader decides the status and sends no body.
LEMMA RawHeaderSends ==
  ASSUME NEW w \in Answer, NEW h \in Headers,
         NEW code \in Statuses
  PROVE  LET new == RawHeader(w, h, code) IN
         /\ new \in Answer
         /\ new.body = w.body /\ new.count = w.count
         /\ w.status # Unsent => new = w
         /\ w.status = Unsent =>
              new.status = code /\ new.ctype = h.ctype /\ new.clen = h.clen
  BY DEF RawHeader, Answer, Headers

\* What a write may do to an answer
Appended(w, new, piece) ==
  /\ new \in Answer
  /\ new.body \in {w.body, Append(w.body, piece)}
  /\ w.status # Unsent => new.status = w.status /\ new.ctype = w.ctype
  /\ w.status # Unsent /\ w.clen = Undeclared => new.body = Append(w.body, piece)
  /\ w.status = Unsent => new.status = 200

\* A write appends its piece, or nothing when Content-Length forbids it.
LEMMA RawWriteAppends ==
  ASSUME NEW p, NEW w \in Answer, NEW h \in Headers, NEW piece \in Pieces
  PROVE  Appended(w, RawWrite(p, w, h, piece), piece)
<1> DEFINE sent == RawHeader(w, h, 200)
           new  == RawWrite(p, w, h, piece)
<1>1. /\ sent \in Answer
      /\ sent.body = w.body
      /\ w.status # Unsent => sent = w
      /\ w.status = Unsent => sent.status = 200
  BY RawHeaderSends DEF Statuses
<1>2. PieceLen(piece) \in Nat
  BY LengthsAssumption DEF PieceLen, Pieces
<1>3. new = [sent EXCEPT !.count = @ + PieceLen(piece),
                        !.body  = IF RawAccepts(p, sent, PieceLen(piece))
                                  THEN Append(@, piece) ELSE @]
  BY DEF RawWrite
<1> HIDE DEF sent, new
<1>4. /\ new.status = sent.status /\ new.ctype = sent.ctype
      /\ new.clen = sent.clen
      /\ new.count = sent.count + PieceLen(piece)
      /\ new.body \in {sent.body, Append(sent.body, piece)}
      /\ DOMAIN new = DOMAIN sent
  BY <1>1, <1>3 DEF Answer
<1>5. sent.body \in Seq(Pieces) /\ sent.count \in Nat
  BY <1>1 DEF Answer
<1>6. new.body \in Seq(Pieces) /\ new.count \in Nat
  <2>1. Append(sent.body, piece) \in Seq(Pieces)
    BY <1>5
  <2>2. new.body \in Seq(Pieces)
    BY <1>4, <1>5, <2>1
  <2>3. new.count \in Nat
    BY <1>2, <1>4, <1>5
  <2>4. QED
    BY <2>2, <2>3
<1>7. new \in Answer
  BY <1>1, <1>3, <1>6 DEF Answer
<1>8. sent.clen = Undeclared => new.body = Append(sent.body, piece)
  BY <1>1, <1>3 DEF RawAccepts, Answer
<1>9. QED
  BY <1>1, <1>4, <1>7, <1>8 DEF new, Appended

\* hijack404.WriteHeader, called before anything was sent.
LEMMA HijackWriteHeaderStep ==
  ASSUME TypeOK, NEW r \in Requests, Phase(r), pc[r] = "start",
         NEW h \in Headers, NEW code \in Statuses \ {Unsent},
         HijackWriteHeader(r, h, code)
  PROVE  /\ header'  \in [Requests -> Headers]
         /\ handled' \in [Requests -> BOOLEAN]
         /\ wire'    \in [Requests -> Answer]
         /\ handled'[r] <=> code = 404
         /\ wire'[r].status = code
         /\ wire'[r].clen = h.clen
         /\ wire'[r].body = <<>>
         /\ code = 404 => wire'[r].ctype = "html"
         /\ \A s \in Requests \ {r} : /\ header'[s]  = header[s]
                                      /\ handled'[s] = handled[s]
                                      /\ wire'[s]    = wire[s]
<1> DEFINE typed == IF code = 404 THEN [h EXCEPT !.ctype = "html"] ELSE h
<1>1. /\ typed \in Headers
      /\ typed.clen = h.clen
      /\ code = 404 => typed.ctype = "html"
  BY DEF Headers, ContentTypes
<1>2. /\ header'  = [header EXCEPT ![r] = typed]
      /\ handled' = [handled EXCEPT ![r] = @ \/ code = 404]
      /\ wire'    = [wire EXCEPT ![r] = RawHeader(@, typed, code)]
  BY DEF HijackWriteHeader
<1> HIDE DEF typed
<1>3. /\ wire[r] \in Answer /\ wire[r].status = Unsent /\ wire[r].body = <<>>
      /\ ~handled[r] /\ handled[r] \in BOOLEAN
  BY DEF TypeOK, Phase, Unsent
<1>4. LET new == RawHeader(wire[r], typed, code) IN
      /\ new \in Answer /\ new.status = code /\ new.body = <<>>
      /\ new.ctype = typed.ctype /\ new.clen = typed.clen
  BY <1>1, <1>3, RawHeaderSends
<1>5. /\ header  \in [Requests -> Headers]
      /\ handled \in [Requests -> BOOLEAN]
      /\ wire    \in [Requests -> Answer]
  BY DEF TypeOK, Headers
<1>6. wire'[r] = RawHeader(wire[r], typed, code)
  BY <1>2, <1>5
<1>7. wire' \in [Requests -> Answer]
  BY <1>2, <1>4, <1>5
<1>8. handled'[r] <=> code = 404
  BY <1>2, <1>3, <1>5
<1>9. QED
  BY <1>1, <1>2, <1>4, <1>5, <1>6, <1>7, <1>8

\* One piece is appended that stands for the body of a 404.
Stands(body, new) == \E p \in Replacements : new = Append(body, p)

\* What hijack404.Write does for r: over a 404 it may only append such a piece.
Hijacked(r, piece) ==
  /\ header' \in [Requests -> Headers]
  /\ wire'   \in [Requests -> Answer]
  /\ leaked' \in Nat
  /\ ~handled[r] => wire'[r].body \in {wire[r].body, Append(wire[r].body, piece)}
  /\ handled[r] =>
       wire'[r].body = wire[r].body \/ Stands(wire[r].body, wire'[r].body)
  /\ handled[r] /\ wire[r].status # Unsent /\ wire[r].clen = Undeclared
       /\ page # "directory" => Stands(wire[r].body, wire'[r].body)
  /\ wire[r].status # Unsent =>
       wire'[r].status = wire[r].status /\ wire'[r].ctype = wire[r].ctype
  /\ wire[r].status = Unsent /\ ~handled[r] => wire'[r].status = 200
  /\ \A s \in Requests \ {r} : header'[s] = header[s] /\ wire'[s] = wire[s]

LEMMA HijackWriteStep ==
  ASSUME TypeOK, NEW r \in Requests, NEW h \in Headers, NEW piece \in Pieces,
         HijackWrite(r, h, piece)
  PROVE  Hijacked(r, piece)
<1> DEFINE sub == CHOOSE s \in Substitute : TRUE
<1>1. /\ header \in [Requests -> Headers]
      /\ wire   \in [Requests -> Answer]
      /\ handled \in [Requests -> BOOLEAN]
      /\ leaked \in Nat
  BY DEF TypeOK, Headers
<1>2. /\ Substitute = {} \/ \E p \in Replacements : Substitute = {p}
      /\ page # "directory" => Substitute # {}
  <2>1. page \in Pages /\ page \in PageConditions /\ PageOpens \in BOOLEAN
    BY PagesAssumption DEF TypeOK, PageOpens
  <2>2. CASE ~PageOpens \/ page = "unstatable"
    BY <2>1, <2>2 DEF Substitute, Replacements, PageConditions
  <2>3. CASE PageOpens /\ page # "unstatable"
    <3>1. page # "missing"
      BY <2>3 DEF PageOpens
    <3>2. CASE page = "ok"
      BY <2>3, <3>2 DEF Substitute, Replacements
    <3>3. CASE page = "torn"
      BY <2>1, <2>3, <3>3 DEF Substitute, Replacements
    <3>4. CASE page = "directory"
      BY <2>3, <3>4 DEF Substitute
    <3>5. QED
      BY <2>1, <2>3, <3>1, <3>2, <3>3, <3>4 DEF PageConditions
  <2>4. QED
    BY <2>1, <2>2, <2>3
<1>3. Substitute # {} => sub \in Replacements
  BY <1>2
<1>4. page # "directory" => Substitute # {}
  BY <1>2
<1>5. wire' = [wire EXCEPT ![r] = HijackedWire(r, h, piece)]
  BY DEF HijackWrite
<1>6. wire'[r] = HijackedWire(r, h, piece)
  BY <1>1, <1>5
<1>7. HijackedWire(r, h, piece) =
        IF ~handled[r] THEN RawWrite(proto[r], wire[r], h, piece)
        ELSE IF Substitute = {} THEN wire[r]
        ELSE RawWrite(proto[r], wire[r], h, sub)
  BY DEF HijackedWire
<1> HIDE DEF sub
<1>8. wire[r] \in Answer /\ handled[r] \in BOOLEAN
  BY <1>1
<1>9. CASE ~handled[r]
  <2> DEFINE new == RawWrite(proto[r], wire[r], h, piece)
  <2>1. wire'[r] = new
    BY <1>6, <1>7, <1>9
  <2>2. Appended(wire[r], new, piece)
    BY <1>8, RawWriteAppends
  <2> HIDE DEF new
  <2>3. wire' \in [Requests -> Answer]
    BY <2>1, <2>2, <1>1, <1>5, <1>6 DEF Appended
  <2>4. header' = [header EXCEPT ![r] = h] /\ leaked' = leaked
    BY <1>9 DEF HijackWrite
  <2>5. QED
    BY <2>1, <2>2, <2>3, <2>4, <1>1, <1>5, <1>9 DEF Appended, Hijacked
<1>10. CASE handled[r]
  <2>1. /\ header' \in [Requests -> Headers]
        /\ \A s \in Requests \ {r} : header'[s] = header[s]
    <3>1. [h EXCEPT !.ctype = "html"] \in Headers
      BY DEF Headers, ContentTypes
    <3>2. PICK h2 \in Headers : header' = [header EXCEPT ![r] = h2]
      BY <3>1 DEF HijackWrite
    <3>3. QED
      BY <3>2, <1>1
  <2>2. leaked' \in Nat
    BY <1>1 DEF HijackWrite
  <2>3. CASE Substitute = {}
    BY <2>1, <2>2, <2>3, <1>1, <1>4, <1>5, <1>6, <1>7, <1>10 DEF Hijacked
  <2>4. CASE Substitute # {}
    <3> DEFINE new == RawWrite(proto[r], wire[r], h, sub)
    <3>1. wire'[r] = new
      BY <2>4, <1>6, <1>7, <1>10
    <3>2. sub \in Pieces
      BY <2>4, <1>3 DEF Pieces, Replacements
    <3>3. Appended(wire[r], new, sub)
      BY <3>2, <1>8, RawWriteAppends
    <3> HIDE DEF new
    <3>4. wire' \in [Requests -> Answer]
      BY <3>1, <3>3, <1>1, <1>5, <1>6 DEF Appended
    <3>5. QED
      BY <2>1, <2>2, <2>4, <3>1, <3>3, <3>4, <1>1, <1>3, <1>5, <1>10
        DEF Appended, Hijacked, Stands
  <2>5. QED
    BY <2>3, <2>4
<1>11. QED
  BY <1>8, <1>9, <1>10

\* A write to an empty answer makes a body of one piece.
LEMMA OnePiece ==
  ASSUME NEW body, Stands(<<>>, body)
  PROVE  body \in {<<p>> : p \in Replacements}
<1>1. PICK p \in Replacements : body = Append(<<>>, p)
  BY DEF Stands
<1>2. body = <<p>>
  BY <1>1
<1>3. QED
  BY <1>2

\* A chunk or the configuration fits an answer that is not a 404.
LEMMA OwnPieceFits ==
  ASSUME NEW w \in Answer, NEW v \in Answer, BodyFits(w),
         w.status # 404, v.status # 404,
         NEW piece \in {"chunk", "config"},
         v.body \in {w.body, Append(w.body, piece)}
  PROVE  BodyFits(v)
<1>1. w.body \in Seq(Pieces) /\ piece \in Pieces
  BY DEF Answer, Pieces
<1>2. \A i \in 1..Len(w.body) : w.body[i] \in {"chunk", "config"}
  BY DEF BodyFits
<1>3. \A i \in 1..Len(v.body) : v.body[i] \in {"chunk", "config"}
  <2>1. CASE v.body = w.body
    BY <1>2, <2>1
  <2>2. CASE v.body = Append(w.body, piece)
    BY <1>1, <1>2, <2>2
  <2>3. QED
    BY <2>1, <2>2
<1>4. QED
  BY <1>3 DEF BodyFits

OthersUnchanged(r) ==
  \A s \in Requests \ {r} :
    /\ pc'[s] = pc[s] /\ source'[s] = source[s]
    /\ handled'[s] = handled[s] /\ header'[s] = header[s]
    /\ wire'[s] = wire[s] /\ toCopy'[s] = toCopy[s]

\* A step of one request leaves the others what they were.
LEMMA OthersKept ==
  ASSUME IInv, NEW r \in Requests,
         OthersUnchanged(r)
  PROVE  \A s \in Requests \ {r} : (Phase(s) /\ Promise(s))'
  BY DEF IInv, Phase, Promise, OthersUnchanged

\* What a step of r has to establish.
LEMMA StepOf ==
  ASSUME IInv, NEW r \in Requests,
         OthersUnchanged(r),
         TypeOK', Phase(r)', Promise(r)'
  PROVE  IInv'
  BY OthersKept DEF IInv

LEMMA InitIInv == Init => IInv
<1> SUFFICES ASSUME Init PROVE IInv
  OBVIOUS
<1>1. NoAnswer \in Answer /\ NoHeader \in Headers
  BY DEF NoAnswer, NoHeader, Answer, Headers, Statuses, ContentTypes, Lengths,
         Unsent, Undeclared
<1>2. TypeOK
  BY <1>1 DEF Init, TypeOK, Headers, Control, Sources
<1>3. ASSUME NEW r \in Requests PROVE Phase(r) /\ Promise(r)
  BY <1>3 DEF Init, Phase, Promise, BodyFits, NoAnswer, Unsent
<1>4. QED
  BY <1>2, <1>3 DEF IInv

LEMMA NotFoundStep ==
  ASSUME IInv, NEW r \in Requests, NotFound(r)
  PROVE  IInv'
<1> DEFINE h == [header[r] EXCEPT !.ctype = "text"]
<1>1. TypeOK /\ Phase(r) /\ Promise(r) /\ pc[r] = "start"
  BY DEF IInv, NotFound
<1>2. h \in Headers /\ h.clen = Undeclared
  <2>1. header[r] = NoHeader
    BY <1>1 DEF Phase
  <2>2. QED
    BY <2>1 DEF Headers, NoHeader, ContentTypes, Lengths
<1>3. HijackWriteHeader(r, h, 404)
  BY DEF NotFound
<1> HIDE DEF h
<1>4. 404 \in Statuses \ {Unsent}
  BY DEF Statuses, Unsent
<1>5. /\ header'  \in [Requests -> Headers]
      /\ handled' \in [Requests -> BOOLEAN]
      /\ wire'    \in [Requests -> Answer]
      /\ handled'[r] /\ wire'[r].status = 404 /\ wire'[r].clen = Undeclared
      /\ wire'[r].body = <<>> /\ wire'[r].ctype = "html"
      /\ \A s \in Requests \ {r} : /\ header'[s]  = header[s]
                                   /\ handled'[s] = handled[s]
                                   /\ wire'[s]    = wire[s]
  BY <1>1, <1>2, <1>3, <1>4, HijackWriteHeaderStep
<1>6. /\ pc' = [pc EXCEPT ![r] = "errorBody"]
      /\ source' = [source EXCEPT ![r] = "proxy"]
      /\ UNCHANGED <<proto, toCopy, held, leaked, page>>
  BY DEF NotFound, Goto, From
<1>7. TypeOK'
  BY <1>1, <1>5, <1>6 DEF TypeOK, Headers, Control, Sources
<1>8. pc'[r] = "errorBody"
  BY <1>1, <1>6 DEF TypeOK
<1>9. Phase(r)' /\ Promise(r)'
  BY <1>5, <1>8 DEF Phase, Promise, BodyFits, Unsent
<1>10. OthersUnchanged(r)
  BY <1>1, <1>5, <1>6 DEF TypeOK, OthersUnchanged
<1>11. QED
  BY <1>7, <1>9, <1>10, StepOf

LEMMA ErrorBodyStep ==
  ASSUME IInv, NEW r \in Requests, ErrorBody(r)
  PROVE  IInv'
<1>1. TypeOK /\ Phase(r) /\ Promise(r) /\ pc[r] = "errorBody"
  BY DEF IInv, ErrorBody
<1>2. header[r] \in Headers /\ "text" \in Pieces /\ wire[r] \in Answer
  BY <1>1 DEF TypeOK, Headers, Pieces
<1>3. HijackWrite(r, header[r], "text")
  BY DEF ErrorBody
<1>4. /\ handled[r] /\ wire[r].status = 404 /\ wire[r].body = <<>>
      /\ wire[r].clen = Undeclared /\ wire[r].status # Unsent
      /\ wire[r].ctype = "html"
  BY <1>1 DEF Phase, Promise, Unsent
<1>5. /\ Hijacked(r, "text")
      /\ wire'[r].body = <<>> \/ wire'[r].body \in {<<p>> : p \in Replacements}
      /\ page # "directory" => wire'[r].body \in {<<p>> : p \in Replacements}
      /\ wire'[r].status = 404 /\ wire'[r].ctype = "html"
  <2>1. Hijacked(r, "text")
    BY <1>1, <1>2, <1>3, HijackWriteStep
  <2>2. /\ wire'[r].body = <<>> \/ Stands(<<>>, wire'[r].body)
        /\ page # "directory" => Stands(<<>>, wire'[r].body)
        /\ wire'[r].status = 404 /\ wire'[r].ctype = "html"
    BY <2>1, <1>4 DEF Hijacked
  <2>3. QED
    BY <2>1, <2>2, <1>4, OnePiece
<1>6. /\ pc' = [pc EXCEPT ![r] = "done"]
      /\ UNCHANGED <<proto, source, handled, toCopy, held, page>>
  BY DEF ErrorBody, Goto
<1>7. TypeOK'
  BY <1>1, <1>5, <1>6 DEF TypeOK, Headers, Control, Hijacked
<1>8. pc'[r] = "done"
  BY <1>1, <1>6 DEF TypeOK
<1>9. "directory" \notin Pages => page # "directory"
  BY <1>1 DEF TypeOK
<1>10. Phase(r)' /\ Promise(r)'
  BY <1>4, <1>5, <1>6, <1>8, <1>9 DEF Phase, Promise, BodyFits, Unsent
<1>11. OthersUnchanged(r)
  BY <1>1, <1>5, <1>6 DEF TypeOK, OthersUnchanged, Hijacked
<1>12. QED
  BY <1>7, <1>10, <1>11, StepOf

\* What the three handlers that send a header of their own have in common.
SendsHeader(r, h, code, label, from, n) ==
  /\ pc[r] = "start" /\ HijackWriteHeader(r, h, code)
  /\ pc' = [pc EXCEPT ![r] = label]
  /\ source' = [source EXCEPT ![r] = from]
  /\ toCopy' = [toCopy EXCEPT ![r] = n]
  /\ held' \subseteq Requests
  /\ UNCHANGED <<proto, leaked, page>>

LEMMA HeaderStep ==
  ASSUME IInv, NEW r \in Requests, NEW h \in Headers,
         NEW code \in {200, 404, 500}, NEW label \in {"copy", "done"},
         NEW from \in Sources, NEW n \in Nat,
         label = "copy" => from # "proxy",
         from = "proxy" => code # 404,
         SendsHeader(r, h, code, label, from, n)
  PROVE  IInv'
<1> USE DEF SendsHeader
<1>1. TypeOK /\ Phase(r) /\ Promise(r)
  BY DEF IInv
<1>2. code \in Statuses \ {Unsent}
  BY DEF Statuses, Unsent
<1>3. /\ header'  \in [Requests -> Headers]
      /\ handled' \in [Requests -> BOOLEAN]
      /\ wire'    \in [Requests -> Answer]
      /\ handled'[r] <=> code = 404
      /\ wire'[r].status = code /\ wire'[r].body = <<>>
      /\ code = 404 => wire'[r].ctype = "html"
      /\ \A s \in Requests \ {r} : /\ header'[s]  = header[s]
                                   /\ handled'[s] = handled[s]
                                   /\ wire'[s]    = wire[s]
  BY <1>1, <1>2, HijackWriteHeaderStep
<1>4. TypeOK'
  BY <1>1, <1>3 DEF TypeOK, Headers, Control
<1>5. pc'[r] = label /\ source'[r] = from
  BY <1>1 DEF TypeOK
<1>6. Phase(r)' /\ Promise(r)'
  BY <1>3, <1>5 DEF Phase, Promise, BodyFits, Unsent
<1>7. OthersUnchanged(r)
  BY <1>1, <1>3 DEF TypeOK, OthersUnchanged
<1>8. QED
  BY <1>4, <1>6, <1>7, StepOf

LEMMA RoundTripErrorStep ==
  ASSUME IInv, NEW r \in Requests, RoundTripError(r)
  PROVE  IInv'
<1>1. TypeOK
  BY DEF IInv
<1>2. header[r] \in Headers /\ toCopy[r] \in Nat /\ "proxy" \in Sources
  BY <1>1 DEF TypeOK, Headers, Sources
<1>3. SendsHeader(r, header[r], 500, "done", "proxy", toCopy[r])
  BY <1>1 DEF RoundTripError, Goto, From, TypeOK, SendsHeader
<1>4. QED
  BY <1>2, <1>3, HeaderStep

LEMMA RoundTripStep ==
  ASSUME IInv, NEW r \in Requests, RoundTrip(r)
  PROVE  IInv'
<1>1. TypeOK
  BY DEF IInv
<1>2. PICK code \in {200, 404}, n \in 0..MaxChunks :
        \E len \in {Undeclared, n * ChunkLen} :
          /\ HijackWriteHeader(r, [ctype |-> "upstream", clen |-> len], code)
          /\ toCopy' = [toCopy EXCEPT ![r] = n]
  BY DEF RoundTrip
<1>3. PICK len \in {Undeclared, n * ChunkLen} :
        /\ HijackWriteHeader(r, [ctype |-> "upstream", clen |-> len], code)
        /\ toCopy' = [toCopy EXCEPT ![r] = n]
  BY <1>2
<1> DEFINE h == [ctype |-> "upstream", clen |-> len]
<1>4. n \in Nat /\ h \in Headers /\ "upstream" \in Sources
  BY LengthsAssumption DEF Headers, ContentTypes, Lengths, Sources
<1>5. SendsHeader(r, h, code, "copy", "upstream", n)
  BY <1>1, <1>3 DEF RoundTrip, Goto, From, TypeOK, SendsHeader
<1> HIDE DEF h
<1>6. QED
  BY <1>4, <1>5, HeaderStep

LEMMA ServeFileStep ==
  ASSUME IInv, NEW r \in Requests, ServeFile(r)
  PROVE  IInv'
<1>1. TypeOK
  BY DEF IInv
<1>2. PICK n \in 0..MaxChunks :
        /\ HijackWriteHeader(r, [ctype |-> "upstream", clen |-> n * ChunkLen], 200)
        /\ toCopy' = [toCopy EXCEPT ![r] = n]
  BY DEF ServeFile
<1> DEFINE h == [ctype |-> "upstream", clen |-> n * ChunkLen]
<1>3. n \in Nat /\ h \in Headers /\ "file" \in Sources
  BY LengthsAssumption DEF Headers, ContentTypes, Lengths, Sources
<1>4. SendsHeader(r, h, 200, "copy", "file", n)
  BY <1>1, <1>2 DEF ServeFile, Goto, From, TypeOK, SendsHeader
<1> HIDE DEF h
<1>5. QED
  BY <1>3, <1>4, HeaderStep

LEMMA ConfigJsStep ==
  ASSUME IInv, NEW r \in Requests, ConfigJs(r)
  PROVE  IInv'
<1> DEFINE h == [header[r] EXCEPT !.ctype = "javascript"]
<1>1. TypeOK /\ Phase(r) /\ Promise(r) /\ pc[r] = "start"
  BY DEF IInv, ConfigJs
<1>2. h \in Headers /\ "config" \in Pieces /\ wire[r] \in Answer
  <2>1. header[r] = NoHeader
    BY <1>1 DEF Phase
  <2>2. QED
    BY <1>1, <2>1 DEF TypeOK, Headers, NoHeader, ContentTypes, Lengths, Pieces
<1>3. HijackWrite(r, h, "config")
  BY DEF ConfigJs
<1> HIDE DEF h
<1>4. ~handled[r] /\ wire[r].status = Unsent
  BY <1>1 DEF Phase, Unsent
<1>5. Hijacked(r, "config")
  BY <1>1, <1>2, <1>3, HijackWriteStep
<1>6. /\ pc' = [pc EXCEPT ![r] = "done"]
      /\ source' = [source EXCEPT ![r] = "proxy"]
      /\ UNCHANGED <<proto, handled, toCopy, held, page>>
  BY DEF ConfigJs, Goto, From
<1>7. TypeOK'
  BY <1>1, <1>5, <1>6 DEF TypeOK, Headers, Control, Sources, Hijacked
<1>8. pc'[r] = "done" /\ ~handled'[r] /\ wire'[r].status = 200 /\ wire'[r] \in Answer
  BY <1>1, <1>4, <1>5, <1>6 DEF TypeOK, Hijacked
<1>9. BodyFits(wire'[r])
  <2>1. wire'[r].body \in {wire[r].body, Append(wire[r].body, "config")}
    BY <1>4, <1>5 DEF Hijacked
  <2>2. BodyFits(wire[r]) /\ wire[r].status # 404 /\ wire'[r].status # 404
    BY <1>1, <1>4, <1>8 DEF Promise, Unsent
  <2>3. QED
    BY <2>1, <2>2, <1>2, <1>8, OwnPieceFits
<1>10. Phase(r)' /\ Promise(r)'
  BY <1>8, <1>9 DEF Phase, Promise, Unsent
<1>11. OthersUnchanged(r)
  BY <1>1, <1>5, <1>6 DEF TypeOK, OthersUnchanged, Hijacked
<1>12. QED
  BY <1>7, <1>10, <1>11, StepOf

LEMMA CopyStep ==
  ASSUME IInv, NEW r \in Requests, Copy(r)
  PROVE  IInv'
<1>1. TypeOK /\ Phase(r) /\ Promise(r) /\ pc[r] = "copy" /\ toCopy[r] > 0
  BY DEF IInv, Copy
<1>2. /\ header[r] \in Headers /\ "chunk" \in Pieces /\ wire[r] \in Answer
      /\ toCopy[r] \in Nat /\ handled[r] \in BOOLEAN
  BY <1>1 DEF TypeOK, Headers, Pieces
<1>3. HijackWrite(r, header[r], "chunk")
  BY DEF Copy
<1>4. Hijacked(r, "chunk")
  BY <1>1, <1>2, <1>3, HijackWriteStep
<1>5. /\ wire[r].status # Unsent
      /\ wire'[r] \in Answer
      /\ wire'[r].status = wire[r].status
      /\ wire'[r].ctype = wire[r].ctype
  BY <1>1, <1>4 DEF Phase, Hijacked
<1>6. /\ toCopy' = [toCopy EXCEPT ![r] = IF WriteReportsAll(r, "chunk") THEN @ - 1 ELSE 0]
      /\ UNCHANGED <<pc, proto, source, handled, held, page>>
  BY DEF Copy
<1>7. toCopy' \in [Requests -> Nat]
  <2>1. (IF WriteReportsAll(r, "chunk") THEN toCopy[r] - 1 ELSE 0) \in Nat
    BY <1>1, <1>2
  <2>2. QED
    BY <1>1, <1>6, <2>1 DEF TypeOK
<1>8. TypeOK'
  BY <1>1, <1>4, <1>6, <1>7 DEF TypeOK, Headers, Hijacked
<1>9. Phase(r)' /\ Promise(r)'
  <2>1. CASE handled[r]
    <3>1. toCopy'[r] = 0
      BY <1>1, <1>6, <2>1 DEF TypeOK, WriteReportsAll
    <3>2. wire[r].body = <<>> /\ wire[r].status = 404
      BY <1>1, <2>1 DEF Phase
    <3>3. wire'[r].body = <<>> \/ wire'[r].body \in {<<p>> : p \in Replacements}
      <4>1. wire'[r].body = <<>> \/ Stands(<<>>, wire'[r].body)
        BY <1>4, <2>1, <3>2 DEF Hijacked
      <4>2. QED
        BY <4>1, OnePiece
    <3>4. QED
      BY <1>1, <1>5, <1>6, <2>1, <3>1, <3>2, <3>3 DEF Phase, Promise, BodyFits
  <2>2. CASE ~handled[r]
    <3>1. wire[r].status # 404 /\ wire'[r].status # 404 /\ BodyFits(wire[r])
      BY <1>1, <1>5, <2>2 DEF Phase, Promise
    <3>2. wire'[r].body \in {wire[r].body, Append(wire[r].body, "chunk")}
      BY <1>4, <2>2 DEF Hijacked
    <3>3. BodyFits(wire'[r])
      BY <1>2, <1>5, <3>1, <3>2, OwnPieceFits
    <3>4. QED
      BY <1>1, <1>5, <1>6, <2>2, <3>1, <3>3 DEF Phase, Promise
  <2>3. QED
    BY <1>2, <2>1, <2>2
<1>10. OthersUnchanged(r)
  BY <1>1, <1>4, <1>6 DEF TypeOK, OthersUnchanged, Hijacked
<1>11. QED
  BY <1>8, <1>9, <1>10, StepOf

LEMMA CopyEndStep ==
  ASSUME IInv, NEW r \in Requests, CopyEnd(r)
  PROVE  IInv'
<1>1. TypeOK /\ Phase(r) /\ Promise(r) /\ pc[r] = "copy"
  BY DEF IInv, CopyEnd
<1>2. /\ pc' = [pc EXCEPT ![r] = "done"]
      /\ toCopy' = [toCopy EXCEPT ![r] = 0]
      /\ held' = held \ {r}
      /\ UNCHANGED <<proto, source, handled, header, wire, leaked, page>>
  BY DEF CopyEnd, Goto
<1>3. TypeOK'
  BY <1>1, <1>2 DEF TypeOK, Control
<1>4. pc'[r] = "done"
  BY <1>1, <1>2 DEF TypeOK
<1>5. Phase(r)' /\ Promise(r)'
  BY <1>1, <1>2, <1>4 DEF Phase, Promise
<1>6. OthersUnchanged(r)
  BY <1>1, <1>2 DEF TypeOK, OthersUnchanged
<1>7. QED
  BY <1>3, <1>5, <1>6, StepOf

LEMMA NextIInv == IInv /\ [Next]_vars => IInv'
<1> SUFFICES ASSUME IInv, [Next]_vars PROVE IInv'
  OBVIOUS
<1>1. ASSUME NEW r \in Requests, Serve(r) PROVE IInv'
  <2>1. CASE NotFound(r)
    BY <2>1, NotFoundStep
  <2>2. CASE ErrorBody(r)
    BY <2>2, ErrorBodyStep
  <2>3. CASE RoundTripError(r)
    BY <2>3, RoundTripErrorStep
  <2>4. CASE RoundTrip(r)
    BY <2>4, RoundTripStep
  <2>5. CASE ServeFile(r)
    BY <2>5, ServeFileStep
  <2>6. CASE ConfigJs(r)
    BY <2>6, ConfigJsStep
  <2>7. CASE Copy(r)
    BY <2>7, CopyStep
  <2>8. CASE CopyEnd(r)
    BY <2>8, CopyEndStep
  <2>9. QED
    BY <1>1, <2>1, <2>2, <2>3, <2>4, <2>5, <2>6, <2>7, <2>8 DEF Serve
<1>2. CASE PageChange
  BY <1>2 DEF PageChange, IInv, TypeOK, Phase, Promise
<1>3. CASE Collect
  <2>1. leaked' \in Nat
    BY <1>3 DEF Collect, IInv, TypeOK
  <2>2. QED
    BY <1>3, <2>1 DEF Collect, IInv, TypeOK, Phase, Promise
<1>4. CASE UNCHANGED vars
  BY <1>4 DEF vars, IInv, TypeOK, Phase, Promise
<1>5. QED
  BY <1>1, <1>2, <1>3, <1>4 DEF Next

---------------------------------------------------------------------------

\* The invariant that carries the three properties holds of every behaviour.
THEOREM Invariance == Spec => []IInv
  BY InitIInv, NextIInv, PTL DEF Spec

\* Every variable keeps its type.
THEOREM TypeCorrect == Spec => []TypeOK
<1>1. IInv => TypeOK
  BY DEF IInv
<1>2. QED
  BY <1>1, Invariance, PTL

\* Nothing of a 404's own body gets through and the page is sent at most once;
\* no other answer carries the page.
THEOREM HijackedBody == Spec => []ErrorBodyIsPage
<1>1. IInv => ErrorBodyIsPage
  BY DEF IInv, Promise, ErrorBodyIsPage
<1>2. QED
  BY <1>1, Invariance, PTL

\* A 404 is announced as HTML whatever the wrapped handler said.
THEOREM HijackedType == Spec => []HtmlTypeOn404
<1>1. IInv => HtmlTypeOn404
  BY DEF IInv, Promise, HtmlTypeOn404
<1>2. QED
  BY <1>1, Invariance, PTL

\* The proxy's own 404s are never empty, in whatever state the page is and
\* however many handles are open, unless the page may be a directory.
THEOREM OwnNotFoundAnswered == Spec => []LocalNotFoundAnswered
<1>1. IInv => LocalNotFoundAnswered
  BY DEF IInv, Promise, LocalNotFoundAnswered
<1>2. QED
  BY <1>1, Invariance, PTL

---------------------------------------------------------------------------
(* Handles: every one that hijack404.Write leaves open can be charged to a *)
(* request whose handler will not write over a 404 any more.               *)

Spent == {r \in Requests : /\ handled[r] /\ pc[r] # "errorBody"
                           /\ ~(pc[r] = "copy" /\ toCopy[r] > 0)}

LeakInv == leaked <= Cardinality(Spent)

LEMMA InitLeakInv == Init => LeakInv
<1> SUFFICES ASSUME Init PROVE LeakInv
  OBVIOUS
<1>1. Spent = {}
  BY DEF Init, Spent
<1>2. QED
  BY <1>1, FS_EmptySet DEF Init, LeakInv

\* A step that opens no page and spends what was spent
LEMMA KeepsCharge ==
  ASSUME IInv, LeakInv, TypeOK', Spent \subseteq Spent', leaked' <= leaked
  PROVE  LeakInv'
<1>1. IsFiniteSet(Spent')
  BY RequestsAssumption, FS_Subset DEF Spent
<1>2. /\ Cardinality(Spent) <= Cardinality(Spent')
      /\ Cardinality(Spent') \in Nat /\ Cardinality(Spent) \in Nat
  BY <1>1, FS_Subset, FS_CardinalityType
<1>3. leaked \in Nat /\ leaked' \in Nat
  BY DEF IInv, TypeOK
<1>4. QED
  BY <1>2, <1>3 DEF LeakInv

\* A write of r that may open the page spends r.
LEMMA ChargesWriter ==
  ASSUME IInv, LeakInv, TypeOK', NEW r \in Requests, Spent' = Spent \cup {r},
         r \notin Spent, leaked' <= leaked + 1
  PROVE  LeakInv'
<1>1. IsFiniteSet(Spent)
  BY RequestsAssumption, FS_Subset DEF Spent
<1>2. Cardinality(Spent') = Cardinality(Spent) + 1 /\ Cardinality(Spent) \in Nat
  BY <1>1, FS_AddElement, FS_CardinalityType
<1>3. leaked \in Nat /\ leaked' \in Nat
  BY DEF IInv, TypeOK
<1>4. QED
  BY <1>2, <1>3 DEF LeakInv

LEMMA NextLeakInv == IInv /\ IInv' /\ LeakInv /\ [Next]_vars => LeakInv'
<1> SUFFICES ASSUME IInv, IInv', LeakInv, [Next]_vars PROVE LeakInv'
  OBVIOUS
<1>1. TypeOK /\ TypeOK' /\ leaked \in Nat
  BY DEF IInv, TypeOK
<1>2. ASSUME NEW r \in Requests,
             NotFound(r) \/ RoundTripError(r) \/ RoundTrip(r) \/ ServeFile(r)
      PROVE  LeakInv'
  <2>1. pc[r] = "start" /\ UNCHANGED leaked
    BY <1>2 DEF NotFound, RoundTripError, RoundTrip, ServeFile
  <2>2. ~handled[r]
    BY <2>1 DEF IInv, Phase, Unsent
  <2>3. \A s \in Requests \ {r} :
          pc'[s] = pc[s] /\ handled'[s] = handled[s] /\ toCopy'[s] = toCopy[s]
    <3>1. PICK label : pc' = [pc EXCEPT ![r] = label]
      BY <1>2 DEF NotFound, RoundTripError, RoundTrip, ServeFile, Goto
    <3>2. PICK h, code : HijackWriteHeader(r, h, code)
      <4>1. CASE NotFound(r)
        BY <4>1 DEF NotFound
      <4>2. CASE RoundTripError(r)
        BY <4>2 DEF RoundTripError
      <4>3. CASE RoundTrip(r)
        BY <4>3 DEF RoundTrip
      <4>4. CASE ServeFile(r)
        BY <4>4 DEF ServeFile
      <4>5. QED
        BY <1>2, <4>1, <4>2, <4>3, <4>4
    <3>3. UNCHANGED toCopy \/ \E n : toCopy' = [toCopy EXCEPT ![r] = n]
      BY <1>2 DEF NotFound, RoundTripError, RoundTrip, ServeFile
    <3>4. QED
      BY <1>1, <3>1, <3>2, <3>3 DEF TypeOK, HijackWriteHeader
  <2>4. Spent \subseteq Spent'
    BY <2>2, <2>3 DEF Spent
  <2>5. QED
    BY <1>1, <2>1, <2>4, KeepsCharge
<1>3. ASSUME NEW r \in Requests, ErrorBody(r) PROVE LeakInv'
  <2>1. handled[r] /\ pc[r] = "errorBody"
    BY <1>3 DEF IInv, Phase, ErrorBody
  <2>2. /\ pc' = [pc EXCEPT ![r] = "done"] /\ UNCHANGED <<handled, toCopy>>
        /\ leaked' <= leaked + 1
    BY <1>1, <1>3 DEF ErrorBody, HijackWrite, Goto
  <2>3. Spent' = Spent \cup {r} /\ r \notin Spent
    BY <1>1, <2>1, <2>2 DEF Spent, TypeOK
  <2>4. QED
    BY <1>1, <2>2, <2>3, ChargesWriter
<1>4. ASSUME NEW r \in Requests, ConfigJs(r) PROVE LeakInv'
  <2>1. pc[r] = "start" /\ ~handled[r]
    BY <1>4 DEF IInv, Phase, Unsent, ConfigJs
  <2>2. /\ pc' = [pc EXCEPT ![r] = "done"] /\ UNCHANGED <<handled, toCopy>>
        /\ leaked' = leaked
    BY <1>4, <2>1 DEF ConfigJs, HijackWrite, Goto
  <2>3. Spent \subseteq Spent'
    BY <1>1, <2>1, <2>2 DEF Spent, TypeOK
  <2>4. QED
    BY <1>1, <2>2, <2>3, KeepsCharge
<1>5. ASSUME NEW r \in Requests, Copy(r) PROVE LeakInv'
  <2>1. pc[r] = "copy" /\ toCopy[r] > 0 /\ UNCHANGED <<pc, handled>>
    BY <1>5 DEF Copy
  <2>2. \A s \in Requests \ {r} : toCopy'[s] = toCopy[s]
    BY <1>1, <1>5 DEF Copy, TypeOK
  <2>3. CASE handled[r]
    <3>1. toCopy'[r] = 0 /\ leaked' <= leaked + 1
      BY <1>1, <1>5, <2>3 DEF Copy, WriteReportsAll, HijackWrite, TypeOK
    <3>2. Spent' = Spent \cup {r} /\ r \notin Spent
      BY <2>1, <2>2, <2>3, <3>1 DEF Spent
    <3>3. QED
      BY <1>1, <3>1, <3>2, ChargesWriter
  <2>4. CASE ~handled[r]
    <3>1. leaked' = leaked
      BY <1>5, <2>4 DEF Copy, HijackWrite
    <3>2. Spent \subseteq Spent'
      BY <2>1, <2>2, <2>4 DEF Spent
    <3>3. QED
      BY <1>1, <3>1, <3>2, KeepsCharge
  <2>5. QED
    BY <2>3, <2>4
<1>6. ASSUME NEW r \in Requests, CopyEnd(r) PROVE LeakInv'
  <2>1. /\ pc' = [pc EXCEPT ![r] = "done"] /\ UNCHANGED <<handled, leaked>>
        /\ toCopy' = [toCopy EXCEPT ![r] = 0]
    BY <1>6 DEF CopyEnd, Goto
  <2>2. Spent \subseteq Spent'
    BY <1>1, <2>1 DEF Spent, TypeOK
  <2>3. QED
    BY <1>1, <2>1, <2>2, KeepsCharge
<1>7. CASE PageChange \/ Collect \/ UNCHANGED vars
  <2>1. Spent' = Spent /\ leaked' <= leaked
    BY <1>1, <1>7 DEF PageChange, Collect, vars, Spent
  <2>2. QED
    BY <1>1, <2>1, KeepsCharge
<1>8. QED
  BY <1>2, <1>3, <1>4, <1>5, <1>6, <1>7 DEF Next, Serve

\* hijack404.Write leaves at most one handle open for each request it took
\* over, whatever the size of the bodies it discards.
THEOREM LeakBound == Spec => []OneLeakPerRequest
<1>1. IInv /\ LeakInv => OneLeakPerRequest
  <2> SUFFICES ASSUME IInv, LeakInv PROVE OneLeakPerRequest
    OBVIOUS
  <2> DEFINE took == {r \in Requests : handled[r]}
  <2>1. Spent \subseteq took /\ IsFiniteSet(took)
    BY RequestsAssumption, FS_Subset DEF Spent
  <2>2. /\ Cardinality(Spent) <= Cardinality(took)
        /\ Cardinality(Spent) \in Nat /\ Cardinality(took) \in Nat
    BY <2>1, FS_Subset, FS_CardinalityType
  <2>3. QED
    BY <2>2 DEF LeakInv, OneLeakPerRequest, IInv, TypeOK
<1>2. QED
  BY <1>1, InitLeakInv, NextLeakInv, Invariance, PTL DEF Spec

=============================================================================
