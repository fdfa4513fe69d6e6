------------------------- MODULE RequestBody_proof -------------------------
(***************************************************************************)
(* Proofs about RequestBody: types, that DATA within a stream's window     *)
(* always fits its pipe, that readers get of their bodies what             *)
(* RequestBodies promises, and where the room of the connection's window   *)
(* is, for the server and for the client.                                  *)
(*                                                                         *)
(* The inductive invariant follows each byte from the client to the        *)
(* reader.  Chained says that the DATA under way continues where the       *)
(* stream's bytes end and leads to what the client has sent; Numbered that *)
(* the pipe holds, in order, what was received and not yet read; Ending    *)
(* that a pipe ends with EOF only when it received everything; Account     *)
(* where the stream's window went.  Books adds up what all streams hold of *)
(* the connection's window, and all frames under way: sums, about which    *)
(* the second part starts with some lemmas.                                *)
(***************************************************************************)
EXTENDS RequestBody, SequenceTheorems, FiniteSetTheorems, WellFoundedInduction, TLAPS

LEMMA MinOfTwo ==
  ASSUME NEW a \in Int, NEW b \in Int
  PROVE  Min({a, b}) = IF a <= b THEN a ELSE b
  BY DEF Min

\* Byte i of what is unread
Content(p, i) == p.data[p.r + i]

\* What fits behind or after moving the rest to the front is written whole.
Fitted(p, bytes, q) ==
  /\ q \in PipeType /\ q.err = p.err
  /\ Unread(q) = Unread(p) + Len(bytes)
  /\ \A i \in 1..Unread(p) : Content(q, i) = Content(p, i)
  /\ \A i \in 1..Len(bytes) : Content(q, Unread(p) + i) = bytes[i]

LEMMA PipeFields ==
  ASSUME NEW p \in PipeType
  PROVE  /\ p.data \in Seq(Nat) /\ Len(p.data) \in Nat /\ p.r \in Nat
         /\ p.r <= Len(p.data) /\ Len(p.data) <= Window
         /\ p.err \in Errors /\ p.waiting \in BOOLEAN
         /\ Unread(p) \in Nat /\ Unread(p) = Len(p.data) - p.r
         /\ p = [data |-> p.data, r |-> p.r, err |-> p.err, waiting |-> p.waiting]
  BY DEF PipeType, Unread

LEMMA RestOfSeq ==
  ASSUME NEW d \in Seq(Nat), NEW r \in Nat, r <= Len(d)
  PROVE  /\ SubSeq(d, r + 1, Len(d)) \in Seq(Nat)
         /\ Len(SubSeq(d, r + 1, Len(d))) = Len(d) - r
         /\ \A i \in 1..Len(d) - r : SubSeq(d, r + 1, Len(d))[i] = d[r + i]
<1>1. SubSeq(d, r + 1, Len(d)) \in Seq(Nat)
  OBVIOUS
<1>2. Len(SubSeq(d, r + 1, Len(d))) = Len(d) - r
  OBVIOUS
<1>3. \A i \in 1..Len(d) - r : SubSeq(d, r + 1, Len(d))[i] = d[r + i]
  OBVIOUS
<1>4. QED
  BY <1>1, <1>2, <1>3

LEMMA SecondOfTwo ==
  ASSUME NEW a \in Seq(Nat), NEW b \in Seq(Nat), NEW i \in 1..Len(b)
  PROVE  (a \o b)[Len(a) + i] = b[i]
  OBVIOUS

LEMMA PipeMade ==
  ASSUME NEW data \in Seq(Nat), NEW r \in Nat, NEW err \in Errors, NEW waiting \in BOOLEAN,
         r <= Len(data), Len(data) <= Window,
         NEW q, q = [data |-> data, r |-> r, err |-> err, waiting |-> waiting]
  PROVE  q \in PipeType /\ Unread(q) = Len(data) - r
  BY DEF PipeType, Unread

LEMMA SlideKeeps ==
  ASSUME NEW p \in PipeType, NEW n \in Nat, Unread(p) + n <= Window
  PROVE  /\ Slide(p, n) \in PipeType /\ Slide(p, n).err = p.err
         /\ Unread(Slide(p, n)) = Unread(p)
         /\ n <= Window - Len(Slide(p, n).data)
         /\ \A i \in 1..Unread(p) : Content(Slide(p, n), i) = Content(p, i)
<1>1. CASE p.r > 0 /\ n > Window - Len(p.data)
  <2> DEFINE rest == SubSeq(p.data, p.r + 1, Len(p.data))
  <2>1. /\ p.data \in Seq(Nat) /\ Len(p.data) \in Nat /\ p.r \in Nat /\ p.r <= Len(p.data)
        /\ Unread(p) = Len(p.data) - p.r
    BY PipeFields
  <2>2. rest \in Seq(Nat) /\ Len(rest) = Len(p.data) - p.r
    BY <2>1, RestOfSeq
  <2>3. \A i \in 1..Len(p.data) - p.r : rest[i] = p.data[p.r + i]
    BY <2>1, RestOfSeq
  <2> HIDE DEF rest
  <2>4. Len(rest) = Unread(p) /\ (\A i \in 1..Unread(p) : rest[i] = Content(p, i))
    BY <2>1, <2>2, <2>3, Zenon DEF Content
  <2>5. Slide(p, n) = [p EXCEPT !.data = rest, !.r = 0]
    BY <1>1 DEF Slide, rest
  <2>6. Slide(p, n) = [data |-> rest, r |-> 0, err |-> p.err, waiting |-> p.waiting]
    BY <2>5, PipeFields
  <2>7. Slide(p, n) \in PipeType
    <3>1. 0 <= Len(rest) /\ Len(rest) <= Window
      <4>1. Len(p.data) <= Window
        BY PipeFields
      <4>2. QED
        BY <2>1, <2>2, <4>1, SizesAssumption
    <3>2. p.err \in Errors /\ p.waiting \in BOOLEAN
      BY PipeFields
    <3>3. QED
      BY <2>2, <2>6, <3>1, <3>2, PipeMade
  <2>8. Unread(Slide(p, n)) = Unread(p)
    BY <2>1, <2>4, <2>6 DEF Unread
  <2>9. n <= Window - Len(Slide(p, n).data)
    BY <2>1, <2>4, <2>6, SizesAssumption
  <2>10. \A i \in 1..Unread(p) : Content(Slide(p, n), i) = Content(p, i)
    BY <2>4, <2>6 DEF Content
  <2>11. QED
    BY <2>6, <2>7, <2>8, <2>9, <2>10
<1>2. CASE ~(p.r > 0 /\ n > Window - Len(p.data))
  BY <1>2, PipeFields, SizesAssumption DEF Slide
<1>3. QED
  BY <1>1, <1>2

LEMMA WriteFits ==
  ASSUME NEW p \in PipeType, NEW bytes \in Seq(Nat), Unread(p) + Len(bytes) <= Window
  PROVE  Fitted(p, bytes, WritePipe(p, bytes))
<1> DEFINE q == Slide(p, Len(bytes))
<1> DEFINE w == WritePipe(p, bytes)
<1> DEFINE d == q.data \o bytes
<1>1. Len(bytes) \in Nat
  OBVIOUS
<1>2. /\ q \in PipeType /\ q.err = p.err /\ Unread(q) = Unread(p)
      /\ Len(bytes) <= Window - Len(q.data)
      /\ \A i \in 1..Unread(p) : Content(q, i) = Content(p, i)
  BY <1>1, SlideKeeps
<1> HIDE DEF q
<1>3. /\ q.data \in Seq(Nat) /\ Len(q.data) \in Nat /\ q.r \in Nat /\ q.r <= Len(q.data)
      /\ Unread(p) = Len(q.data) - q.r /\ Unread(p) \in Nat
      /\ q = [data |-> q.data, r |-> q.r, err |-> q.err, waiting |-> q.waiting]
      /\ q.err \in Errors
  BY <1>2, PipeFields
<1>4. Min({Len(bytes), Window - Len(q.data)}) = Len(bytes)
  <2>1. Window - Len(q.data) \in Int
    BY <1>3, SizesAssumption
  <2>2. QED
    BY <1>1, <1>2, <2>1, MinOfTwo
<1>5. SubSeq(bytes, 1, Len(bytes)) = bytes
  BY SubSeqFull
<1>6. w = [q EXCEPT !.data = d, !.waiting = FALSE]
  BY <1>4, <1>5 DEF WritePipe, q
<1>7. /\ d \in Seq(Nat) /\ Len(d) = Len(q.data) + Len(bytes)
      /\ \A i \in 1..Len(q.data) + Len(bytes) :
           d[i] = IF i <= Len(q.data) THEN q.data[i] ELSE bytes[i - Len(q.data)]
  BY <1>3, ConcatProperties
<1> HIDE DEF w, d
<1>8. w = [data |-> d, r |-> q.r, err |-> q.err, waiting |-> FALSE]
  BY <1>3, <1>6
<1>9. w \in PipeType /\ Unread(w) = Unread(p) + Len(bytes)
  <2>1. q.r <= Len(d) /\ Len(d) <= Window /\ Len(d) - q.r = Unread(p) + Len(bytes)
    BY <1>1, <1>2, <1>3, <1>7, SizesAssumption
  <2>2. QED
    BY <1>3, <1>7, <1>8, <2>1, PipeMade
<1>10. \A i \in 1..Unread(p) : Content(w, i) = Content(p, i)
  <2>1. SUFFICES ASSUME NEW i \in 1..Unread(p) PROVE d[q.r + i] = q.data[q.r + i]
    BY <1>2, <1>8 DEF Content
  <2>2. q.r + i \in 1..Len(q.data)
    BY <1>3
  <2>3. ASSUME NEW k \in 1..Len(q.data) PROVE d[k] = q.data[k]
    <3>1. k \in 1..Len(q.data) + Len(bytes) /\ k <= Len(q.data)
      BY <1>1, <1>3
    <3>2. QED
      BY <1>7, <3>1
  <2>4. QED
    BY <2>2, <2>3, Zenon
<1>11. \A i \in 1..Len(bytes) : Content(w, Unread(p) + i) = bytes[i]
  <2>1. SUFFICES ASSUME NEW i \in 1..Len(bytes) PROVE d[q.r + (Unread(p) + i)] = bytes[i]
    BY <1>8 DEF Content
  <2>2. q.r + (Unread(p) + i) = Len(q.data) + i
    BY <1>3
  <2>3. d[Len(q.data) + i] = bytes[i]
    BY <1>3, SecondOfTwo DEF d
  <2>4. QED
    BY <2>2, <2>3
<1>12. w.err = p.err
  BY <1>2, <1>8
<1>13. QED
  BY <1>9, <1>10, <1>11, <1>12 DEF Fitted, w

LEMMA CloseKeeps ==
  ASSUME NEW p \in PipeType, NEW err \in Errors
  PROVE  /\ ClosePipe(p, err) \in PipeType /\ Unread(ClosePipe(p, err)) = Unread(p)
         /\ ClosePipe(p, err).data = p.data /\ ClosePipe(p, err).r = p.r
         /\ ClosePipe(p, err).err = IF p.err = "none" THEN err ELSE p.err
<1> DEFINE e == IF p.err = "none" THEN err ELSE p.err
<1>1. ClosePipe(p, err) = [data |-> p.data, r |-> p.r, err |-> e, waiting |-> FALSE]
  <2>1. ClosePipe(p, err) = [p EXCEPT !.err = e, !.waiting = FALSE]
    BY PipeFields DEF ClosePipe
  <2>2. p = [data |-> p.data, r |-> p.r, err |-> p.err, waiting |-> p.waiting]
    BY PipeFields
  <2> HIDE DEF e
  <2>3. QED
    BY <2>1, <2>2
<1>2. e \in Errors
  BY PipeFields
<1> HIDE DEF e
<1>3. ClosePipe(p, err) \in PipeType /\ Unread(ClosePipe(p, err)) = Unread(p)
  BY <1>1, <1>2, PipeFields, PipeMade
<1>4. QED
  BY <1>1, <1>3 DEF e

---------------------------------------------------------------------------
(* The invariant *)

\* The bytes of a body that were put into its pipe are numbered, so are those
\* that were read, and the rest is in the pipe.
Numbered(c, rd, s) ==
  /\ Len(rd[s].got) + Unread(c.pipe[s]) = c.bytes[s]
  /\ \A i \in 1..Unread(c.pipe[s]) : Content(c.pipe[s], i) = Len(rd[s].got) + i

\* A pipe has ended with its stream; with EOF, when all there is was put into it.
Ending(c, rd, k, s) ==
  /\ c.state[s] = "halfClosedRemote" => c.pipe[s].err # "none"
  /\ c.pipe[s].err # "nil" /\ rd[s].err # "nil"
  /\ c.pipe[s].err = "EOF" =>
       /\ s \in k.whole /\ c.bytes[s] = k.sent[s]
       /\ c.decl[s] \in {Undeclared, k.sent[s]}
  /\ c.bytes[s] <= k.sent[s]

\* What an idle stream looks like
Fresh(c, rd, k, s) ==
  /\ c.state[s] = "idle" <=> rd[s].pc = "none"
  /\ c.state[s] = "idle" =>
       /\ c.bytes[s] = 0 /\ c.pipe[s].err = "none" /\ c.decl[s] = Undeclared
       /\ s \notin k.whole /\ k.sent[s] = 0

\* A reader has a count only while it tells serve, and an error after that.
Reading(rd, s) ==
  /\ rd[s].pc # "noting" => rd[s].n = 0
  /\ rd[s].pc \in {"none", "continue", "reading"} => rd[s].err = "none"

Account(c, rd, s) ==
  c.state[s] = "open" => c.win[s] + Unread(c.pipe[s]) + rd[s].n = Window

StreamInv(c, rd, k, s) ==
  /\ Numbered(c, rd, s) /\ Ending(c, rd, k, s) /\ Fresh(c, rd, k, s)
  /\ Reading(rd, s) /\ Account(c, rd, s)

IsData(f, s) == f.kind = "data" /\ f.stream = s

\* The frames under way are about the bytes from b to e of stream s, one after the
\* other: pos is how far they get.
Leads(pos, q, b, e, whole, s) ==
  /\ pos \in [0..Len(q) -> Nat]
  /\ pos[0] = b /\ pos[Len(q)] = e
  /\ \A i \in 0..Len(q) : pos[i] <= e
  /\ \A i \in 1..Len(q) :
       IF IsData(q[i], s)
       THEN /\ q[i].at = pos[i - 1] /\ pos[i] = q[i].at + q[i].n
            /\ q[i].end => s \in whole /\ pos[i] = e
       ELSE pos[i] = pos[i - 1]

Chained(q, b, e, whole, s) == \E pos : Leads(pos, q, b, e, whole, s)

Arrives(c, q, k, s) ==
  /\ c.state[s] = "open" => Chained(q, c.bytes[s], k.sent[s], k.whole, s)
  /\ c.state[s] = "idle" => \A i \in 1..Len(q) : q[i].stream # s

IInv ==
  /\ TypeOK
  /\ \A s \in Streams : StreamInv(sc, reader, cl, s) /\ Arrives(sc, net, cl, s)
  /\ cl.whole \subseteq cl.ended

---------------------------------------------------------------------------
(* What serve does to its streams *)

LEMMA ServeFields ==
  ASSUME NEW c \in ServeType
  PROVE  /\ c = [serve |-> c.serve, conn |-> c.conn, reset |-> c.reset, state |-> c.state,
                win |-> c.win, bytes |-> c.bytes, decl |-> c.decl, cont |-> c.cont,
                pipe |-> c.pipe]
         /\ c.serve \in {"loop", "done", "panic"} /\ c.conn \in Nat /\ c.reset \in SUBSET Streams
         /\ c.state \in [Streams -> {"idle", "open", "halfClosedRemote", "closed"}]
         /\ c.win \in [Streams -> 0..Window]
         /\ c.bytes \in [Streams -> Nat]
         /\ c.decl \in [Streams -> Nat \cup {Undeclared}]
         /\ c.cont \in [Streams -> {"none", "want", "queued"}]
         /\ c.pipe \in [Streams -> PipeType]
  BY DEF ServeType

LEMMA ServeMade ==
  ASSUME NEW sv \in {"loop", "done", "panic"}, NEW conn \in Nat, NEW reset \in SUBSET Streams,
         NEW state \in [Streams -> {"idle", "open", "halfClosedRemote", "closed"}],
         NEW win \in [Streams -> 0..Window],
         NEW bytes \in [Streams -> Nat],
         NEW decl \in [Streams -> Nat \cup {Undeclared}],
         NEW cont \in [Streams -> {"none", "want", "queued"}],
         NEW pipe \in [Streams -> PipeType],
         NEW d, d = [serve |-> sv, conn |-> conn, reset |-> reset, state |-> state,
                     win |-> win, bytes |-> bytes, decl |-> decl, cont |-> cont, pipe |-> pipe]
  PROVE  d \in ServeType
  BY DEF ServeType

\* d has closed some streams and pipes of c, and changed no window of an open one.
Closes(c, d) ==
  /\ d \in ServeType
  /\ d.bytes = c.bytes /\ d.decl = c.decl
  /\ \A t \in Streams :
       /\ \/ d.state[t] = c.state[t] /\ d.win[t] = c.win[t]
          \/ d.state[t] = "closed" /\ c.state[t] # "idle"
       /\ d.pipe[t].data = c.pipe[t].data /\ d.pipe[t].r = c.pipe[t].r
       /\ \/ d.pipe[t].err = c.pipe[t].err
          \/ /\ c.pipe[t].err = "none" /\ c.state[t] # "idle"
             /\ d.pipe[t].err \in Errors \ {"none", "nil", "EOF"}

LEMMA ClosesKeeps ==
  ASSUME NEW c \in ServeType, NEW d, Closes(c, d), NEW rd, NEW k, NEW q, NEW s \in Streams,
         StreamInv(c, rd, k, s), Arrives(c, q, k, s)
  PROVE  StreamInv(d, rd, k, s) /\ Arrives(d, q, k, s)
<1>1. d.bytes = c.bytes /\ d.decl = c.decl
  BY DEF Closes
<1>2. \/ d.state[s] = c.state[s] /\ d.win[s] = c.win[s]
      \/ d.state[s] = "closed" /\ c.state[s] # "idle"
  BY DEF Closes
<1>3. d.pipe[s].data = c.pipe[s].data /\ d.pipe[s].r = c.pipe[s].r
  BY DEF Closes
<1>4. \/ d.pipe[s].err = c.pipe[s].err
      \/ /\ c.pipe[s].err = "none" /\ c.state[s] # "idle"
         /\ d.pipe[s].err \in Errors \ {"none", "nil", "EOF"}
  BY DEF Closes
<1>5. Unread(d.pipe[s]) = Unread(c.pipe[s]) /\ \A i : Content(d.pipe[s], i) = Content(c.pipe[s], i)
  BY <1>3 DEF Unread, Content
<1>6. Numbered(d, rd, s)
  BY <1>1, <1>5 DEF StreamInv, Numbered
<1>7. Ending(d, rd, k, s)
  BY <1>1, <1>2, <1>4 DEF StreamInv, Ending
<1>8. Fresh(d, rd, k, s)
  BY <1>1, <1>2, <1>4 DEF StreamInv, Fresh
<1>9. Account(d, rd, s)
  BY <1>2, <1>5 DEF StreamInv, Account
<1>10. Arrives(d, q, k, s)
  BY <1>1, <1>2 DEF Arrives
<1>11. QED
  BY <1>6, <1>7, <1>8, <1>9, <1>10 DEF StreamInv

LEMMA CloseStreamCloses ==
  ASSUME NEW c \in ServeType, NEW s \in Streams, c.state[s] # "idle",
         NEW err \in Errors \ {"none", "EOF"}, err = "nil" => c.pipe[s].err # "none"
  PROVE  Closes(c, CloseStream(c, s, err))
<1> DEFINE st == [c.state EXCEPT ![s] = "closed"]
<1> DEFINE pp == [c.pipe EXCEPT ![s] = ClosePipe(c.pipe[s], err)]
<1> DEFINE ct == [c.cont EXCEPT ![s] = IF c.cont[s] = "queued" THEN "none" ELSE c.cont[s]]
<1> DEFINE d == CloseStream(c, s, err)
<1>1. /\ ClosePipe(c.pipe[s], err) \in PipeType
      /\ ClosePipe(c.pipe[s], err).data = c.pipe[s].data
      /\ ClosePipe(c.pipe[s], err).r = c.pipe[s].r
      /\ ClosePipe(c.pipe[s], err).err = IF c.pipe[s].err = "none" THEN err ELSE c.pipe[s].err
  <2>1. c.pipe[s] \in PipeType
    BY ServeFields
  <2>2. QED
    BY <2>1, CloseKeeps
<1>2. /\ st \in [Streams -> {"idle", "open", "halfClosedRemote", "closed"}]
      /\ pp \in [Streams -> PipeType] /\ ct \in [Streams -> {"none", "want", "queued"}]
  BY <1>1, ServeFields
<1>3. d = [c EXCEPT !.state = st, !.pipe = pp, !.cont = ct]
  BY ServeFields DEF CloseStream
<1>4. d = [serve |-> c.serve, conn |-> c.conn, reset |-> c.reset, state |-> st,
           win |-> c.win, bytes |-> c.bytes, decl |-> c.decl, cont |-> ct, pipe |-> pp]
  <2>1. c = [serve |-> c.serve, conn |-> c.conn, reset |-> c.reset, state |-> c.state,
             win |-> c.win, bytes |-> c.bytes, decl |-> c.decl, cont |-> c.cont,
             pipe |-> c.pipe]
    BY ServeFields
  <2> HIDE DEF st, pp, ct, d
  <2>2. QED
    BY <1>3, <2>1
<1>5. d \in ServeType
  <2>1. /\ c.serve \in {"loop", "done", "panic"} /\ c.conn \in Nat /\ c.reset \in SUBSET Streams
        /\ c.win \in [Streams -> 0..Window] /\ c.bytes \in [Streams -> Nat]
        /\ c.decl \in [Streams -> Nat \cup {Undeclared}]
    BY ServeFields
  <2> HIDE DEF st, pp, ct, d
  <2>2. QED
    BY <1>2, <1>4, <2>1, ServeMade
<1>6. ASSUME NEW t \in Streams
      PROVE  /\ \/ d.state[t] = c.state[t] /\ d.win[t] = c.win[t]
                \/ d.state[t] = "closed" /\ c.state[t] # "idle"
             /\ d.pipe[t].data = c.pipe[t].data /\ d.pipe[t].r = c.pipe[t].r
             /\ \/ d.pipe[t].err = c.pipe[t].err
                \/ /\ c.pipe[t].err = "none" /\ c.state[t] # "idle"
                   /\ d.pipe[t].err \in Errors \ {"none", "nil", "EOF"}
  <2>1. st[t] = (IF t = s THEN "closed" ELSE c.state[t])
        /\ pp[t] = (IF t = s THEN ClosePipe(c.pipe[s], err) ELSE c.pipe[t])
    BY ServeFields
  <2> HIDE DEF st, pp, ct, d
  <2>2. d.state = st /\ d.pipe = pp /\ d.win = c.win
    BY <1>4
  <2>3. QED
    BY <1>1, <2>1, <2>2
<1> HIDE DEF st, pp, ct, d
<1>7. d.bytes = c.bytes /\ d.decl = c.decl
  BY <1>4
<1>8. QED
  BY <1>5, <1>6, <1>7, Zenon DEF Closes, d

LEMMA ClosesNothing ==
  ASSUME NEW c \in ServeType, NEW d \in ServeType,
         d.state = c.state, d.win = c.win, d.bytes = c.bytes, d.decl = c.decl, d.pipe = c.pipe
  PROVE  Closes(c, d)
  BY Zenon DEF Closes

LEMMA ClosesInTurn ==
  ASSUME NEW c, NEW e, NEW d, Closes(c, e), Closes(e, d)
  PROVE  Closes(c, d)
<1>1. d \in ServeType /\ d.bytes = c.bytes /\ d.decl = c.decl
  BY DEF Closes
<1>2. ASSUME NEW t \in Streams
      PROVE  /\ \/ d.state[t] = c.state[t] /\ d.win[t] = c.win[t]
                \/ d.state[t] = "closed" /\ c.state[t] # "idle"
             /\ d.pipe[t].data = c.pipe[t].data /\ d.pipe[t].r = c.pipe[t].r
             /\ \/ d.pipe[t].err = c.pipe[t].err
                \/ /\ c.pipe[t].err = "none" /\ c.state[t] # "idle"
                   /\ d.pipe[t].err \in Errors \ {"none", "nil", "EOF"}
  <2>1. /\ \/ e.state[t] = c.state[t] /\ e.win[t] = c.win[t]
           \/ e.state[t] = "closed" /\ c.state[t] # "idle"
        /\ e.pipe[t].data = c.pipe[t].data /\ e.pipe[t].r = c.pipe[t].r
        /\ \/ e.pipe[t].err = c.pipe[t].err
           \/ /\ c.pipe[t].err = "none" /\ c.state[t] # "idle"
              /\ e.pipe[t].err \in Errors \ {"none", "nil", "EOF"}
    BY Zenon DEF Closes
  <2>2. /\ \/ d.state[t] = e.state[t] /\ d.win[t] = e.win[t]
           \/ d.state[t] = "closed" /\ e.state[t] # "idle"
        /\ d.pipe[t].data = e.pipe[t].data /\ d.pipe[t].r = e.pipe[t].r
        /\ \/ d.pipe[t].err = e.pipe[t].err
           \/ /\ e.pipe[t].err = "none" /\ e.state[t] # "idle"
              /\ d.pipe[t].err \in Errors \ {"none", "nil", "EOF"}
    BY Zenon DEF Closes
  <2>3. QED
    BY <2>1, <2>2
<1>3. QED
  BY <1>1, <1>2, Zenon DEF Closes

LEMMA ResetCloses ==
  ASSUME NEW c \in ServeType, NEW s \in Streams
  PROVE  /\ Closes(c, ResetStream(c, s))
         /\ c.state[s] # "idle" => ResetStream(c, s).state[s] = "closed"
<1>1. CASE s \in Live(c)
  <2> DEFINE e == [c EXCEPT !.reset = c.reset \cup {s}]
  <2>1. c.state[s] # "idle" /\ ResetStream(c, s) = CloseStream(e, s, "StreamError")
    BY <1>1 DEF Live, ResetStream
  <2>2. e = [serve |-> c.serve, conn |-> c.conn, reset |-> c.reset \cup {s}, state |-> c.state,
             win |-> c.win, bytes |-> c.bytes, decl |-> c.decl, cont |-> c.cont, pipe |-> c.pipe]
    <3>1. c = [serve |-> c.serve, conn |-> c.conn, reset |-> c.reset, state |-> c.state,
             win |-> c.win, bytes |-> c.bytes, decl |-> c.decl, cont |-> c.cont,
             pipe |-> c.pipe]
      BY ServeFields
    <3>2. QED
      BY <3>1
  <2>3. e \in ServeType
    <3>1. /\ c.serve \in {"loop", "done", "panic"} /\ c.conn \in Nat
          /\ c.reset \cup {s} \in SUBSET Streams
          /\ c.state \in [Streams -> {"idle", "open", "halfClosedRemote", "closed"}]
          /\ c.win \in [Streams -> 0..Window] /\ c.bytes \in [Streams -> Nat]
          /\ c.decl \in [Streams -> Nat \cup {Undeclared}]
          /\ c.cont \in [Streams -> {"none", "want", "queued"}]
          /\ c.pipe \in [Streams -> PipeType]
      BY ServeFields
    <3> HIDE DEF e
    <3>2. QED
      BY <2>2, <3>1, ServeMade
  <2> HIDE DEF e
  <2>4. Closes(c, e)
    BY <2>2, <2>3, ClosesNothing
  <2>5. Closes(e, CloseStream(e, s, "StreamError"))
    BY <2>1, <2>2, <2>3, CloseStreamCloses DEF Errors
  <2>6. CloseStream(e, s, "StreamError").state[s] = "closed"
    <3>1. e.state \in [Streams -> {"idle", "open", "halfClosedRemote", "closed"}]
      BY <2>3, ServeFields
    <3>2. CloseStream(e, s, "StreamError").state = [e.state EXCEPT ![s] = "closed"]
      BY <2>2 DEF CloseStream
    <3>3. QED
      BY <3>1, <3>2
  <2>7. QED
    BY <2>1, <2>4, <2>5, <2>6, ClosesInTurn
<1>2. CASE s \notin Live(c)
  <2>1. ResetStream(c, s) = c
    BY <1>2 DEF ResetStream
  <2>2. c.state[s] \in {"idle", "closed"}
    BY <1>2 DEF Live
  <2>3. QED
    BY <2>1, <2>2, ClosesNothing
<1>3. QED
  BY <1>1, <1>2

LEMMA EndCloses ==
  ASSUME NEW c \in ServeType, NEW why \in {"done", "panic"}
  PROVE  Closes(c, End(c, why))
<1> DEFINE st == [s \in Streams |-> IF s \in Live(c) THEN "closed" ELSE c.state[s]]
<1> DEFINE pp == [s \in Streams |-> IF s \in Live(c)
                                    THEN ClosePipe(c.pipe[s], "errClientDisconnected")
                                    ELSE c.pipe[s]]
<1> DEFINE d == End(c, why)
<1>1. ASSUME NEW s \in Streams
      PROVE  /\ c.pipe[s] \in PipeType
             /\ ClosePipe(c.pipe[s], "errClientDisconnected") \in PipeType
             /\ ClosePipe(c.pipe[s], "errClientDisconnected").data = c.pipe[s].data
             /\ ClosePipe(c.pipe[s], "errClientDisconnected").r = c.pipe[s].r
             /\ ClosePipe(c.pipe[s], "errClientDisconnected").err =
                  IF c.pipe[s].err = "none" THEN "errClientDisconnected" ELSE c.pipe[s].err
  <2>1. c.pipe[s] \in PipeType
    BY ServeFields
  <2>2. QED
    BY <2>1, CloseKeeps DEF Errors
<1>2. /\ st \in [Streams -> {"idle", "open", "halfClosedRemote", "closed"}]
      /\ pp \in [Streams -> PipeType]
  BY <1>1, ServeFields
<1>3. d = [c EXCEPT !.serve = why, !.state = st, !.pipe = pp]
  BY ServeFields DEF End
<1>4. d = [serve |-> why, conn |-> c.conn, reset |-> c.reset, state |-> st,
           win |-> c.win, bytes |-> c.bytes, decl |-> c.decl, cont |-> c.cont, pipe |-> pp]
  <2>1. c = [serve |-> c.serve, conn |-> c.conn, reset |-> c.reset, state |-> c.state,
             win |-> c.win, bytes |-> c.bytes, decl |-> c.decl, cont |-> c.cont,
             pipe |-> c.pipe]
    BY ServeFields
  <2> HIDE DEF st, pp, d
  <2>2. QED
    BY <1>3, <2>1
<1>5. d \in ServeType
  <2>1. /\ why \in {"loop", "done", "panic"} /\ c.conn \in Nat /\ c.reset \in SUBSET Streams
        /\ c.win \in [Streams -> 0..Window] /\ c.bytes \in [Streams -> Nat]
        /\ c.decl \in [Streams -> Nat \cup {Undeclared}]
        /\ c.cont \in [Streams -> {"none", "want", "queued"}]
    BY ServeFields
  <2> HIDE DEF st, pp, d
  <2>2. QED
    BY <1>2, <1>4, <2>1, ServeMade
<1>6. ASSUME NEW t \in Streams
      PROVE  /\ \/ d.state[t] = c.state[t] /\ d.win[t] = c.win[t]
                \/ d.state[t] = "closed" /\ c.state[t] # "idle"
             /\ d.pipe[t].data = c.pipe[t].data /\ d.pipe[t].r = c.pipe[t].r
             /\ \/ d.pipe[t].err = c.pipe[t].err
                \/ /\ c.pipe[t].err = "none" /\ c.state[t] # "idle"
                   /\ d.pipe[t].err \in Errors \ {"none", "nil", "EOF"}
  <2>1. st[t] = (IF t \in Live(c) THEN "closed" ELSE c.state[t])
        /\ pp[t] = (IF t \in Live(c) THEN ClosePipe(c.pipe[t], "errClientDisconnected")
                    ELSE c.pipe[t])
    OBVIOUS
  <2>2. t \in Live(c) => c.state[t] # "idle"
    BY DEF Live
  <2> HIDE DEF st, pp, d
  <2>3. d.state = st /\ d.pipe = pp /\ d.win = c.win
    BY <1>4
  <2>4. QED
    BY <1>1, <2>1, <2>2, <2>3 DEF Errors
<1> HIDE DEF st, pp, d
<1>7. d.bytes = c.bytes /\ d.decl = c.decl
  BY <1>4
<1>8. QED
  BY <1>5, <1>6, <1>7, Zenon DEF Closes, d

---------------------------------------------------------------------------
(* Frames under way *)

\* What the first frame is about, and what stays under way after it
HeadTold(f, q, b, e, whole, s) ==
  IF IsData(f, s)
  THEN /\ f.at = b /\ b + f.n <= e /\ (f.end => s \in whole /\ b + f.n = e)
       /\ Chained(q, b + f.n, e, whole, s)
  ELSE Chained(q, b, e, whole, s)

LEMMA ChainHead ==
  ASSUME NEW q \in Seq(FrameType), q # <<>>, NEW b \in Nat, NEW e \in Nat, NEW whole, NEW s,
         Chained(q, b, e, whole, s)
  PROVE  HeadTold(Head(q), Tail(q), b, e, whole, s)
<1>1. PICK pos : Leads(pos, q, b, e, whole, s)
  BY DEF Chained
<1> DEFINE n == Len(q)
<1> DEFINE t == Tail(q)
<1> DEFINE p == [i \in 0..n - 1 |-> pos[i + 1]]
<1>2. /\ n \in Nat /\ n > 0 /\ Head(q) = q[1] /\ Head(q) \in FrameType
      /\ t \in Seq(FrameType) /\ Len(t) = n - 1 /\ \A i \in 1..n - 1 : t[i] = q[i + 1]
  <2>1. n \in Nat /\ n > 0
    OBVIOUS
  <2>2. Head(q) = q[1] /\ Head(q) \in FrameType
    OBVIOUS
  <2>3. t \in Seq(FrameType) /\ Len(t) = n - 1 /\ \A i \in 1..n - 1 : t[i] = q[i + 1]
    BY HeadTailProperties
  <2>4. QED
    BY <2>1, <2>2, <2>3
<1> HIDE DEF n, t
<1>3. /\ pos \in [0..n -> Nat] /\ pos[0] = b /\ pos[n] = e
      /\ \A i \in 0..n : pos[i] <= e
      /\ \A i \in 1..n :
           IF IsData(q[i], s)
           THEN /\ q[i].at = pos[i - 1] /\ pos[i] = q[i].at + q[i].n
                /\ q[i].end => s \in whole /\ pos[i] = e
           ELSE pos[i] = pos[i - 1]
  BY <1>1 DEF Leads, n
<1>4. p \in [0..n - 1 -> Nat] /\ p[0] = pos[1] /\ p[n - 1] = e
  BY <1>2, <1>3
<1>5. \A i \in 0..n - 1 : p[i] <= e
  BY <1>2, <1>3
<1>6. ASSUME NEW i \in 1..n - 1
      PROVE  IF IsData(t[i], s)
             THEN /\ t[i].at = p[i - 1] /\ p[i] = t[i].at + t[i].n
                  /\ t[i].end => s \in whole /\ p[i] = e
             ELSE p[i] = p[i - 1]
  <2>1. t[i] = q[i + 1] /\ p[i] = pos[i + 1] /\ p[i - 1] = pos[i] /\ i + 1 \in 1..n /\ i + 1 - 1 = i
    BY <1>2
  <2> HIDE DEF p
  <2>2. QED
    BY <1>3, <2>1
<1> HIDE DEF p
<1>7. Leads(p, t, pos[1], e, whole, s)
  BY <1>2, <1>4, <1>5, <1>6 DEF Leads
<1>8. Chained(t, pos[1], e, whole, s)
  BY <1>7 DEF Chained
<1>9. 1 \in 1..n /\ 1 - 1 = 0 /\ pos[1] <= e
  BY <1>2, <1>3
<1>10. IF IsData(q[1], s)
       THEN /\ q[1].at = b /\ pos[1] = q[1].at + q[1].n
            /\ q[1].end => s \in whole /\ pos[1] = e
       ELSE pos[1] = b
  BY <1>3, <1>9
<1>11. QED
  BY <1>2, <1>8, <1>9, <1>10 DEF HeadTold, t

\* A frame that is sent after the others
LEMMA ChainAppends ==
  ASSUME NEW q \in Seq(FrameType), NEW b \in Nat, NEW e \in Nat, NEW whole, NEW s,
         Chained(q, b, e, whole, s), NEW f \in FrameType, NEW g \in Nat, NEW more,
         IF IsData(f, s)
         THEN /\ s \notin whole /\ f.at = e /\ g = e + f.n /\ (f.end => s \in more)
         ELSE g = e /\ whole \subseteq more
  PROVE  Chained(Append(q, f), b, g, more, s)
<1>1. PICK pos : Leads(pos, q, b, e, whole, s)
  BY DEF Chained
<1> DEFINE n == Len(q)
<1> DEFINE t == Append(q, f)
<1> DEFINE p == [i \in 0..n + 1 |-> IF i <= n THEN pos[i] ELSE g]
<1>2. /\ n \in Nat /\ t \in Seq(FrameType) /\ Len(t) = n + 1
      /\ (\A i \in 1..n : t[i] = q[i]) /\ t[n + 1] = f
  BY AppendProperties
<1> HIDE DEF n, t
<1>3. /\ pos \in [0..n -> Nat] /\ pos[0] = b /\ pos[n] = e
      /\ \A i \in 0..n : pos[i] <= e
      /\ \A i \in 1..n :
           IF IsData(q[i], s)
           THEN /\ q[i].at = pos[i - 1] /\ pos[i] = q[i].at + q[i].n
                /\ q[i].end => s \in whole /\ pos[i] = e
           ELSE pos[i] = pos[i - 1]
  BY <1>1 DEF Leads, n
<1>4. e <= g
  BY DEF FrameType
<1>5. /\ p \in [0..n + 1 -> Nat] /\ p[0] = b /\ p[n + 1] = g
      /\ (\A i \in 0..n + 1 : p[i] <= g) /\ (\A i \in 0..n : p[i] = pos[i])
  <2>1. (\A i \in 0..n : p[i] = pos[i]) /\ p[n + 1] = g
    BY <1>2
  <2>2. \A i \in 0..n + 1 : i \in 0..n \/ i = n + 1
    BY <1>2
  <2>3. \A i \in 0..n + 1 : p[i] <= g
    <3> HIDE DEF p
    <3>1. \A i \in 0..n : pos[i] \in Nat /\ pos[i] <= g
      BY <1>3, <1>4
    <3>2. QED
      BY <2>1, <2>2, <3>1
  <2>4. p \in [0..n + 1 -> Nat]
    BY <1>2, <1>3
  <2>5. 0 \in 0..n
    BY <1>2
  <2> HIDE DEF p
  <2>6. QED
    BY <1>3, <2>1, <2>3, <2>4, <2>5
<1> HIDE DEF p
<1>6. ASSUME NEW i \in 1..n + 1
      PROVE  IF IsData(t[i], s)
             THEN /\ t[i].at = p[i - 1] /\ p[i] = t[i].at + t[i].n
                  /\ t[i].end => s \in more /\ p[i] = g
             ELSE p[i] = p[i - 1]
  <2>1. CASE i = n + 1
    <3>1. t[i] = f /\ p[i] = g /\ p[i - 1] = e
      <4>1. i - 1 = n /\ n \in 0..n
        BY <1>2, <2>1
      <4>2. QED
        BY <1>2, <1>3, <1>5, <2>1, <4>1
    <3>2. QED
      BY <3>1
  <2>2. CASE i # n + 1
    <3>1. i \in 1..n /\ i \in 0..n /\ i - 1 \in 0..n
      BY <1>2, <2>2
    <3>2. t[i] = q[i] /\ p[i] = pos[i] /\ p[i - 1] = pos[i - 1]
      BY <1>2, <1>5, <3>1
    <3>3. IF IsData(q[i], s)
          THEN /\ q[i].at = pos[i - 1] /\ pos[i] = q[i].at + q[i].n
               /\ q[i].end => s \in whole /\ pos[i] = e
          ELSE pos[i] = pos[i - 1]
      BY <1>3, <3>1
    <3>4. QED
      BY <3>2, <3>3
  <2>3. QED
    BY <2>1, <2>2
<1>7. Leads(p, t, b, g, more, s)
  BY <1>2, <1>5, <1>6 DEF Leads
<1>8. QED
  BY <1>7 DEF Chained, t

LEMMA ChainNone ==
  ASSUME NEW q \in Seq(FrameType), NEW b \in Nat, NEW whole, NEW s,
         \A i \in 1..Len(q) : q[i].stream # s
  PROVE  Chained(q, b, b, whole, s)
<1> DEFINE p == [i \in 0..Len(q) |-> b]
<1>1. Len(q) \in Nat
  OBVIOUS
<1>2. Leads(p, q, b, b, whole, s)
  BY <1>1 DEF Leads, IsData
<1>3. QED
  BY <1>2 DEF Chained

LEMMA ChainMore ==
  ASSUME NEW q, NEW b, NEW e, NEW whole, NEW s, NEW more, whole \subseteq more,
         Chained(q, b, e, whole, s)
  PROVE  Chained(q, b, e, more, s)
  BY DEF Chained, Leads

---------------------------------------------------------------------------
(* processData *)

\* The state of serve when the bytes of f are in its pipe, and when they have only
\* been taken from the windows
Filled(c, f) ==
  [serve |-> c.serve, conn |-> c.conn - f.n, reset |-> c.reset, state |-> c.state,
   win   |-> [c.win EXCEPT ![f.stream] = @ - f.n],
   bytes |-> [c.bytes EXCEPT ![f.stream] = @ + f.n],
   decl  |-> c.decl, cont |-> c.cont,
   pipe  |-> [c.pipe EXCEPT ![f.stream] = WritePipe(@, [i \in 1..f.n |-> f.at + i])]]

Taken(c, f) ==
  [serve |-> c.serve, conn |-> c.conn - f.n, reset |-> c.reset, state |-> c.state,
   win   |-> [c.win EXCEPT ![f.stream] = @ - f.n], bytes |-> c.bytes,
   decl  |-> c.decl, cont |-> c.cont, pipe |-> c.pipe]

\* A frame in order
Due(c, rd, k, f) ==
  /\ c \in ServeType /\ f \in FrameType /\ c.state[f.stream] = "open"
  /\ StreamInv(c, rd, k, f.stream) /\ rd \in [Streams -> ReaderType]
  /\ f.n > 0 => f.n <= c.conn /\ f.n <= c.win[f.stream]

LEMMA FrameBytes ==
  ASSUME NEW f \in FrameType
  PROVE  /\ [i \in 1..f.n |-> f.at + i] \in Seq(Nat)
         /\ Len([i \in 1..f.n |-> f.at + i]) = f.n
         /\ \A i \in 1..f.n : [j \in 1..f.n |-> f.at + j][i] = f.at + i
<1>1. f.n \in Nat /\ f.at \in Nat
  BY DEF FrameType
<1>2. \A i \in 1..f.n : f.at + i \in Nat
  BY <1>1
<1>3. QED
  BY <1>1, <1>2, IsASeq

\* What fits the window fits the pipe.
LEMMA FrameFits ==
  ASSUME NEW c, NEW rd, NEW k, NEW f, Due(c, rd, k, f), f.n > 0
  PROVE  /\ c.pipe[f.stream] \in PipeType
         /\ Fitted(c.pipe[f.stream], [i \in 1..f.n |-> f.at + i],
                   WritePipe(c.pipe[f.stream], [i \in 1..f.n |-> f.at + i]))
<1> DEFINE s == f.stream
<1> DEFINE bytes == [i \in 1..f.n |-> f.at + i]
<1>1. s \in Streams /\ f.n \in Nat
  BY DEF Due, FrameType
<1>2. c.pipe[s] \in PipeType /\ c.win[s] \in 0..Window
  BY <1>1, ServeFields DEF Due
<1>3. Unread(c.pipe[s]) \in Nat /\ rd[s].n \in Nat
  BY <1>1, <1>2, PipeFields DEF Due, ReaderType
<1>4. c.win[s] + Unread(c.pipe[s]) + rd[s].n = Window
  BY DEF Due, StreamInv, Account
<1>5. Unread(c.pipe[s]) + f.n <= Window
  BY <1>1, <1>2, <1>3, <1>4, SizesAssumption DEF Due
<1>6. bytes \in Seq(Nat) /\ Len(bytes) = f.n
  BY FrameBytes DEF Due
<1> HIDE DEF bytes
<1>7. Fitted(c.pipe[s], bytes, WritePipe(c.pipe[s], bytes))
  BY <1>2, <1>5, <1>6, WriteFits
<1>8. QED
  BY <1>2, <1>7 DEF bytes

LEMMA FilledTyped ==
  ASSUME NEW c, NEW rd, NEW k, NEW f, Due(c, rd, k, f), f.n > 0
  PROVE  Filled(c, f) \in ServeType /\ Taken(c, f) \in ServeType
<1> DEFINE s == f.stream
<1> DEFINE w == [c.win EXCEPT ![s] = @ - f.n]
<1> DEFINE b == [c.bytes EXCEPT ![s] = @ + f.n]
<1> DEFINE p == [c.pipe EXCEPT ![s] = WritePipe(@, [i \in 1..f.n |-> f.at + i])]
<1>1. s \in Streams /\ f.n \in Nat /\ f.n <= c.conn /\ f.n <= c.win[s] /\ c \in ServeType
  BY DEF Due, FrameType
<1>2. /\ c.serve \in {"loop", "done", "panic"} /\ c.conn \in Nat /\ c.reset \in SUBSET Streams
      /\ c.state \in [Streams -> {"idle", "open", "halfClosedRemote", "closed"}]
      /\ c.decl \in [Streams -> Nat \cup {Undeclared}]
      /\ c.cont \in [Streams -> {"none", "want", "queued"}]
      /\ c.pipe \in [Streams -> PipeType]
      /\ c.win \in [Streams -> 0..Window] /\ c.bytes \in [Streams -> Nat]
  BY <1>1, ServeFields
<1>3. w \in [Streams -> 0..Window]
  BY <1>1, <1>2, SizesAssumption
<1>4. b \in [Streams -> Nat]
  BY <1>1, <1>2
<1>5. p \in [Streams -> PipeType]
  <2>1. WritePipe(c.pipe[s], [i \in 1..f.n |-> f.at + i]) \in PipeType
    BY FrameFits DEF Fitted
  <2>2. QED
    BY <1>1, <1>2, <2>1
<1>6. c.conn - f.n \in Nat
  BY <1>1, <1>2
<1> HIDE DEF w, b, p
<1> DEFINE d == Filled(c, f)
<1> DEFINE e == Taken(c, f)
<1>7. /\ d = [serve |-> c.serve, conn |-> c.conn - f.n, reset |-> c.reset, state |-> c.state,
              win |-> w, bytes |-> b, decl |-> c.decl, cont |-> c.cont, pipe |-> p]
      /\ e = [serve |-> c.serve, conn |-> c.conn - f.n, reset |-> c.reset, state |-> c.state,
              win |-> w, bytes |-> c.bytes, decl |-> c.decl, cont |-> c.cont, pipe |-> c.pipe]
  BY DEF Filled, Taken, w, b, p
<1> HIDE DEF d, e
<1>8. d \in ServeType /\ e \in ServeType
  <2>1. d \in ServeType
    BY <1>2, <1>3, <1>4, <1>5, <1>6, <1>7, ServeMade
  <2>2. e \in ServeType
    BY <1>2, <1>3, <1>6, <1>7, ServeMade
  <2>3. QED
    BY <2>1, <2>2
<1>9. QED
  BY <1>8 DEF d, e

\* What processData does with a frame in order
LEMMA TakesWhat ==
  ASSUME NEW c, NEW rd, NEW k, NEW f, Due(c, rd, k, f)
  PROVE  TakeData(c, f) =
           IF f.n = 0 THEN IF f.end THEN EndBody(c, f.stream) ELSE c
           ELSE IF c.pipe[f.stream].err # "none" THEN ResetStream(Taken(c, f), f.stream)
           ELSE IF f.end THEN EndBody(Filled(c, f), f.stream) ELSE Filled(c, f)
<1> DEFINE s == f.stream
<1> DEFINE bs == [i \in 1..f.n |-> f.at + i]
<1> DEFINE taken == [c EXCEPT !.conn = @ - f.n, !.win[s] = @ - f.n]
<1> DEFINE put == [taken EXCEPT !.pipe[s] = WritePipe(@, bs)]
<1> DEFINE all == [put EXCEPT !.bytes[s] = @ + f.n]
<1> DEFINE w == [c.win EXCEPT ![s] = @ - f.n]
<1> DEFINE b == [c.bytes EXCEPT ![s] = @ + f.n]
<1> DEFINE p == [c.pipe EXCEPT ![s] = WritePipe(@, bs)]
<1>1. c = [serve |-> c.serve, conn |-> c.conn, reset |-> c.reset, state |-> c.state,
           win |-> c.win, bytes |-> c.bytes, decl |-> c.decl, cont |-> c.cont,
           pipe |-> c.pipe]
  BY ServeFields DEF Due
<1>2. taken = [serve |-> c.serve, conn |-> c.conn - f.n, reset |-> c.reset, state |-> c.state,
               win |-> w, bytes |-> c.bytes, decl |-> c.decl, cont |-> c.cont,
               pipe |-> c.pipe]
  <2>1. taken = [c EXCEPT !.conn = c.conn - f.n, !.win = w]
    OBVIOUS
  <2> HIDE DEF w, taken
  <2>2. QED
    BY <1>1, <2>1
<1>3. put = [serve |-> c.serve, conn |-> c.conn - f.n, reset |-> c.reset, state |-> c.state,
             win |-> w, bytes |-> c.bytes, decl |-> c.decl, cont |-> c.cont, pipe |-> p]
  <2> HIDE DEF taken, bs, w
  <2>1. put = [taken EXCEPT !.pipe = [taken.pipe EXCEPT ![s] = WritePipe(taken.pipe[s], bs)]]
    OBVIOUS
  <2>2. taken.pipe = c.pipe
    BY <1>2
  <2>3. put = [taken EXCEPT !.pipe = p]
    BY <2>1, <2>2
  <2> HIDE DEF p, put
  <2>4. QED
    BY <1>2, <2>3
<1>4. all = Filled(c, f) /\ taken = Taken(c, f)
  <2> HIDE DEF put, p, w
  <2>1. all = [put EXCEPT !.bytes = [put.bytes EXCEPT ![s] = put.bytes[s] + f.n]]
    OBVIOUS
  <2>2. put.bytes = c.bytes
    BY <1>3
  <2>3. all = [put EXCEPT !.bytes = b]
    BY <2>1, <2>2
  <2> HIDE DEF b, all
  <2>4. all = [serve |-> c.serve, conn |-> c.conn - f.n, reset |-> c.reset, state |-> c.state,
               win |-> w, bytes |-> b, decl |-> c.decl, cont |-> c.cont, pipe |-> p]
    BY <1>3, <2>3
  <2>5. QED
    BY <1>2, <2>4 DEF Filled, Taken, w, b, p, bs
<1> HIDE DEF bs, taken, put, all, w, b, p
<1>5. f.n # 0 => Unread(put.pipe[s]) = Unread(c.pipe[s]) + f.n
  <2>1. SUFFICES ASSUME f.n > 0 PROVE Unread(put.pipe[s]) = Unread(c.pipe[s]) + f.n
    BY DEF Due, FrameType
  <2>2. Fitted(c.pipe[s], bs, WritePipe(c.pipe[s], bs)) /\ Len(bs) = f.n
    BY <2>1, FrameFits, FrameBytes DEF bs, Due
  <2>3. s \in Streams /\ c.pipe \in [Streams -> PipeType]
    BY ServeFields DEF Due, FrameType
  <2>4. put.pipe[s] = WritePipe(c.pipe[s], bs)
    <3>1. put.pipe = p
      BY <1>3
    <3>2. QED
      BY <2>3, <3>1 DEF p
  <2>5. QED
    BY <2>2, <2>4 DEF Fitted
<1>6. TakeData(c, f) =
        IF f.n = 0 THEN IF f.end THEN EndBody(c, s) ELSE c
        ELSE IF c.pipe[s].err # "none" THEN ResetStream(taken, s)
        ELSE IF ~(Unread(put.pipe[s]) = Unread(c.pipe[s]) + f.n) THEN ResetStream(put, s)
        ELSE IF f.end THEN EndBody(all, s) ELSE all
  BY DEF TakeData, taken, put, all, bs
<1>7. QED
  BY <1>4, <1>5, <1>6, Zenon

\* Nothing that concerns stream t has changed.
LEMMA SameStream ==
  ASSUME NEW c, NEW d, NEW rd, NEW rd2, NEW k, NEW k2, NEW t,
         StreamInv(c, rd, k, t),
         d.state[t] = c.state[t], d.win[t] = c.win[t], d.bytes[t] = c.bytes[t],
         d.decl[t] = c.decl[t], d.pipe[t] = c.pipe[t], rd2[t] = rd[t],
         k2.sent[t] = k.sent[t], t \in k2.whole <=> t \in k.whole
  PROVE  StreamInv(d, rd2, k2, t)
<1>1. Numbered(d, rd2, t)
  BY Zenon DEF StreamInv, Numbered
<1>2. Ending(d, rd2, k2, t)
  BY DEF StreamInv, Ending
<1>3. Fresh(d, rd2, k2, t)
  BY DEF StreamInv, Fresh
<1>4. Reading(rd2, t) /\ Account(d, rd2, t)
  BY DEF StreamInv, Reading, Account
<1>5. QED
  BY <1>1, <1>2, <1>3, <1>4 DEF StreamInv

LEMMA FilledInv ==
  ASSUME NEW c, NEW rd, NEW k, NEW f, Due(c, rd, k, f), f.n > 0,
         f.at = c.bytes[f.stream], c.bytes[f.stream] + f.n <= k.sent[f.stream],
         c.pipe[f.stream].err = "none"
  PROVE  StreamInv(Filled(c, f), rd, k, f.stream)
<1> DEFINE s == f.stream
<1> DEFINE bs == [i \in 1..f.n |-> f.at + i]
<1> DEFINE d == Filled(c, f)
<1> DEFINE u == Unread(c.pipe[s])
<1>1. s \in Streams /\ f.n \in Nat /\ f.at \in Nat /\ rd[s] \in ReaderType
  BY DEF Due, FrameType
<1>2. /\ c.win \in [Streams -> 0..Window] /\ c.bytes \in [Streams -> Nat]
      /\ c.pipe \in [Streams -> PipeType]
  BY ServeFields DEF Due
<1>3. /\ d.state = c.state /\ d.decl = c.decl /\ d.win[s] = c.win[s] - f.n
      /\ d.bytes[s] = c.bytes[s] + f.n /\ d.pipe[s] = WritePipe(c.pipe[s], bs)
  <2> HIDE DEF bs
  <2>1. QED
    BY <1>1, <1>2 DEF Filled, bs
<1>4. Fitted(c.pipe[s], bs, d.pipe[s]) /\ Len(bs) = f.n /\ \A i \in 1..f.n : bs[i] = f.at + i
  <2>1. f \in FrameType
    BY DEF Due
  <2>2. Len(bs) = f.n /\ \A i \in 1..f.n : bs[i] = f.at + i
    BY <2>1, FrameBytes, Zenon
  <2>3. Fitted(c.pipe[s], bs, WritePipe(c.pipe[s], bs))
    BY FrameFits, Zenon
  <2>4. QED
    BY <1>3, <2>2, <2>3
<1> HIDE DEF bs, d
<1>5. /\ u \in Nat /\ Len(rd[s].got) \in Nat /\ rd[s].n \in Nat
      /\ Len(rd[s].got) + u = c.bytes[s]
      /\ \A i \in 1..u : Content(c.pipe[s], i) = Len(rd[s].got) + i
  BY <1>1, <1>2, PipeFields DEF Due, StreamInv, Numbered, ReaderType
<1> DEFINE v == Unread(d.pipe[s])
<1> DEFINE g == Len(rd[s].got)
<1>6. /\ v = u + f.n /\ d.pipe[s].err = "none"
      /\ \A i \in 1..u : Content(d.pipe[s], i) = g + i
      /\ \A i \in 1..f.n : Content(d.pipe[s], u + i) = f.at + i
  BY <1>4, <1>5 DEF Fitted
<1> HIDE DEF u, v, g
<1>7. g \in Nat /\ u \in Nat /\ g + u = c.bytes[s]
  BY <1>5 DEF g, u
<1>8. ASSUME NEW i \in 1..v PROVE Content(d.pipe[s], i) = g + i
  <2>1. CASE i <= u
    BY <1>6, <1>7, <2>1
  <2>2. CASE ~(i <= u)
    <3>1. i - u \in 1..f.n /\ u + (i - u) = i
      BY <1>1, <1>6, <1>7, <2>2
    <3>2. Content(d.pipe[s], u + (i - u)) = f.at + (i - u)
      BY <1>6, <3>1
    <3>3. QED
      BY <1>1, <1>7, <3>1, <3>2
  <2>3. QED
    BY <2>1, <2>2
<1>9. Numbered(d, rd, s)
  BY <1>1, <1>3, <1>6, <1>7, <1>8 DEF Numbered, v, g
<1>10. Ending(d, rd, k, s)
  BY <1>3, <1>6 DEF Ending, Due, StreamInv
<1>11. Fresh(d, rd, k, s)
  BY <1>3 DEF Fresh, Due, StreamInv
<1>12. Account(d, rd, s) /\ Reading(rd, s)
  <2>1. c.win[s] + u + rd[s].n = Window
    BY DEF Due, StreamInv, Account, u
  <2>2. c.win[s] \in Int
    BY <1>1, <1>2
  <2>3. d.win[s] + v + rd[s].n = Window
    BY <1>1, <1>3, <1>5, <1>6, <1>7, <2>1, <2>2
  <2>4. QED
    BY <2>3 DEF Due, StreamInv, Account, v
<1>13. QED
  BY <1>9, <1>10, <1>11, <1>12 DEF StreamInv, d

LEMMA FilledOthers ==
  ASSUME NEW c, NEW rd, NEW k, NEW f, Due(c, rd, k, f), NEW t \in Streams, t # f.stream
  PROVE  /\ Filled(c, f).state[t] = c.state[t] /\ Filled(c, f).win[t] = c.win[t]
         /\ Filled(c, f).bytes[t] = c.bytes[t] /\ Filled(c, f).decl[t] = c.decl[t]
         /\ Filled(c, f).pipe[t] = c.pipe[t]
<1>1. /\ c.win \in [Streams -> 0..Window] /\ c.bytes \in [Streams -> Nat]
      /\ c.pipe \in [Streams -> PipeType] /\ f.stream \in Streams
  BY ServeFields DEF Due, FrameType
<1>2. QED
  BY <1>1 DEF Filled

\* The end of a body that is complete
LEMMA EndBodyInv ==
  ASSUME NEW c \in ServeType, NEW s \in Streams, c.state[s] = "open"
  PROVE  /\ EndBody(c, s) \in ServeType
         /\ EndBody(c, s).state[s] = "halfClosedRemote" /\ EndBody(c, s).bytes = c.bytes
         /\ \A t \in Streams \ {s} :
              /\ EndBody(c, s).state[t] = c.state[t] /\ EndBody(c, s).win[t] = c.win[t]
              /\ EndBody(c, s).decl[t] = c.decl[t] /\ EndBody(c, s).pipe[t] = c.pipe[t]
         /\ \A rd, k : StreamInv(c, rd, k, s) /\ s \in k.whole /\ c.bytes[s] = k.sent[s]
                       => StreamInv(EndBody(c, s), rd, k, s)
<1> DEFINE err == IF Declared(c, s) /\ c.decl[s] # c.bytes[s] THEN "length" ELSE "EOF"
<1> DEFINE st == [c.state EXCEPT ![s] = "halfClosedRemote"]
<1> DEFINE pp == [c.pipe EXCEPT ![s] = ClosePipe(c.pipe[s], err)]
<1> DEFINE d == EndBody(c, s)
<1>1. /\ c = [serve |-> c.serve, conn |-> c.conn, reset |-> c.reset, state |-> c.state,
             win |-> c.win, bytes |-> c.bytes, decl |-> c.decl, cont |-> c.cont,
             pipe |-> c.pipe]
      /\ c.serve \in {"loop", "done", "panic"} /\ c.conn \in Nat /\ c.reset \in SUBSET Streams
      /\ c.state \in [Streams -> {"idle", "open", "halfClosedRemote", "closed"}]
      /\ c.win \in [Streams -> 0..Window] /\ c.bytes \in [Streams -> Nat]
      /\ c.decl \in [Streams -> Nat \cup {Undeclared}]
      /\ c.cont \in [Streams -> {"none", "want", "queued"}]
      /\ c.pipe \in [Streams -> PipeType]
  BY ServeFields
<1>2. /\ c.pipe[s] \in PipeType /\ err \in {"length", "EOF"} /\ err \in Errors
  BY <1>1 DEF Errors
<1> HIDE DEF err
<1>3. /\ ClosePipe(c.pipe[s], err) \in PipeType
      /\ Unread(ClosePipe(c.pipe[s], err)) = Unread(c.pipe[s])
      /\ ClosePipe(c.pipe[s], err).data = c.pipe[s].data
      /\ ClosePipe(c.pipe[s], err).r = c.pipe[s].r
      /\ ClosePipe(c.pipe[s], err).err = IF c.pipe[s].err = "none" THEN err ELSE c.pipe[s].err
  BY <1>2, CloseKeeps
<1>4. /\ st \in [Streams -> {"idle", "open", "halfClosedRemote", "closed"}]
      /\ pp \in [Streams -> PipeType]
  BY <1>1, <1>3
<1>5. d = [c EXCEPT !.state = st, !.pipe = pp]
  BY <1>1 DEF EndBody, err
<1>6. st[s] = "halfClosedRemote" /\ pp[s] = ClosePipe(c.pipe[s], err)
      /\ \A t \in Streams \ {s} : st[t] = c.state[t] /\ pp[t] = c.pipe[t]
  BY <1>1
<1> HIDE DEF st, pp, d
<1>7. d = [serve |-> c.serve, conn |-> c.conn, reset |-> c.reset, state |-> st,
           win |-> c.win, bytes |-> c.bytes, decl |-> c.decl, cont |-> c.cont, pipe |-> pp]
  BY <1>1, <1>5
<1>8. d \in ServeType
  BY <1>1, <1>4, <1>7, ServeMade
<1>9. d.state = st /\ d.win = c.win /\ d.bytes = c.bytes /\ d.decl = c.decl /\ d.pipe = pp
  BY <1>7
<1>10. ASSUME NEW rd, NEW k, StreamInv(c, rd, k, s), s \in k.whole, c.bytes[s] = k.sent[s]
       PROVE  StreamInv(d, rd, k, s)
  <2>1. Unread(d.pipe[s]) = Unread(c.pipe[s]) /\ \A i : Content(d.pipe[s], i) = Content(c.pipe[s], i)
    BY <1>3, <1>6, <1>9 DEF Content
  <2>2. Numbered(d, rd, s)
    BY <1>9, <1>10, <2>1, Zenon DEF StreamInv, Numbered
  <2>3. err = "EOF" => c.decl[s] \in {Undeclared, k.sent[s]}
    BY <1>10 DEF err, Declared
  <2>4. Ending(d, rd, k, s)
    BY <1>2, <1>3, <1>6, <1>9, <1>10, <2>3 DEF StreamInv, Ending
  <2>5. Fresh(d, rd, k, s)
    BY <1>6, <1>9, <1>10 DEF StreamInv, Fresh
  <2>6. Account(d, rd, s) /\ Reading(rd, s)
    BY <1>6, <1>9, <1>10 DEF StreamInv, Account
  <2>7. QED
    BY <2>2, <2>4, <2>5, <2>6 DEF StreamInv
<1>11. \A t \in Streams \ {s} : d.state[t] = c.state[t] /\ d.win[t] = c.win[t]
                                /\ d.decl[t] = c.decl[t] /\ d.pipe[t] = c.pipe[t]
  BY <1>6, <1>9
<1>12. d.state[s] = "halfClosedRemote"
  BY <1>6, <1>9
<1>13. QED
  BY <1>8, <1>9, <1>10, <1>11, <1>12 DEF d

LEMMA SameArrives ==
  ASSUME NEW c, NEW d, NEW q, NEW k, NEW k2, NEW t, Arrives(c, q, k, t),
         d.state[t] = c.state[t], d.bytes[t] = c.bytes[t],
         k2.sent[t] = k.sent[t], k.whole \subseteq k2.whole
  PROVE  Arrives(d, q, k2, t)
  BY ChainMore DEF Arrives

\* A frame that tells stream t nothing is gone.
LEMMA ArrivesTail ==
  ASSUME NEW c \in ServeType, NEW q \in Seq(FrameType), q # <<>>, NEW k \in ClientType,
         NEW t \in Streams, Arrives(c, q, k, t), ~IsData(Head(q), t) \/ c.state[t] # "open"
  PROVE  Arrives(c, Tail(q), k, t)
<1>1. ASSUME c.state[t] = "open"
      PROVE  Chained(Tail(q), c.bytes[t], k.sent[t], k.whole, t)
  <2>1. c.bytes[t] \in Nat /\ k.sent[t] \in Nat
    BY ServeFields DEF ClientType
  <2>2. HeadTold(Head(q), Tail(q), c.bytes[t], k.sent[t], k.whole, t)
    BY <1>1, <2>1, ChainHead DEF Arrives
  <2>3. QED
    BY <1>1, <2>2 DEF HeadTold
<1>2. ASSUME c.state[t] = "idle", NEW i \in 1..Len(Tail(q))
      PROVE  Tail(q)[i].stream # t
  <2>1. Tail(q)[i] = q[i + 1] /\ i + 1 \in 1..Len(q)
    BY HeadTailProperties
  <2>2. QED
    BY <1>2, <2>1 DEF Arrives
<1>3. QED
  BY <1>1, <1>2 DEF Arrives

\* A frame in order says where its bytes belong.
LEMMA DueTold ==
  ASSUME NEW c, NEW rd, NEW k \in ClientType, NEW q \in Seq(FrameType), q # <<>>,
         Due(c, rd, k, Head(q)), Head(q).kind = "data", Arrives(c, q, k, Head(q).stream)
  PROVE  LET f == Head(q)
             s == f.stream
         IN /\ f.at = c.bytes[s] /\ c.bytes[s] + f.n <= k.sent[s]
            /\ f.end => s \in k.whole /\ c.bytes[s] + f.n = k.sent[s]
            /\ Chained(Tail(q), c.bytes[s] + f.n, k.sent[s], k.whole, s)
<1> DEFINE f == Head(q)
<1> DEFINE s == f.stream
<1>1. s \in Streams /\ c \in ServeType /\ c.state[s] = "open"
  BY DEF Due, FrameType
<1>2. c.bytes[s] \in Nat /\ k.sent[s] \in Nat
  BY <1>1, ServeFields DEF ClientType
<1>3. HeadTold(f, Tail(q), c.bytes[s], k.sent[s], k.whole, s)
  BY <1>1, <1>2, ChainHead DEF Arrives
<1>4. QED
  BY <1>3 DEF HeadTold, IsData

\* What processData makes of a frame in order that is the first under way
Took(c, rd, k, q, d) ==
  /\ d \in ServeType
  /\ \A t \in Streams : StreamInv(d, rd, k, t) /\ Arrives(d, Tail(q), k, t)

\* ... when it changes only the frame's stream.
LEMMA TookOne ==
  ASSUME NEW c \in ServeType, NEW d \in ServeType, NEW rd, NEW k \in ClientType,
         NEW q \in Seq(FrameType), q # <<>>, NEW s \in Streams, s = Head(q).stream,
         \A t \in Streams : StreamInv(c, rd, k, t) /\ Arrives(c, q, k, t),
         \A t \in Streams \ {s} :
           /\ d.state[t] = c.state[t] /\ d.win[t] = c.win[t] /\ d.bytes[t] = c.bytes[t]
           /\ d.decl[t] = c.decl[t] /\ d.pipe[t] = c.pipe[t],
         StreamInv(d, rd, k, s), Arrives(d, Tail(q), k, s)
  PROVE  Took(c, rd, k, q, d)
<1>1. ASSUME NEW t \in Streams, t # s
      PROVE  StreamInv(d, rd, k, t) /\ Arrives(d, Tail(q), k, t)
  <2>1. StreamInv(d, rd, k, t)
    BY <1>1, SameStream
  <2>2. Arrives(d, q, k, t)
    BY <1>1, SameArrives
  <2>3. ~IsData(Head(q), t)
    BY <1>1 DEF IsData
  <2>4. QED
    BY <2>1, <2>2, <2>3, ArrivesTail
<1>2. QED
  BY <1>1 DEF Took

LEMMA TakesAll ==
  ASSUME NEW c, NEW rd, NEW k \in ClientType, NEW q \in Seq(FrameType), q # <<>>,
         Due(c, rd, k, Head(q)), Head(q).kind = "data",
         \A t \in Streams : StreamInv(c, rd, k, t) /\ Arrives(c, q, k, t)
  PROVE  Took(c, rd, k, q, TakeData(c, Head(q)))
<1> DEFINE f == Head(q)
<1> DEFINE s == f.stream
<1> DEFINE d == TakeData(c, f)
<1>1. /\ s \in Streams /\ c \in ServeType /\ c.state[s] = "open" /\ f.n \in Nat
      /\ f.n # 0 => f.n > 0
  BY DEF Due, FrameType
<1>2. /\ f.at = c.bytes[s] /\ c.bytes[s] + f.n <= k.sent[s]
      /\ f.end => s \in k.whole /\ c.bytes[s] + f.n = k.sent[s]
      /\ Chained(Tail(q), c.bytes[s] + f.n, k.sent[s], k.whole, s)
  BY <1>1, DueTold
<1>3. /\ c.state \in [Streams -> {"idle", "open", "halfClosedRemote", "closed"}]
      /\ c.win \in [Streams -> 0..Window] /\ c.bytes \in [Streams -> Nat]
  BY <1>1, ServeFields
<1>4. d = IF f.n = 0 THEN IF f.end THEN EndBody(c, s) ELSE c
          ELSE IF c.pipe[s].err # "none" THEN ResetStream(Taken(c, f), s)
          ELSE IF f.end THEN EndBody(Filled(c, f), s) ELSE Filled(c, f)
  BY TakesWhat
<1> HIDE DEF d
<1>5. CASE f.n = 0 /\ ~f.end
  <2>1. d = c
    BY <1>4, <1>5
  <2>2. Arrives(c, Tail(q), k, s)
    BY <1>1, <1>2, <1>3, <1>5 DEF Arrives
  <2>3. QED
    BY <1>1, <2>1, <2>2, TookOne DEF d
<1>6. CASE f.n = 0 /\ f.end
  <2>1. d = EndBody(c, s)
    BY <1>4, <1>6
  <2>2. /\ d \in ServeType /\ d.state[s] = "halfClosedRemote" /\ d.bytes = c.bytes
        /\ \A t \in Streams \ {s} :
              /\ d.state[t] = c.state[t] /\ d.win[t] = c.win[t]
              /\ d.decl[t] = c.decl[t] /\ d.pipe[t] = c.pipe[t]
    BY <1>1, <2>1, EndBodyInv, Zenon
  <2>3. s \in k.whole /\ c.bytes[s] = k.sent[s]
    BY <1>1, <1>2, <1>3, <1>6
  <2>4. StreamInv(d, rd, k, s)
    BY <1>1, <2>1, <2>3, EndBodyInv, Zenon
  <2>5. Arrives(d, Tail(q), k, s)
    BY <2>2 DEF Arrives
  <2>6. QED
    BY <1>1, <2>2, <2>4, <2>5, TookOne DEF d
<1>7. CASE f.n # 0 /\ c.pipe[s].err # "none"
  <2> DEFINE e == Taken(c, f)
  <2>1. d = ResetStream(e, s) /\ e \in ServeType
    BY <1>1, <1>4, <1>7, FilledTyped
  <2>2. /\ e.state = c.state /\ e.bytes = c.bytes /\ e.decl = c.decl /\ e.pipe = c.pipe
        /\ \A t \in Streams \ {s} : e.win[t] = c.win[t]
    BY <1>1, <1>3 DEF Taken
  <2> HIDE DEF e
  <2>3. Closes(e, d) /\ d.state[s] = "closed"
    BY <1>1, <2>1, <2>2, ResetCloses
  <2>4. ASSUME NEW t \in Streams
        PROVE  /\ \/ d.state[t] = c.state[t] /\ d.win[t] = c.win[t]
                  \/ d.state[t] = "closed" /\ c.state[t] # "idle"
               /\ d.pipe[t].data = c.pipe[t].data /\ d.pipe[t].r = c.pipe[t].r
               /\ \/ d.pipe[t].err = c.pipe[t].err
                  \/ /\ c.pipe[t].err = "none" /\ c.state[t] # "idle"
                     /\ d.pipe[t].err \in Errors \ {"none", "nil", "EOF"}
    <3>1. /\ \/ d.state[t] = e.state[t] /\ d.win[t] = e.win[t]
             \/ d.state[t] = "closed" /\ e.state[t] # "idle"
          /\ d.pipe[t].data = e.pipe[t].data /\ d.pipe[t].r = e.pipe[t].r
          /\ \/ d.pipe[t].err = e.pipe[t].err
             \/ /\ e.pipe[t].err = "none" /\ e.state[t] # "idle"
                /\ d.pipe[t].err \in Errors \ {"none", "nil", "EOF"}
      BY <2>3, Zenon DEF Closes
    <3>2. CASE t = s
      BY <1>1, <2>2, <2>3, <3>1, <3>2
    <3>3. CASE t # s
      BY <2>2, <3>1, <3>3
    <3>4. QED
      BY <3>2, <3>3
  <2>5. d \in ServeType /\ d.bytes = c.bytes /\ d.decl = c.decl
    BY <2>2, <2>3 DEF Closes
  <2>6. Closes(c, d)
    BY <2>4, <2>5, Zenon DEF Closes
  <2>7. ASSUME NEW t \in Streams
        PROVE  StreamInv(d, rd, k, t) /\ Arrives(d, Tail(q), k, t)
    <3>1. StreamInv(d, rd, k, t) /\ Arrives(d, q, k, t)
      BY <1>1, <2>6, ClosesKeeps
    <3>2. ~IsData(Head(q), t) \/ d.state[t] # "open"
      BY <2>3 DEF IsData
    <3>3. QED
      BY <2>5, <3>1, <3>2, ArrivesTail
  <2>8. QED
    BY <2>5, <2>7 DEF Took, d
<1>8. CASE f.n # 0 /\ c.pipe[s].err = "none"
  <2> DEFINE e == Filled(c, f)
  <2>1. e \in ServeType /\ StreamInv(e, rd, k, s)
    BY <1>1, <1>2, <1>8, FilledTyped, FilledInv
  <2>2. e.bytes[s] = c.bytes[s] + f.n /\ e.state = c.state /\ e.state[s] = "open"
    BY <1>1, <1>3 DEF Filled
  <2>3. \A t \in Streams \ {s} :
          /\ e.state[t] = c.state[t] /\ e.win[t] = c.win[t] /\ e.bytes[t] = c.bytes[t]
          /\ e.decl[t] = c.decl[t] /\ e.pipe[t] = c.pipe[t]
    BY FilledOthers
  <2> HIDE DEF e
  <2>4. CASE ~f.end
    <3>1. d = e
      BY <1>4, <1>8, <2>4 DEF e
    <3>2. Arrives(e, Tail(q), k, s)
      BY <1>1, <1>2, <2>2 DEF Arrives
    <3>3. QED
      BY <1>1, <2>1, <2>3, <3>1, <3>2, TookOne DEF d
  <2>5. CASE f.end
    <3>1. d = EndBody(e, s)
      BY <1>4, <1>8, <2>5 DEF e
    <3>2. /\ d \in ServeType /\ d.state[s] = "halfClosedRemote" /\ d.bytes = e.bytes
          /\ \A t \in Streams \ {s} :
                /\ d.state[t] = e.state[t] /\ d.win[t] = e.win[t]
                /\ d.decl[t] = e.decl[t] /\ d.pipe[t] = e.pipe[t]
      BY <1>1, <2>1, <2>2, <3>1, EndBodyInv, Zenon
    <3>3. s \in k.whole /\ e.bytes[s] = k.sent[s]
      BY <1>2, <2>2, <2>5
    <3>4. StreamInv(d, rd, k, s)
      BY <1>1, <2>1, <2>2, <3>1, <3>3, EndBodyInv, Zenon
    <3>5. Arrives(d, Tail(q), k, s)
      BY <3>2 DEF Arrives
    <3>6. \A t \in Streams \ {s} :
            /\ d.state[t] = c.state[t] /\ d.win[t] = c.win[t] /\ d.bytes[t] = c.bytes[t]
            /\ d.decl[t] = c.decl[t] /\ d.pipe[t] = c.pipe[t]
      BY <2>3, <3>2
    <3>7. QED
      BY <1>1, <3>2, <3>4, <3>5, <3>6, TookOne DEF d
  <2>6. QED
    BY <2>4, <2>5
<1>9. QED
  BY <1>5, <1>6, <1>7, <1>8

---------------------------------------------------------------------------
(* What leaves the readers and the clients alone *)

LEMMA EventTyped ==
  ASSUME NEW e, TypeOK, Event(e)
  PROVE  events' \in Nat
  BY DEF TypeOK, Event

LEMMA HeadTyped ==
  ASSUME TypeOK, net # <<>>
  PROVE  Head(net) \in FrameType /\ Head(net).stream \in Streams /\ Head(net).n \in Nat
<1>1. net \in Seq(FrameType)
  BY DEF TypeOK
<1>2. Head(net) \in FrameType
  BY <1>1
<1>3. QED
  BY <1>2 DEF FrameType

LEMMA ClosingKeeps ==
  ASSUME IInv, Closes(sc, sc'), UNCHANGED <<reader, cl, grant>>,
         refused' \in [Streams -> Nat], ignored' \in Nat, events' \in Nat,
         \/ UNCHANGED net
         \/ /\ net # <<>> /\ net' = Tail(net)
            /\ \A t \in Streams : ~IsData(Head(net), t) \/ sc'.state[t] # "open"
  PROVE  IInv'
<1>1. sc \in ServeType /\ sc' \in ServeType /\ net \in Seq(FrameType) /\ cl \in ClientType
  BY DEF IInv, TypeOK, Closes
<1>2. net' \in Seq(FrameType)
  BY <1>1
<1>3. ASSUME NEW t \in Streams
      PROVE  StreamInv(sc', reader', cl', t) /\ Arrives(sc', net', cl', t)
  <2>1. StreamInv(sc, reader, cl, t) /\ Arrives(sc, net, cl, t)
    BY DEF IInv
  <2>2. StreamInv(sc', reader, cl, t) /\ Arrives(sc', net, cl, t)
    BY <1>1, <2>1, ClosesKeeps
  <2>3. Arrives(sc', net', cl, t)
    BY <1>1, <2>2, ArrivesTail
  <2>4. QED
    BY <2>2, <2>3
<1>4. TypeOK'
  BY <1>1, <1>2 DEF IInv, TypeOK
<1>5. QED
  BY <1>3, <1>4 DEF IInv

LEMMA WaitingPipe ==
  ASSUME NEW p \in PipeType
  PROVE  /\ [p EXCEPT !.waiting = TRUE] \in PipeType
         /\ [p EXCEPT !.waiting = TRUE].data = p.data /\ [p EXCEPT !.waiting = TRUE].r = p.r
         /\ [p EXCEPT !.waiting = TRUE].err = p.err
<1> DEFINE w == [p EXCEPT !.waiting = TRUE]
<1>1. p = [data |-> p.data, r |-> p.r, err |-> p.err, waiting |-> p.waiting]
  BY PipeFields
<1>2. w = [p EXCEPT !.waiting = TRUE]
  OBVIOUS
<1> HIDE DEF w
<1>3. w = [data |-> p.data, r |-> p.r, err |-> p.err, waiting |-> TRUE]
  BY <1>1, <1>2
<1>4. w \in PipeType
  BY <1>3, PipeFields, PipeMade
<1>5. QED
  BY <1>3, <1>4 DEF w

LEMMA PipeWaits ==
  ASSUME NEW c \in ServeType, NEW s \in Streams
  PROVE  Closes(c, [c EXCEPT !.pipe[s].waiting = TRUE])
<1> DEFINE d == [c EXCEPT !.pipe[s].waiting = TRUE]
<1> DEFINE w == [c.pipe[s] EXCEPT !.waiting = TRUE]
<1> DEFINE pp == [c.pipe EXCEPT ![s] = w]
<1>1. /\ c = [serve |-> c.serve, conn |-> c.conn, reset |-> c.reset, state |-> c.state,
             win |-> c.win, bytes |-> c.bytes, decl |-> c.decl, cont |-> c.cont,
             pipe |-> c.pipe]
      /\ c.serve \in {"loop", "done", "panic"} /\ c.conn \in Nat /\ c.reset \in SUBSET Streams
      /\ c.state \in [Streams -> {"idle", "open", "halfClosedRemote", "closed"}]
      /\ c.win \in [Streams -> 0..Window] /\ c.bytes \in [Streams -> Nat]
      /\ c.decl \in [Streams -> Nat \cup {Undeclared}]
      /\ c.cont \in [Streams -> {"none", "want", "queued"}]
      /\ c.pipe \in [Streams -> PipeType]
  BY ServeFields
<1>2. w \in PipeType /\ w.data = c.pipe[s].data /\ w.r = c.pipe[s].r /\ w.err = c.pipe[s].err
  BY <1>1, WaitingPipe
<1>3. d = [c EXCEPT !.pipe = pp]
  OBVIOUS
<1> HIDE DEF w, d
<1>4. /\ pp \in [Streams -> PipeType]
      /\ \A t \in Streams : pp[t] = IF t = s THEN w ELSE c.pipe[t]
  BY <1>1, <1>2
<1> HIDE DEF pp
<1>5. d = [serve |-> c.serve, conn |-> c.conn, reset |-> c.reset, state |-> c.state,
           win |-> c.win, bytes |-> c.bytes, decl |-> c.decl, cont |-> c.cont, pipe |-> pp]
  BY <1>1, <1>3
<1>6. d \in ServeType
  BY <1>1, <1>4, <1>5, ServeMade
<1>7. d.state = c.state /\ d.win = c.win /\ d.bytes = c.bytes /\ d.decl = c.decl /\ d.pipe = pp
  BY <1>5
<1>8. QED
  BY <1>2, <1>4, <1>6, <1>7 DEF Closes, d

LEMMA WaitInPipeKeeps ==
  ASSUME IInv, NEW s \in Streams, WaitInPipe(s)
  PROVE  IInv'
<1>1. Closes(sc, sc')
  BY PipeWaits DEF WaitInPipe, IInv, TypeOK
<1>2. UNCHANGED <<reader, net, cl, grant, refused, ignored, events>>
  BY DEF WaitInPipe
<1>3. refused' \in [Streams -> Nat] /\ ignored' \in Nat /\ events' \in Nat
  BY <1>2 DEF IInv, TypeOK
<1>4. QED
  BY <1>1, <1>2, <1>3, ClosingKeeps

\* What an assignment to the queue of 100-continues is
LEMMA ContinueCloses ==
  ASSUME NEW c \in ServeType, NEW s \in Streams, NEW x \in {"none", "want", "queued"}
  PROVE  Closes(c, [c EXCEPT !.cont[s] = x])
<1> DEFINE d == [c EXCEPT !.cont[s] = x]
<1> DEFINE ct == [c.cont EXCEPT ![s] = x]
<1>1. /\ c = [serve |-> c.serve, conn |-> c.conn, reset |-> c.reset, state |-> c.state,
             win |-> c.win, bytes |-> c.bytes, decl |-> c.decl, cont |-> c.cont,
             pipe |-> c.pipe]
      /\ c.serve \in {"loop", "done", "panic"} /\ c.conn \in Nat /\ c.reset \in SUBSET Streams
      /\ c.state \in [Streams -> {"idle", "open", "halfClosedRemote", "closed"}]
      /\ c.win \in [Streams -> 0..Window] /\ c.bytes \in [Streams -> Nat]
      /\ c.decl \in [Streams -> Nat \cup {Undeclared}]
      /\ c.cont \in [Streams -> {"none", "want", "queued"}]
      /\ c.pipe \in [Streams -> PipeType]
  BY ServeFields
<1>2. ct \in [Streams -> {"none", "want", "queued"}]
  BY <1>1
<1>3. d = [c EXCEPT !.cont = ct]
  OBVIOUS
<1> HIDE DEF ct, d
<1>4. d = [serve |-> c.serve, conn |-> c.conn, reset |-> c.reset, state |-> c.state,
           win |-> c.win, bytes |-> c.bytes, decl |-> c.decl, cont |-> ct, pipe |-> c.pipe]
  BY <1>1, <1>3
<1>5. d \in ServeType
  BY <1>1, <1>2, <1>4, ServeMade
<1>6. d.state = c.state /\ d.win = c.win /\ d.bytes = c.bytes /\ d.decl = c.decl
      /\ d.pipe = c.pipe
  BY <1>4
<1>7. QED
  BY <1>5, <1>6, ClosesNothing DEF d

LEMMA ContinueKeeps ==
  ASSUME IInv, NEW s \in Streams, WantContinue(s) \/ WriteContinue(s)
  PROVE  IInv'
<1>1. sc \in ServeType
  BY DEF IInv, TypeOK
<1>2. UNCHANGED <<reader, net, cl, grant, refused, ignored, events>>
  BY DEF WantContinue, WriteContinue
<1>3. Closes(sc, sc')
  <2>1. CASE sc' = End(sc, "panic")
    BY <1>1, <2>1, EndCloses
  <2>2. CASE sc' = [sc EXCEPT !.cont[s] = "queued"]
    BY <1>1, <2>2, ContinueCloses
  <2>3. CASE sc' = [sc EXCEPT !.cont[s] = "none"]
    BY <1>1, <2>3, ContinueCloses
  <2>4. QED
    BY <2>1, <2>2, <2>3 DEF WantContinue, WriteContinue
<1>4. refused' \in [Streams -> Nat] /\ ignored' \in Nat /\ events' \in Nat
  BY <1>2 DEF IInv, TypeOK
<1>5. QED
  BY <1>2, <1>3, <1>4, ClosingKeeps

LEMMA PipeCloses ==
  ASSUME NEW c \in ServeType, NEW s \in Streams, c.state[s] # "idle",
         NEW err \in Errors \ {"none", "nil", "EOF"}
  PROVE  /\ Closes(c, [c EXCEPT !.pipe[s] = ClosePipe(@, err)])
         /\ [c EXCEPT !.pipe[s] = ClosePipe(@, err)].state = c.state
<1> DEFINE d == [c EXCEPT !.pipe[s] = ClosePipe(@, err)]
<1> DEFINE w == ClosePipe(c.pipe[s], err)
<1> DEFINE pp == [c.pipe EXCEPT ![s] = w]
<1>1. /\ c = [serve |-> c.serve, conn |-> c.conn, reset |-> c.reset, state |-> c.state,
             win |-> c.win, bytes |-> c.bytes, decl |-> c.decl, cont |-> c.cont,
             pipe |-> c.pipe]
      /\ c.serve \in {"loop", "done", "panic"} /\ c.conn \in Nat /\ c.reset \in SUBSET Streams
      /\ c.state \in [Streams -> {"idle", "open", "halfClosedRemote", "closed"}]
      /\ c.win \in [Streams -> 0..Window] /\ c.bytes \in [Streams -> Nat]
      /\ c.decl \in [Streams -> Nat \cup {Undeclared}]
      /\ c.cont \in [Streams -> {"none", "want", "queued"}]
      /\ c.pipe \in [Streams -> PipeType]
  BY ServeFields
<1>2. /\ w \in PipeType /\ w.data = c.pipe[s].data /\ w.r = c.pipe[s].r
      /\ w.err = IF c.pipe[s].err = "none" THEN err ELSE c.pipe[s].err
  BY <1>1, CloseKeeps
<1>3. d = [c EXCEPT !.pipe = pp]
  OBVIOUS
<1> HIDE DEF w, d
<1>4. /\ pp \in [Streams -> PipeType]
      /\ \A t \in Streams : pp[t] = IF t = s THEN w ELSE c.pipe[t]
  BY <1>1, <1>2
<1> HIDE DEF pp
<1>5. d = [serve |-> c.serve, conn |-> c.conn, reset |-> c.reset, state |-> c.state,
           win |-> c.win, bytes |-> c.bytes, decl |-> c.decl, cont |-> c.cont, pipe |-> pp]
  BY <1>1, <1>3
<1>6. d \in ServeType
  BY <1>1, <1>4, <1>5, ServeMade
<1>7. d.state = c.state /\ d.win = c.win /\ d.bytes = c.bytes /\ d.decl = c.decl /\ d.pipe = pp
  BY <1>5
<1>8. QED
  BY <1>2, <1>4, <1>6, <1>7 DEF Closes, d

LEMMA CloseBodyKeeps ==
  ASSUME IInv, NEW s \in Streams, CloseBody(s)
  PROVE  IInv'
<1>1. sc \in ServeType /\ sc.state[s] # "idle"
  BY DEF IInv, TypeOK, CloseBody, StreamInv, Fresh
<1>2. Closes(sc, sc')
  BY <1>1, PipeCloses DEF CloseBody, Errors
<1>3. UNCHANGED <<reader, net, cl, grant, refused, ignored>>
  BY DEF CloseBody
<1>4. refused' \in [Streams -> Nat] /\ ignored' \in Nat /\ events' \in Nat
  BY <1>3, EventTyped DEF IInv, TypeOK, CloseBody
<1>5. QED
  BY <1>2, <1>3, <1>4, ClosingKeeps

LEMMA ServeEndsKeeps ==
  ASSUME IInv, ServeEnds
  PROVE  IInv'
<1>1. Closes(sc, sc')
  BY EndCloses DEF IInv, TypeOK, ServeEnds
<1>2. UNCHANGED <<reader, net, cl, grant, refused, ignored>>
  BY DEF ServeEnds
<1>3. refused' \in [Streams -> Nat] /\ ignored' \in Nat /\ events' \in Nat
  BY <1>2, EventTyped DEF IInv, TypeOK, ServeEnds
<1>4. QED
  BY <1>1, <1>2, <1>3, ClosingKeeps

\* The pipe of a stream that is closed with nil has been closed before.
LEMMA RespondKeeps ==
  ASSUME IInv, NEW s \in Streams, Respond(s)
  PROVE  IInv'
<1>1. sc \in ServeType /\ sc.state[s] \notin {"idle", "closed"}
  BY DEF IInv, TypeOK, Respond, Live
<1>2. Closes(sc, sc')
  <2>1. CASE sc.state[s] = "open"
    BY <1>1, <2>1, ResetCloses DEF Respond
  <2>2. CASE sc.state[s] # "open"
    <3>1. sc.state[s] = "halfClosedRemote"
      BY <1>1, <2>2, ServeFields
    <3>2. sc.pipe[s].err # "none"
      BY <3>1 DEF IInv, StreamInv, Ending
    <3>3. sc' = CloseStream(sc, s, "nil")
      BY <2>2 DEF Respond
    <3>4. "nil" \in Errors \ {"none", "EOF"}
      BY DEF Errors
    <3>5. QED
      BY <1>1, <3>2, <3>3, <3>4, CloseStreamCloses
  <2>3. QED
    BY <2>1, <2>2
<1>3. UNCHANGED <<reader, net, cl, grant, refused, ignored>>
  BY DEF Respond
<1>4. refused' \in [Streams -> Nat] /\ ignored' \in Nat /\ events' \in Nat
  BY <1>3, EventTyped DEF IInv, TypeOK, Respond
<1>5. QED
  BY <1>2, <1>3, <1>4, ClosingKeeps

LEMMA ProcessResetStreamKeeps ==
  ASSUME IInv, ProcessResetStream
  PROVE  IInv'
<1>1. /\ net # <<>> /\ net' = Tail(net) /\ Head(net).kind = "reset"
      /\ sc' = ResetStream(sc, Head(net).stream)
      /\ UNCHANGED <<reader, cl, grant, refused, ignored, events>>
  BY DEF ProcessResetStream, Received
<1>2. sc \in ServeType /\ Head(net).stream \in Streams
  BY <1>1, HeadTyped DEF IInv, TypeOK
<1>3. Closes(sc, sc')
  BY <1>1, <1>2, ResetCloses
<1>4. refused' \in [Streams -> Nat] /\ ignored' \in Nat /\ events' \in Nat
  BY <1>1 DEF IInv, TypeOK
<1>5. \A t : ~IsData(Head(net), t)
  BY <1>1 DEF IsData
<1>6. QED
  BY <1>1, <1>3, <1>4, <1>5, ClosingKeeps

LEMMA ProcessDataInErrorKeeps ==
  ASSUME IInv, ProcessDataInError
  PROVE  IInv'
<1> DEFINE f == Head(net)
<1> DEFINE s == f.stream
<1> DEFINE e == IF /\ sc.state[s] = "open" /\ Declared(sc, s)
                   /\ sc.bytes[s] + f.n > sc.decl[s]
                THEN [sc EXCEPT !.pipe[s] = ClosePipe(@, "length")] ELSE sc
<1>1. /\ net # <<>> /\ net' = Tail(net)
      /\ sc' = ResetStream(e, s) /\ ignored' = ignored + f.n
      /\ UNCHANGED <<reader, cl, grant, refused, events>>
  BY DEF ProcessDataInError, Received
<1>2. sc \in ServeType /\ f \in FrameType /\ s \in Streams /\ f.n \in Nat
  BY <1>1, HeadTyped DEF IInv, TypeOK
<1>3. sc.state[s] # "idle"
  <2>1. 1 \in 1..Len(net) /\ f = net[1]
    BY <1>1 DEF IInv, TypeOK
  <2>2. QED
    BY <1>2, <2>1 DEF IInv, Arrives
<1>4. Closes(sc, e) /\ e.state = sc.state
  BY <1>2, <1>3, PipeCloses, ClosesNothing DEF Errors
<1> HIDE DEF e
<1>5. Closes(e, sc') /\ sc'.state[s] = "closed"
  <2>1. e \in ServeType
    BY <1>4 DEF Closes
  <2>2. QED
    BY <1>1, <1>2, <1>3, <1>4, <2>1, ResetCloses
<1>6. Closes(sc, sc')
  BY <1>4, <1>5, ClosesInTurn
<1>7. refused' \in [Streams -> Nat] /\ ignored' \in Nat /\ events' \in Nat
  BY <1>1, <1>2 DEF IInv, TypeOK
<1>8. \A t \in Streams : ~IsData(Head(net), t) \/ sc'.state[t] # "open"
  BY <1>5 DEF IsData
<1>9. QED
  BY <1>1, <1>6, <1>7, <1>8, ClosingKeeps

---------------------------------------------------------------------------
(* The readers *)

LEMMA ReaderFields ==
  ASSUME NEW r \in ReaderType
  PROVE  /\ r.pc \in {"none", "continue", "reading", "noting", "ended"} /\ r.n \in 0..Window
         /\ r.err \in Errors /\ r.got \in Seq(Nat) /\ Len(r.got) \in Nat
         /\ r = [pc |-> r.pc, n |-> r.n, err |-> r.err, got |-> r.got]
  BY DEF ReaderType

LEMMA ReaderMade ==
  ASSUME NEW pc \in {"none", "continue", "reading", "noting", "ended"}, NEW n \in 0..Window,
         NEW err \in Errors, NEW got \in Seq(Nat), NEW r,
         r = [pc |-> pc, n |-> n, err |-> err, got |-> got]
  PROVE  r \in ReaderType
  BY DEF ReaderType

\* Reader s is somewhere else, and maybe has told what it read.
Moved(rd, rd2, s, pc, n) ==
  /\ rd2 \in [Streams -> ReaderType]
  /\ rd2[s].pc = pc /\ rd2[s].n = n /\ rd2[s].err = rd[s].err /\ rd2[s].got = rd[s].got
  /\ \A t \in Streams \ {s} : rd2[t] = rd[t]

LEMMA ReaderMoves ==
  ASSUME NEW rd \in [Streams -> ReaderType], NEW s \in Streams,
         NEW pc \in {"none", "continue", "reading", "noting", "ended"}, NEW n \in 0..Window
  PROVE  Moved(rd, [rd EXCEPT ![s] = [@ EXCEPT !.n = n, !.pc = pc]], s, pc, n)
<1> DEFINE r == [rd[s] EXCEPT !.n = n, !.pc = pc]
<1> DEFINE rd2 == [rd EXCEPT ![s] = r]
<1>1. r = [rd[s] EXCEPT !.n = n, !.pc = pc]
  OBVIOUS
<1>2. /\ rd[s] = [pc |-> rd[s].pc, n |-> rd[s].n, err |-> rd[s].err, got |-> rd[s].got]
      /\ rd[s].err \in Errors /\ rd[s].got \in Seq(Nat)
  BY ReaderFields
<1> HIDE DEF r
<1>3. r = [pc |-> pc, n |-> n, err |-> rd[s].err, got |-> rd[s].got]
  BY <1>1, <1>2
<1>4. r \in ReaderType
  BY <1>2, <1>3, ReaderMade
<1>5. r.pc = pc /\ r.n = n /\ r.err = rd[s].err /\ r.got = rd[s].got
  BY <1>3
<1>6. Moved(rd, rd2, s, pc, n)
  BY <1>4, <1>5 DEF Moved
<1>7. QED
  BY <1>6 DEF r

LEMMA ReaderGoes ==
  ASSUME NEW rd \in [Streams -> ReaderType], NEW s \in Streams,
         NEW pc \in {"none", "continue", "reading", "noting", "ended"}
  PROVE  Moved(rd, [rd EXCEPT ![s].pc = pc], s, pc, rd[s].n)
<1> DEFINE r == [rd[s] EXCEPT !.pc = pc]
<1> DEFINE rd2 == [rd EXCEPT ![s] = r]
<1>1. r = [rd[s] EXCEPT !.pc = pc]
  OBVIOUS
<1>2. /\ rd[s] = [pc |-> rd[s].pc, n |-> rd[s].n, err |-> rd[s].err, got |-> rd[s].got]
      /\ rd[s].n \in 0..Window /\ rd[s].err \in Errors /\ rd[s].got \in Seq(Nat)
  BY ReaderFields
<1> HIDE DEF r
<1>3. r = [pc |-> pc, n |-> rd[s].n, err |-> rd[s].err, got |-> rd[s].got]
  BY <1>1, <1>2
<1>4. r \in ReaderType
  BY <1>2, <1>3, ReaderMade
<1>5. r.pc = pc /\ r.n = rd[s].n /\ r.err = rd[s].err /\ r.got = rd[s].got
  BY <1>3
<1>6. Moved(rd, rd2, s, pc, rd[s].n)
  BY <1>4, <1>5 DEF Moved
<1>7. QED
  BY <1>6 DEF r

LEMMA MovedKeeps ==
  ASSUME NEW c, NEW rd, NEW rd2, NEW k, NEW s, NEW t \in Streams, NEW pc,
         StreamInv(c, rd, k, t), Moved(rd, rd2, s, pc, rd[s].n),
         rd[s].pc # "none", pc \notin {"none", "noting"}, rd[s].pc # "noting",
         pc = "reading" => rd[s].pc = "continue", pc = "continue" => rd[s].pc = "reading"
  PROVE  StreamInv(c, rd2, k, t)
<1>1. CASE t # s
  <2>1. rd2[t] = rd[t]
    BY <1>1 DEF Moved
  <2>2. QED
    BY <2>1, SameStream
<1>2. CASE t = s
  <2>1. rd2[s].pc = pc /\ rd2[s].n = rd[s].n /\ rd2[s].err = rd[s].err /\ rd2[s].got = rd[s].got
    BY DEF Moved
  <2>2. Numbered(c, rd2, s) /\ Ending(c, rd2, k, s)
    BY <1>2, <2>1, Zenon DEF StreamInv, Numbered, Ending
  <2>3. Fresh(c, rd2, k, s)
    BY <1>2, <2>1 DEF StreamInv, Fresh
  <2>4. Reading(rd2, s)
    BY <1>2, <2>1 DEF StreamInv, Reading
  <2>5. Account(c, rd2, s)
    BY <1>2, <2>1 DEF StreamInv, Account
  <2>6. QED
    BY <1>2, <2>2, <2>3, <2>4, <2>5 DEF StreamInv
<1>3. QED
  BY <1>1, <1>2

LEMMA SendContinueKeeps ==
  ASSUME IInv, NEW s \in Streams, SendContinue(s)
  PROVE  IInv'
<1>1. /\ sc \in ServeType /\ reader \in [Streams -> ReaderType]
      /\ reader[s].pc = "continue" /\ reader' = [reader EXCEPT ![s].pc = "reading"]
      /\ UNCHANGED <<net, cl, grant, refused, ignored, events>>
  BY DEF IInv, TypeOK, SendContinue, Goto
<1>2. Moved(reader, reader', s, "reading", reader[s].n)
  BY <1>1, ReaderGoes
<1>3. Closes(sc, sc')
  <2>1. CASE sc' = [sc EXCEPT !.cont[s] = "want"]
    BY <1>1, <2>1, ContinueCloses
  <2>2. CASE sc' = sc
    BY <1>1, <2>2, ClosesNothing
  <2>3. QED
    BY <2>1, <2>2 DEF SendContinue
<1>4. ASSUME NEW t \in Streams
      PROVE  StreamInv(sc', reader', cl', t) /\ Arrives(sc', net', cl', t)
  <2>1. StreamInv(sc', reader, cl, t) /\ Arrives(sc', net, cl, t)
    BY <1>1, <1>3, ClosesKeeps DEF IInv
  <2>2. StreamInv(sc', reader', cl, t)
    BY <1>1, <1>2, <2>1, MovedKeeps
  <2>3. QED
    BY <1>1, <2>1, <2>2
<1>5. TypeOK'
  BY <1>1, <1>2, <1>3 DEF IInv, TypeOK, Moved, Closes
<1>6. QED
  BY <1>1, <1>4, <1>5 DEF IInv

LEMMA QuitKeeps ==
  ASSUME IInv, NEW s \in Streams, Quit(s)
  PROVE  IInv'
<1>1. /\ reader \in [Streams -> ReaderType] /\ reader[s].pc \in {"continue", "reading"}
      /\ reader' = [reader EXCEPT ![s].pc = "ended"]
      /\ UNCHANGED <<sc, net, cl, grant, refused, ignored>> /\ events' \in Nat
  BY EventTyped DEF IInv, TypeOK, Quit, Goto
<1>2. Moved(reader, reader', s, "ended", reader[s].n)
  BY <1>1, ReaderGoes
<1>3. ASSUME NEW t \in Streams
      PROVE  StreamInv(sc', reader', cl', t) /\ Arrives(sc', net', cl', t)
  <2>1. StreamInv(sc, reader, cl, t) /\ Arrives(sc, net, cl, t)
    BY DEF IInv
  <2>2. StreamInv(sc, reader', cl, t)
    BY <1>1, <1>2, <2>1, MovedKeeps
  <2>3. QED
    BY <1>1, <2>1, <2>2
<1>4. TypeOK'
  BY <1>1, <1>2 DEF IInv, TypeOK, Moved
<1>5. QED
  BY <1>1, <1>3, <1>4 DEF IInv

\* Setting one pipe
LEMMA PipeSet ==
  ASSUME NEW c \in ServeType, NEW s \in Streams, NEW w \in PipeType
  PROVE  LET d == [c EXCEPT !.pipe[s] = w]
         IN /\ d \in ServeType
            /\ d.state = c.state /\ d.win = c.win /\ d.bytes = c.bytes /\ d.decl = c.decl
            /\ \A t \in Streams : d.pipe[t] = IF t = s THEN w ELSE c.pipe[t]
<1> DEFINE d == [c EXCEPT !.pipe[s] = w]
<1> DEFINE pp == [c.pipe EXCEPT ![s] = w]
<1>1. /\ c = [serve |-> c.serve, conn |-> c.conn, reset |-> c.reset, state |-> c.state,
             win |-> c.win, bytes |-> c.bytes, decl |-> c.decl, cont |-> c.cont,
             pipe |-> c.pipe]
      /\ c.serve \in {"loop", "done", "panic"} /\ c.conn \in Nat /\ c.reset \in SUBSET Streams
      /\ c.state \in [Streams -> {"idle", "open", "halfClosedRemote", "closed"}]
      /\ c.win \in [Streams -> 0..Window] /\ c.bytes \in [Streams -> Nat]
      /\ c.decl \in [Streams -> Nat \cup {Undeclared}]
      /\ c.cont \in [Streams -> {"none", "want", "queued"}]
      /\ c.pipe \in [Streams -> PipeType]
  BY ServeFields
<1>2. d = [c EXCEPT !.pipe = pp]
  OBVIOUS
<1>3. /\ pp \in [Streams -> PipeType]
      /\ \A t \in Streams : pp[t] = IF t = s THEN w ELSE c.pipe[t]
  BY <1>1
<1> HIDE DEF pp, d
<1>4. d = [serve |-> c.serve, conn |-> c.conn, reset |-> c.reset, state |-> c.state,
           win |-> c.win, bytes |-> c.bytes, decl |-> c.decl, cont |-> c.cont, pipe |-> pp]
  BY <1>1, <1>2
<1>5. d \in ServeType
  BY <1>1, <1>3, <1>4, ServeMade
<1>6. d.state = c.state /\ d.win = c.win /\ d.bytes = c.bytes /\ d.decl = c.decl /\ d.pipe = pp
  BY <1>4
<1>7. QED
  BY <1>3, <1>5, <1>6 DEF d

\* The pipe of which n bytes were read
LEMMA PipeRead ==
  ASSUME NEW p \in PipeType, NEW n \in 0..Unread(p)
  PROVE  LET w == [p EXCEPT !.r = p.r + n]
         IN /\ w \in PipeType /\ w.err = p.err /\ Unread(w) = Unread(p) - n
            /\ \A i \in 1..Unread(p) - n : Content(w, i) = Content(p, n + i)
<1> DEFINE w == [p EXCEPT !.r = p.r + n]
<1>1. /\ p = [data |-> p.data, r |-> p.r, err |-> p.err, waiting |-> p.waiting]
      /\ p.data \in Seq(Nat) /\ p.r \in Nat /\ p.err \in Errors /\ p.waiting \in BOOLEAN
      /\ Len(p.data) \in Nat /\ Len(p.data) <= Window /\ Unread(p) = Len(p.data) - p.r
      /\ p.r <= Len(p.data)
  BY PipeFields
<1>2. w = [p EXCEPT !.r = p.r + n]
  OBVIOUS
<1> HIDE DEF w
<1>3. w = [data |-> p.data, r |-> p.r + n, err |-> p.err, waiting |-> p.waiting]
  BY <1>1, <1>2
<1>4. p.r + n \in Nat /\ p.r + n <= Len(p.data) /\ Len(p.data) - (p.r + n) = Unread(p) - n
  BY <1>1
<1>5. w \in PipeType /\ Unread(w) = Unread(p) - n
  BY <1>1, <1>3, <1>4, PipeMade
<1>6. w.err = p.err /\ w.data = p.data /\ w.r = p.r + n
  BY <1>3
<1>7. ASSUME NEW i \in 1..Unread(p) - n PROVE Content(w, i) = Content(p, n + i)
  <2>1. (p.r + n) + i = p.r + (n + i)
    BY <1>1
  <2>2. QED
    BY <1>6, <2>1 DEF Content
<1>8. QED
  BY <1>5, <1>6, <1>7 DEF w

\* What a Read returns
LEMMA ReadGot ==
  ASSUME NEW p \in PipeType, NEW n \in 0..Unread(p), NEW got \in Seq(Nat),
         \A i \in 1..Unread(p) : Content(p, i) = Len(got) + i
  PROVE  /\ SubSeq(p.data, p.r + 1, p.r + n) = [i \in 1..n |-> Len(got) + i]
         /\ got \o SubSeq(p.data, p.r + 1, p.r + n) \in Seq(Nat)
         /\ Len(got \o SubSeq(p.data, p.r + 1, p.r + n)) = Len(got) + n
<1> DEFINE b == SubSeq(p.data, p.r + 1, p.r + n)
<1>1. /\ p.data \in Seq(Nat) /\ p.r \in Nat /\ Len(p.data) \in Nat /\ p.r <= Len(p.data)
      /\ Unread(p) = Len(p.data) - p.r
  BY PipeFields
<1>2. n \in Nat /\ p.r + n <= Len(p.data)
  BY <1>1
<1>3. b \in Seq(Nat) /\ Len(b) = n /\ \A i \in 1..n : b[i] = p.data[p.r + i]
  <2>1. ASSUME NEW i \in (p.r + 1)..(p.r + n) PROVE p.data[i] \in Nat
    <3>1. i \in 1..Len(p.data)
      BY <1>1, <1>2
    <3>2. QED
      BY <1>1, <3>1
  <2>2. p.r + 1 \in Int /\ p.r + n \in Int /\ (p.r + n) - (p.r + 1) + 1 = n
    BY <1>1, <1>2
  <2>3. /\ b \in Seq(Nat) /\ Len(b) = IF p.r + 1 <= p.r + n THEN n ELSE 0
        /\ \A i \in 1..n : b[i] = p.data[(p.r + 1) + i - 1]
    BY <2>1, <2>2, SubSeqProperties
  <2> HIDE DEF b
  <2>4. \A i \in 1..n : (p.r + 1) + i - 1 = p.r + i
    BY <1>1, <1>2
  <2>5. Len(b) = n
    BY <1>1, <1>2, <2>3
  <2>6. ASSUME NEW i \in 1..n PROVE b[i] = p.data[p.r + i]
    <3>1. b[i] = p.data[(p.r + 1) + i - 1]
      BY <2>3
    <3>2. QED
      BY <2>4, <3>1
  <2>7. QED
    BY <2>3, <2>5, <2>6
<1> HIDE DEF b
<1>4. \A i \in 1..n : p.data[p.r + i] = Len(got) + i
  BY <1>1, <1>2 DEF Content
<1> DEFINE g == [i \in 1..n |-> Len(got) + i]
<1>5. g \in Seq(Nat) /\ Len(g) = n /\ \A i \in 1..n : g[i] = Len(got) + i
  <2>1. \A i \in 1..n : Len(got) + i \in Nat
    OBVIOUS
  <2>2. QED
    BY <1>2, <2>1, IsASeq
<1> HIDE DEF g
<1>6. b = g
  BY <1>3, <1>4, <1>5, SeqEqual
<1>7. got \o b \in Seq(Nat) /\ Len(got \o b) = Len(got) + n
  BY <1>3
<1>8. QED
  BY <1>6, <1>7 DEF b, g

\* What ReadPipe has done to its stream when it read n bytes
ReadDone(s, n) ==
  /\ sc' \in ServeType /\ sc'.state = sc.state /\ sc'.win = sc.win
  /\ sc'.bytes = sc.bytes /\ sc'.decl = sc.decl
  /\ \A t \in Streams \ {s} : sc'.pipe[t] = sc.pipe[t] /\ reader'[t] = reader[t]
  /\ Unread(sc'.pipe[s]) = Unread(sc.pipe[s]) - n
  /\ sc'.pipe[s].err = sc.pipe[s].err
  /\ \A i \in 1..Unread(sc.pipe[s]) - n :
       Content(sc'.pipe[s], i) = Content(sc.pipe[s], n + i)
  /\ reader' \in [Streams -> ReaderType]
  /\ reader'[s].pc = (IF n > 0 THEN "noting" ELSE "ended") /\ reader'[s].n = n
  /\ reader'[s].err = (IF n = Unread(sc.pipe[s]) THEN sc.pipe[s].err ELSE "none")
  /\ reader'[s].got = reader[s].got \o [i \in 1..n |-> Len(reader[s].got) + i]
  /\ Len(reader'[s].got) = Len(reader[s].got) + n

LEMMA ReadPipeDoes ==
  ASSUME IInv, NEW s \in Streams, NEW k \in 1..Window, ReadPipe(s, k)
  PROVE  \E n \in 0..Unread(sc.pipe[s]) : ReadDone(s, n)
<1> DEFINE p == sc.pipe[s]
<1> DEFINE n == Min({k, Unread(p)})
<1> DEFINE w == [p EXCEPT !.r = p.r + n]
<1> DEFINE more == reader[s].got \o SubSeq(p.data, p.r + 1, p.r + n)
<1> DEFINE rs == [pc  |-> IF n > 0 THEN "noting" ELSE "ended", n |-> n,
                  err |-> Verdict(p, n), got |-> more]
<1>1. /\ sc \in ServeType /\ p \in PipeType /\ reader \in [Streams -> ReaderType]
      /\ reader[s].got \in Seq(Nat) /\ Unread(p) \in Nat
      /\ Unread(p) <= Window /\ p.err \in Errors
      /\ \A i \in 1..Unread(p) : Content(p, i) = Len(reader[s].got) + i
  <2>1. sc \in ServeType /\ reader \in [Streams -> ReaderType] /\ Numbered(sc, reader, s)
    BY DEF IInv, TypeOK, StreamInv
  <2>2. p \in PipeType /\ reader[s].got \in Seq(Nat)
    BY <2>1, ServeFields, ReaderFields
  <2>3. Unread(p) \in Nat /\ Unread(p) <= Window /\ p.err \in Errors
    BY <2>2, PipeFields, SizesAssumption
  <2>4. \A i \in 1..Unread(p) : Content(p, i) = Len(reader[s].got) + i
    BY <2>1 DEF Numbered
  <2>5. QED
    BY <2>1, <2>2, <2>3, <2>4
<1>2. n \in 0..Unread(p) /\ n \in 0..Window /\ n \in Int
  BY <1>1, MinOfTwo, SizesAssumption
<1>3. sc' = [sc EXCEPT !.pipe[s] = w] /\ reader' = [reader EXCEPT ![s] = rs]
  BY <1>1 DEF ReadPipe
<1> HIDE DEF n
<1>4. /\ w \in PipeType /\ w.err = p.err /\ Unread(w) = Unread(p) - n
      /\ \A i \in 1..Unread(p) - n : Content(w, i) = Content(p, n + i)
  BY <1>1, <1>2, PipeRead
<1>5. /\ more = reader[s].got \o [i \in 1..n |-> Len(reader[s].got) + i]
      /\ more \in Seq(Nat) /\ Len(more) = Len(reader[s].got) + n
  BY <1>1, <1>2, ReadGot
<1> HIDE DEF w, more
<1>6. rs \in ReaderType
  <2>1. Verdict(p, n) \in Errors
    BY <1>1 DEF Verdict, Errors
  <2>2. rs = [pc  |-> IF n > 0 THEN "noting" ELSE "ended", n |-> n,
              err |-> Verdict(p, n), got |-> more]
    OBVIOUS
  <2> HIDE DEF rs
  <2>3. (IF n > 0 THEN "noting" ELSE "ended") \in {"none", "continue", "reading", "noting", "ended"}
    OBVIOUS
  <2>4. QED
    BY <1>2, <1>5, <2>1, <2>2, <2>3, ReaderMade
<1>7. rs.pc = (IF n > 0 THEN "noting" ELSE "ended") /\ rs.n = n
      /\ rs.err = Verdict(p, n) /\ rs.got = more
  OBVIOUS
<1> HIDE DEF rs
<1>8. /\ reader' \in [Streams -> ReaderType] /\ reader'[s] = rs
      /\ \A t \in Streams \ {s} : reader'[t] = reader[t]
  BY <1>1, <1>3, <1>6
<1>9. /\ sc' \in ServeType /\ sc'.state = sc.state /\ sc'.win = sc.win
      /\ sc'.bytes = sc.bytes /\ sc'.decl = sc.decl
      /\ \A t \in Streams : sc'.pipe[t] = IF t = s THEN w ELSE sc.pipe[t]
  BY <1>1, <1>3, <1>4, PipeSet
<1>10. sc'.pipe[s] = w
  BY <1>9
<1>11. QED
  BY <1>2, <1>4, <1>5, <1>7, <1>8, <1>9, <1>10 DEF Verdict, ReadDone

LEMMA InAnyOrder ==
  ASSUME NEW a \in Int, NEW b \in Int, NEW c \in Int
  PROVE  (a + b) + c = a + (b + c)
  OBVIOUS

LEMMA ReadPipeKeeps ==
  ASSUME IInv, NEW s \in Streams, NEW k \in 1..Window, ReadPipe(s, k)
  PROVE  IInv'
<1>1. PICK n \in 0..Unread(sc.pipe[s]) : ReadDone(s, n)
  BY ReadPipeDoes
<1>2. /\ UNCHANGED <<net, cl, grant, refused, ignored, events>> /\ reader[s].pc = "reading"
  BY DEF ReadPipe
<1>3. /\ sc \in ServeType /\ reader \in [Streams -> ReaderType]
      /\ StreamInv(sc, reader, cl, s)
  BY DEF IInv, TypeOK
<1>4. /\ Unread(sc.pipe[s]) \in Nat /\ Len(reader[s].got) \in Nat /\ sc.win[s] \in Nat
      /\ n \in Nat /\ sc.bytes[s] \in Nat
  <2>1. sc.pipe[s] \in PipeType
    BY <1>3, ServeFields
  <2>2. sc.win[s] \in 0..Window /\ sc.bytes[s] \in Nat
    BY <1>3, ServeFields
  <2>3. QED
    BY <1>3, <2>1, <2>2, PipeFields, ReaderFields, SizesAssumption
<1>5. Numbered(sc', reader', s)
  <2>1. Len(reader'[s].got) + Unread(sc'.pipe[s]) = sc'.bytes[s]
    BY <1>1, <1>3, <1>4 DEF ReadDone, StreamInv, Numbered
  <2>2. ASSUME NEW i \in 1..Unread(sc'.pipe[s])
        PROVE  Content(sc'.pipe[s], i) = Len(reader'[s].got) + i
    <3>1. i \in 1..Unread(sc.pipe[s]) - n /\ n + i \in 1..Unread(sc.pipe[s])
      BY <1>1, <1>4 DEF ReadDone
    <3>2. Content(sc.pipe[s], n + i) = Len(reader[s].got) + (n + i)
      BY <1>3, <3>1 DEF StreamInv, Numbered
    <3>3. Content(sc'.pipe[s], i) = Content(sc.pipe[s], n + i)
      BY <1>1, <3>1 DEF ReadDone
    <3>4. Len(reader'[s].got) = Len(reader[s].got) + n
      BY <1>1 DEF ReadDone
    <3>5. (Len(reader[s].got) + n) + i = Len(reader[s].got) + (n + i)
      <4>1. i \in Int /\ n \in Int /\ Len(reader[s].got) \in Int
        BY <1>4, <3>1
      <4>2. QED
        BY <4>1, InAnyOrder
    <3>6. QED
      BY <3>2, <3>3, <3>4, <3>5, Zenon
  <2>3. QED
    BY <2>1, <2>2 DEF Numbered
<1>6. Ending(sc', reader', cl', s)
  BY <1>1, <1>2, <1>3 DEF ReadDone, StreamInv, Ending
<1>7. Fresh(sc', reader', cl', s)
  BY <1>1, <1>2, <1>3 DEF ReadDone, StreamInv, Fresh
<1>8. Reading(reader', s)
  BY <1>1, <1>4 DEF ReadDone, Reading
<1>9. Account(sc', reader', s)
  <2>1. reader[s].n = 0
    BY <1>2, <1>3 DEF StreamInv, Reading
  <2>2. QED
    BY <1>1, <1>3, <1>4, <2>1 DEF ReadDone, StreamInv, Account
<1>10. ASSUME NEW t \in Streams
       PROVE  StreamInv(sc', reader', cl', t) /\ Arrives(sc', net', cl', t)
  <2>1. StreamInv(sc, reader, cl, t) /\ Arrives(sc, net, cl, t)
    BY DEF IInv
  <2>2. Arrives(sc', net', cl', t)
    BY <1>1, <1>2, <2>1, SameArrives DEF ReadDone
  <2>3. CASE t = s
    BY <1>5, <1>6, <1>7, <1>8, <1>9, <2>2, <2>3 DEF StreamInv
  <2>4. CASE t # s
    <3>1. sc'.pipe[t] = sc.pipe[t] /\ reader'[t] = reader[t]
      BY <1>1, <2>4 DEF ReadDone
    <3>2. StreamInv(sc', reader', cl', t)
      BY <1>1, <1>2, <2>1, <3>1, SameStream DEF ReadDone
    <3>3. QED
      BY <2>2, <3>2
  <2>5. QED
    BY <2>3, <2>4
<1>11. TypeOK'
  BY <1>1, <1>2 DEF ReadDone, IInv, TypeOK
<1>12. QED
  BY <1>2, <1>10, <1>11 DEF IInv

LEMMA NoteBodyReadKeeps ==
  ASSUME IInv, NEW s \in Streams, NoteBodyRead(s)
  PROVE  IInv'
<1> DEFINE n == reader[s].n
<1> DEFINE pc == IF reader[s].err = "none" THEN "reading" ELSE "ended"
<1>1. /\ sc \in ServeType /\ reader \in [Streams -> ReaderType]
      /\ StreamInv(sc, reader, cl, s) /\ reader[s].pc = "noting"
      /\ reader[s].n \in 0..Window
  BY ReaderFields DEF IInv, TypeOK, NoteBodyRead
<1>2. reader' = [reader EXCEPT ![s] = [@ EXCEPT !.n = 0, !.pc = pc]]
  BY DEF NoteBodyRead
<1>3. Moved(reader, reader', s, pc, 0)
  <2>1. pc \in {"none", "continue", "reading", "noting", "ended"} /\ 0 \in 0..Window
    BY SizesAssumption
  <2> HIDE DEF pc
  <2>2. Moved(reader, [reader EXCEPT ![s] = [@ EXCEPT !.n = 0, !.pc = pc]], s, pc, 0)
    BY <1>1, <2>1, ReaderMoves
  <2>3. QED
    BY <1>2, <2>2
<1>4. /\ sc' = GiveBack(sc, s, n) /\ UNCHANGED <<net, cl, refused, ignored, events>>
      /\ grant' = [grant EXCEPT !.conn = @ + n,
                                !.win[s] = IF sc.state[s] = "open" THEN @ + n ELSE @]
  BY DEF NoteBodyRead
<1>5. /\ sc = [serve |-> sc.serve, conn |-> sc.conn, reset |-> sc.reset, state |-> sc.state,
               win |-> sc.win, bytes |-> sc.bytes, decl |-> sc.decl, cont |-> sc.cont,
               pipe |-> sc.pipe]
      /\ sc.serve \in {"loop", "done", "panic"} /\ sc.conn \in Nat
      /\ sc.reset \in SUBSET Streams
      /\ sc.state \in [Streams -> {"idle", "open", "halfClosedRemote", "closed"}]
      /\ sc.win \in [Streams -> 0..Window] /\ sc.bytes \in [Streams -> Nat]
      /\ sc.decl \in [Streams -> Nat \cup {Undeclared}]
      /\ sc.cont \in [Streams -> {"none", "want", "queued"}]
      /\ sc.pipe \in [Streams -> PipeType]
  BY <1>1, ServeFields
<1>6. Unread(sc.pipe[s]) \in Nat
  BY <1>5, PipeFields
<1> DEFINE w == [sc.win EXCEPT ![s] = IF sc.state[s] = "open" THEN @ + n ELSE @]
<1>7. w \in [Streams -> 0..Window]
  <2>1. sc.state[s] = "open" => sc.win[s] + Unread(sc.pipe[s]) + n = Window
    BY <1>1 DEF StreamInv, Account
  <2>2. QED
    BY <1>1, <1>5, <1>6, <2>1, SizesAssumption
<1>8. \A t \in Streams : w[t] = IF t = s /\ sc.state[s] = "open" THEN sc.win[s] + n ELSE sc.win[t]
  BY <1>5
<1>9. sc' = [sc EXCEPT !.conn = sc.conn + n, !.win = w]
  <2>1. CASE sc.state[s] = "open"
    <3>1. w = [sc.win EXCEPT ![s] = sc.win[s] + n]
      BY <2>1
    <3>2. QED
      BY <1>4, <2>1, <3>1 DEF GiveBack
  <2>2. CASE sc.state[s] # "open"
    <3>1. w = sc.win
      BY <1>5, <2>2
    <3>2. sc' = [sc EXCEPT !.conn = sc.conn + n]
      BY <1>4, <2>2 DEF GiveBack
    <3> HIDE DEF w
    <3>3. QED
      BY <1>5, <3>1, <3>2
  <2>3. QED
    BY <2>1, <2>2
<1> HIDE DEF w
<1>10. sc' = [serve |-> sc.serve, conn |-> sc.conn + n, reset |-> sc.reset, state |-> sc.state,
              win |-> w, bytes |-> sc.bytes, decl |-> sc.decl, cont |-> sc.cont,
              pipe |-> sc.pipe]
  BY <1>5, <1>9
<1>11. sc' \in ServeType
  <2>1. sc.conn + n \in Nat
    BY <1>1, <1>5
  <2>2. QED
    BY <1>5, <1>7, <1>10, <2>1, ServeMade
<1>12. sc'.state = sc.state /\ sc'.win = w /\ sc'.bytes = sc.bytes /\ sc'.decl = sc.decl
       /\ sc'.pipe = sc.pipe
  BY <1>10
<1>13. grant' \in [conn : Nat, win : [Streams -> Nat]]
  <2> DEFINE g == [grant.win EXCEPT ![s] = IF sc.state[s] = "open" THEN @ + n ELSE @]
  <2>1. grant \in [conn : Nat, win : [Streams -> Nat]] /\ n \in Nat
    BY <1>1 DEF IInv, TypeOK
  <2>2. g \in [Streams -> Nat]
    BY <2>1
  <2>3. grant' = [grant EXCEPT !.conn = grant.conn + n, !.win = g]
    BY <1>4
  <2> HIDE DEF g
  <2>4. grant = [conn |-> grant.conn, win |-> grant.win] /\ grant.conn + n \in Nat
    BY <2>1
  <2>5. grant' = [conn |-> grant.conn + n, win |-> g]
    BY <2>3, <2>4
  <2>6. QED
    BY <2>2, <2>4, <2>5
<1>14. ASSUME NEW t \in Streams
       PROVE  StreamInv(sc', reader', cl', t) /\ Arrives(sc', net', cl', t)
  <2>1. StreamInv(sc, reader, cl, t) /\ Arrives(sc, net, cl, t)
    BY DEF IInv
  <2>2. Arrives(sc', net', cl', t)
    BY <1>4, <1>12, <2>1, SameArrives
  <2>3. CASE t # s
    <3>1. reader'[t] = reader[t] /\ sc'.win[t] = sc.win[t]
      BY <1>3, <1>8, <1>12, <2>3 DEF Moved
    <3>2. StreamInv(sc', reader', cl', t)
      BY <1>4, <1>12, <2>1, <3>1, SameStream
    <3>3. QED
      BY <2>2, <3>2
  <2>4. CASE t = s
    <3>1. /\ reader'[s].pc = pc /\ reader'[s].n = 0 /\ reader'[s].err = reader[s].err
          /\ reader'[s].got = reader[s].got
      BY <1>3 DEF Moved
    <3>2. Numbered(sc', reader', s)
      BY <1>1, <1>12, <3>1, Zenon DEF StreamInv, Numbered
    <3>3. Ending(sc', reader', cl', s)
      BY <1>1, <1>4, <1>12, <3>1, Zenon DEF StreamInv, Ending
    <3>4. Fresh(sc', reader', cl', s)
      BY <1>1, <1>4, <1>12, <3>1 DEF StreamInv, Fresh
    <3>5. Reading(reader', s)
      BY <3>1 DEF Reading
    <3>6. Account(sc', reader', s)
      BY <1>1, <1>5, <1>6, <1>8, <1>12, <3>1, SizesAssumption DEF StreamInv, Account
    <3>7. QED
      BY <2>2, <2>4, <3>2, <3>3, <3>4, <3>5, <3>6 DEF StreamInv
  <2>5. QED
    BY <2>3, <2>4
<1>15. TypeOK'
  BY <1>3, <1>4, <1>11, <1>13 DEF IInv, TypeOK, Moved
<1>16. QED
  BY <1>4, <1>14, <1>15 DEF IInv

---------------------------------------------------------------------------
(* The client *)

LEMMA ClientFields ==
  ASSUME NEW k \in ClientType
  PROVE  /\ k = [conn |-> k.conn, win |-> k.win, sent |-> k.sent, ended |-> k.ended,
                 whole |-> k.whole, padded |-> k.padded]
         /\ k.conn \in Int /\ k.win \in [Streams -> Int] /\ k.sent \in [Streams -> Nat]
         /\ k.ended \in SUBSET Streams /\ k.whole \in SUBSET Streams
         /\ k.padded \in [Streams -> Nat]
  BY DEF ClientType

LEMMA ClientMade ==
  ASSUME NEW conn \in Int, NEW win \in [Streams -> Int], NEW sent \in [Streams -> Nat],
         NEW ended \in SUBSET Streams, NEW whole \in SUBSET Streams,
         NEW padded \in [Streams -> Nat], NEW k,
         k = [conn |-> conn, win |-> win, sent |-> sent, ended |-> ended, whole |-> whole,
              padded |-> padded]
  PROVE  k \in ClientType
  BY DEF ClientType

\* The client has room again, or for a new stream, or stops sending.
SentNothing(k, l) ==
  /\ l \in ClientType
  /\ l.sent = k.sent /\ k.ended \subseteq l.ended /\ l.whole = k.whole
  /\ l.padded = k.padded

LEMMA ClientRoom ==
  ASSUME NEW k \in ClientType, NEW conn \in Int, NEW win \in [Streams -> Int]
  PROVE  SentNothing(k, [k EXCEPT !.conn = conn, !.win = win])
<1> DEFINE l == [k EXCEPT !.conn = conn, !.win = win]
<1>1. /\ k = [conn |-> k.conn, win |-> k.win, sent |-> k.sent, ended |-> k.ended,
              whole |-> k.whole, padded |-> k.padded]
      /\ k.sent \in [Streams -> Nat] /\ k.ended \in SUBSET Streams
      /\ k.whole \in SUBSET Streams /\ k.padded \in [Streams -> Nat]
  BY ClientFields
<1>2. l = [k EXCEPT !.conn = conn, !.win = win]
  OBVIOUS
<1> HIDE DEF l
<1>3. l = [conn |-> conn, win |-> win, sent |-> k.sent, ended |-> k.ended, whole |-> k.whole,
           padded |-> k.padded]
  BY <1>1, <1>2
<1>4. l \in ClientType
  BY <1>1, <1>3, ClientMade
<1>5. QED
  BY <1>3, <1>4 DEF SentNothing, l

LEMMA ClientStops ==
  ASSUME NEW k \in ClientType, NEW ended \in SUBSET Streams, k.ended \subseteq ended
  PROVE  SentNothing(k, [k EXCEPT !.ended = ended])
<1> DEFINE l == [k EXCEPT !.ended = ended]
<1>1. /\ k = [conn |-> k.conn, win |-> k.win, sent |-> k.sent, ended |-> k.ended,
              whole |-> k.whole, padded |-> k.padded]
      /\ k.conn \in Int /\ k.win \in [Streams -> Int] /\ k.sent \in [Streams -> Nat]
      /\ k.whole \in SUBSET Streams /\ k.padded \in [Streams -> Nat]
  BY ClientFields
<1>2. l = [k EXCEPT !.ended = ended]
  OBVIOUS
<1> HIDE DEF l
<1>3. l = [conn |-> k.conn, win |-> k.win, sent |-> k.sent, ended |-> ended, whole |-> k.whole,
           padded |-> k.padded]
  BY <1>1, <1>2
<1>4. l \in ClientType
  BY <1>1, <1>3, ClientMade
<1>5. QED
  BY <1>3, <1>4 DEF SentNothing, l

\* Only what the client may still send has changed.
LEMMA ClientOnly ==
  ASSUME IInv, SentNothing(cl, cl'), UNCHANGED <<sc, reader, net, refused, ignored>>,
         grant' \in [conn : Nat, win : [Streams -> Nat]], events' \in Nat
  PROVE  IInv'
<1>1. ASSUME NEW t \in Streams
      PROVE  StreamInv(sc', reader', cl', t) /\ Arrives(sc', net', cl', t)
  <2>1. StreamInv(sc, reader, cl, t) /\ Arrives(sc, net, cl, t)
    BY DEF IInv
  <2>2. StreamInv(sc', reader', cl', t)
    BY <2>1, SameStream DEF SentNothing
  <2>3. Arrives(sc', net', cl', t)
    BY <2>1, SameArrives DEF SentNothing
  <2>4. QED
    BY <2>2, <2>3
<1>2. TypeOK'
  BY DEF IInv, TypeOK, SentNothing
<1>3. QED
  BY <1>1, <1>2 DEF IInv, SentNothing

LEMMA LearnOfResetKeeps ==
  ASSUME IInv, NEW s \in Streams, LearnOfReset(s)
  PROVE  IInv'
<1>1. /\ cl \in ClientType /\ cl' = [cl EXCEPT !.ended = cl.ended \cup {s}]
      /\ UNCHANGED <<sc, reader, net, grant, refused, ignored, events>>
  BY DEF IInv, TypeOK, LearnOfReset
<1>2. cl.ended \cup {s} \in SUBSET Streams
  BY <1>1, ClientFields
<1>3. SentNothing(cl, cl')
  BY <1>1, <1>2, ClientStops
<1>4. grant' \in [conn : Nat, win : [Streams -> Nat]] /\ events' \in Nat
  BY <1>1 DEF IInv, TypeOK
<1>5. QED
  BY <1>1, <1>3, <1>4, ClientOnly

LEMMA ConnGrantKeeps ==
  ASSUME IInv, ConnGrantArrives
  PROVE  IInv'
<1>1. /\ cl \in ClientType /\ grant \in [conn : Nat, win : [Streams -> Nat]]
      /\ cl' = [cl EXCEPT !.conn = cl.conn + grant.conn] /\ grant' = [grant EXCEPT !.conn = 0]
      /\ UNCHANGED <<sc, reader, net, refused, ignored, events>>
  BY DEF IInv, TypeOK, ConnGrantArrives
<1>2. cl.conn + grant.conn \in Int /\ cl.win \in [Streams -> Int]
  BY <1>1, ClientFields
<1>3. cl' = [cl EXCEPT !.conn = cl.conn + grant.conn, !.win = cl.win]
  BY <1>1, ClientFields
<1>4. SentNothing(cl, cl')
  <2>1. SentNothing(cl, [cl EXCEPT !.conn = cl.conn + grant.conn, !.win = cl.win])
    BY <1>1, <1>2, ClientRoom
  <2>2. QED
    BY <1>3, <2>1, Zenon
<1>5. grant' \in [conn : Nat, win : [Streams -> Nat]] /\ events' \in Nat
  BY <1>1 DEF IInv, TypeOK
<1>6. QED
  BY <1>1, <1>4, <1>5, ClientOnly

LEMMA GrantKeeps ==
  ASSUME IInv, NEW s \in Streams, GrantArrives(s)
  PROVE  IInv'
<1> DEFINE w == [cl.win EXCEPT ![s] = @ + grant.win[s]]
<1> DEFINE g == [grant.win EXCEPT ![s] = 0]
<1>1. /\ cl \in ClientType /\ grant \in [conn : Nat, win : [Streams -> Nat]]
      /\ cl' = [cl EXCEPT !.win = w] /\ grant' = [grant EXCEPT !.win = g]
      /\ UNCHANGED <<sc, reader, net, refused, ignored, events>>
  BY DEF IInv, TypeOK, GrantArrives
<1>2. cl.conn \in Int /\ w \in [Streams -> Int] /\ g \in [Streams -> Nat]
  BY <1>1, ClientFields
<1> HIDE DEF w, g
<1>3. cl' = [cl EXCEPT !.conn = cl.conn, !.win = w]
  BY <1>1, ClientFields
<1>4. SentNothing(cl, cl')
  <2>1. SentNothing(cl, [cl EXCEPT !.conn = cl.conn, !.win = w])
    BY <1>1, <1>2, ClientRoom
  <2>2. QED
    BY <1>3, <2>1, Zenon
<1>5. grant' \in [conn : Nat, win : [Streams -> Nat]] /\ events' \in Nat
  BY <1>1, <1>2 DEF IInv, TypeOK
<1>6. QED
  BY <1>1, <1>4, <1>5, ClientOnly

\* A frame that says nothing about the bytes of a stream
LEMMA AppendsElse ==
  ASSUME NEW c \in ServeType, NEW q \in Seq(FrameType), NEW k \in ClientType,
         NEW l \in ClientType, NEW f \in FrameType, NEW t \in Streams, Arrives(c, q, k, t),
         ~IsData(f, t), f.stream # t \/ c.state[t] # "idle",
         l.sent[t] = k.sent[t], k.whole \subseteq l.whole
  PROVE  Arrives(c, Append(q, f), l, t)
<1>1. ASSUME c.state[t] = "open"
      PROVE  Chained(Append(q, f), c.bytes[t], l.sent[t], l.whole, t)
  <2>1. c.bytes[t] \in Nat /\ k.sent[t] \in Nat
    BY ServeFields, ClientFields
  <2>2. Chained(q, c.bytes[t], k.sent[t], k.whole, t)
    BY <1>1 DEF Arrives
  <2>3. QED
    BY <2>1, <2>2, ChainAppends
<1>2. ASSUME c.state[t] = "idle", NEW i \in 1..Len(Append(q, f))
      PROVE  Append(q, f)[i].stream # t
  <2>1. CASE i \in 1..Len(q)
    <3>1. Append(q, f)[i] = q[i]
      BY <2>1
    <3>2. QED
      BY <1>2, <2>1, <3>1 DEF Arrives
  <2>2. CASE i \notin 1..Len(q)
    <3>1. Append(q, f)[i] = f
      BY <2>2
    <3>2. QED
      BY <1>2, <3>1
  <2>3. QED
    BY <2>1, <2>2
<1>3. QED
  BY <1>1, <1>2 DEF Arrives

LEMMA SendResetKeeps ==
  ASSUME IInv, NEW s \in Streams, SendReset(s)
  PROVE  IInv'
<1> DEFINE f == [kind |-> "reset", stream |-> s, at |-> 0, n |-> 0, end |-> FALSE]
<1>1. /\ cl \in ClientType /\ sc \in ServeType /\ net \in Seq(FrameType)
      /\ net' = Append(net, f) /\ cl' = [cl EXCEPT !.ended = cl.ended \cup {s}]
      /\ sc.state[s] # "idle" /\ UNCHANGED <<sc, reader, grant, refused, ignored>>
      /\ events' \in Nat
  BY EventTyped DEF IInv, TypeOK, SendReset, MaySend
<1>2. cl.ended \cup {s} \in SUBSET Streams
  BY <1>1, ClientFields
<1>3. SentNothing(cl, cl')
  BY <1>1, <1>2, ClientStops
<1>4. f \in FrameType /\ f.kind = "reset" /\ f.stream = s
  BY DEF FrameType
<1> HIDE DEF f
<1>5. ASSUME NEW t \in Streams
      PROVE  StreamInv(sc', reader', cl', t) /\ Arrives(sc', net', cl', t)
  <2>1. StreamInv(sc, reader, cl, t) /\ Arrives(sc, net, cl, t)
    BY DEF IInv
  <2>2. StreamInv(sc', reader', cl', t)
    <3>1. sc' = sc /\ reader' = reader /\ cl'.sent = cl.sent /\ cl'.whole = cl.whole
      BY <1>1, <1>3 DEF SentNothing
    <3>2. QED
      BY <2>1, <3>1, SameStream
  <2>5. Arrives(sc', net', cl', t)
    <3>1. ~IsData(f, t) /\ (f.stream # t \/ sc.state[t] # "idle")
      BY <1>1, <1>4 DEF IsData
    <3>2. cl' \in ClientType /\ cl'.sent = cl.sent /\ cl'.whole = cl.whole /\ sc' = sc
      BY <1>1, <1>3 DEF SentNothing
    <3>3. QED
      BY <1>1, <1>4, <2>1, <3>1, <3>2, AppendsElse
  <2>6. QED
    BY <2>2, <2>5
<1>6. net' \in Seq(FrameType)
  BY <1>1, <1>4
<1>7. TypeOK'
  BY <1>1, <1>3, <1>6 DEF IInv, TypeOK, SentNothing
<1>8. QED
  BY <1>3, <1>5, <1>7 DEF IInv, SentNothing

\* What SendData makes of the client
Sent(k, s, n, pad, end) ==
  [k EXCEPT !.conn = @ - (n + pad), !.win[s] = @ - (n + pad),
            !.sent[s] = @ + n, !.padded[s] = @ + pad,
            !.ended = IF end THEN @ \cup {s} ELSE @,
            !.whole = IF end THEN @ \cup {s} ELSE @]

\* The client has sent n bytes of s, the last ones maybe.
SentMore(k, l, s, n, end) ==
  /\ l \in ClientType /\ l.sent[s] = k.sent[s] + n
  /\ \A t \in Streams \ {s} : l.sent[t] = k.sent[t]
  /\ l.ended = IF end THEN k.ended \cup {s} ELSE k.ended
  /\ l.whole = IF end THEN k.whole \cup {s} ELSE k.whole

LEMMA ClientSends ==
  ASSUME NEW k \in ClientType, NEW s \in Streams, NEW n \in Nat, NEW pad \in Nat,
         NEW end \in BOOLEAN
  PROVE  SentMore(k, Sent(k, s, n, pad, end), s, n, end)
<1> DEFINE w == [k.win EXCEPT ![s] = @ - (n + pad)]
<1> DEFINE b == [k.sent EXCEPT ![s] = @ + n]
<1> DEFINE p == [k.padded EXCEPT ![s] = @ + pad]
<1> DEFINE e == IF end THEN k.ended \cup {s} ELSE k.ended
<1> DEFINE h == IF end THEN k.whole \cup {s} ELSE k.whole
<1> DEFINE l == Sent(k, s, n, pad, end)
<1>1. /\ k = [conn |-> k.conn, win |-> k.win, sent |-> k.sent, ended |-> k.ended,
              whole |-> k.whole, padded |-> k.padded]
      /\ k.conn \in Int /\ k.win \in [Streams -> Int] /\ k.sent \in [Streams -> Nat]
      /\ k.ended \in SUBSET Streams /\ k.whole \in SUBSET Streams
      /\ k.padded \in [Streams -> Nat]
  BY ClientFields
<1>2. /\ w \in [Streams -> Int] /\ b \in [Streams -> Nat]
      /\ e \in SUBSET Streams /\ h \in SUBSET Streams /\ p \in [Streams -> Nat]
      /\ b[s] = k.sent[s] + n /\ \A t \in Streams \ {s} : b[t] = k.sent[t]
  BY <1>1
<1>3. l = [k EXCEPT !.conn = k.conn - (n + pad), !.win = w, !.sent = b, !.padded = p,
                    !.ended = e, !.whole = h]
  BY DEF Sent
<1> HIDE DEF w, b, p, e, h, l
<1>4. l = [conn |-> k.conn - (n + pad), win |-> w, sent |-> b, ended |-> e, whole |-> h,
           padded |-> p]
  BY <1>1, <1>3
<1>5. k.conn - (n + pad) \in Int
  BY <1>1
<1>6. l \in ClientType
  BY <1>2, <1>4, <1>5, ClientMade
<1>7. l.sent = b /\ l.ended = e /\ l.whole = h
  BY <1>4
<1>8. QED
  BY <1>2, <1>6, <1>7 DEF SentMore, l, e, h

LEMMA SendDataKeeps ==
  ASSUME IInv, NEW s \in Streams, NEW n \in 0..MaxBody[s], NEW pad \in 0..MaxPad,
         NEW end \in BOOLEAN, SendData(s, n, pad, end)
  PROVE  IInv'
<1> DEFINE f == [kind |-> "data", stream |-> s, at |-> cl.sent[s], n |-> n, end |-> end]
<1>1. /\ cl \in ClientType /\ sc \in ServeType /\ net \in Seq(FrameType)
      /\ cl.whole \subseteq cl.ended
      /\ sc.state[s] # "idle" /\ s \notin cl.ended
      /\ UNCHANGED <<sc, reader, grant, refused, ignored>> /\ n \in Nat /\ pad \in Nat
  BY SizesAssumption DEF IInv, TypeOK, SendData, MaySend
<1>2. events' \in Nat
  BY EventTyped DEF SendData, IInv, TypeOK
<1>3. net' = Append(net, f)
  BY DEF SendData
<1>4. cl' = Sent(cl, s, n, pad, end)
  BY DEF SendData, Sent
<1>5. /\ cl' \in ClientType /\ cl'.sent[s] = cl.sent[s] + n
      /\ \A t \in Streams \ {s} : cl'.sent[t] = cl.sent[t]
      /\ cl'.ended = IF end THEN cl.ended \cup {s} ELSE cl.ended
      /\ cl'.whole = IF end THEN cl.whole \cup {s} ELSE cl.whole
  <2>1. SentMore(cl, Sent(cl, s, n, pad, end), s, n, end)
    BY <1>1, ClientSends
  <2>2. SentMore(cl, cl', s, n, end)
    BY <1>4, <2>1
  <2>3. QED
    BY <2>2 DEF SentMore
<1>6. /\ f \in FrameType /\ f.kind = "data" /\ f.stream = s /\ f.at = cl.sent[s] /\ f.n = n
      /\ f.end = end
  BY <1>1, ClientFields DEF FrameType
<1> HIDE DEF f
<1>7. ASSUME NEW t \in Streams, t # s
      PROVE  StreamInv(sc', reader', cl', t) /\ Arrives(sc', net', cl', t)
  <2>1. StreamInv(sc, reader, cl, t) /\ Arrives(sc, net, cl, t)
    BY DEF IInv
  <2>2. /\ cl'.sent[t] = cl.sent[t] /\ (t \in cl'.whole <=> t \in cl.whole)
        /\ cl.whole \subseteq cl'.whole /\ sc' = sc /\ reader' = reader
    BY <1>1, <1>5, <1>7
  <2>3. StreamInv(sc', reader', cl', t)
    BY <2>1, <2>2, SameStream
  <2>4. ~IsData(f, t) /\ f.stream # t
    BY <1>6, <1>7 DEF IsData
  <2>5. Arrives(sc', net', cl', t)
    BY <1>1, <1>3, <1>5, <1>6, <2>1, <2>2, <2>4, AppendsElse
  <2>6. QED
    BY <2>3, <2>5
<1>8. StreamInv(sc', reader', cl', s) /\ Arrives(sc', net', cl', s)
  <2>1. StreamInv(sc, reader, cl, s) /\ Arrives(sc, net, cl, s) /\ s \notin cl.whole
    BY <1>1 DEF IInv
  <2>2. sc' = sc /\ reader' = reader
    BY <1>1
  <2>3. sc.bytes[s] \in Nat /\ cl.sent[s] \in Nat
    BY <1>1, ServeFields, ClientFields
  <2>4. Ending(sc', reader', cl', s)
    BY <1>1, <1>5, <2>1, <2>2, <2>3 DEF StreamInv, Ending
  <2>5. Fresh(sc', reader', cl', s)
    BY <1>1, <2>1, <2>2 DEF StreamInv, Fresh
  <2>6. StreamInv(sc', reader', cl', s)
    BY <2>1, <2>2, <2>4, <2>5 DEF StreamInv
  <2>7. ASSUME sc.state[s] = "open"
        PROVE  Chained(Append(net, f), sc.bytes[s], cl'.sent[s], cl'.whole, s)
    <3>1. Chained(net, sc.bytes[s], cl.sent[s], cl.whole, s)
      BY <2>1, <2>7 DEF Arrives
    <3>2. IsData(f, s) /\ (f.end => s \in cl'.whole) /\ cl'.sent[s] \in Nat
      BY <1>5, <1>6, ClientFields DEF IsData
    <3>3. QED
      BY <1>1, <1>5, <1>6, <2>1, <2>3, <3>1, <3>2, ChainAppends
  <2>8. Arrives(sc', net', cl', s)
    BY <1>1, <1>3, <2>2, <2>7 DEF Arrives
  <2>9. QED
    BY <2>6, <2>8
<1>9. net' \in Seq(FrameType)
  BY <1>1, <1>3, <1>6
<1>10. TypeOK'
  BY <1>1, <1>2, <1>5, <1>9 DEF IInv, TypeOK
<1>11. cl'.whole \subseteq cl'.ended
  BY <1>1, <1>5
<1>12. QED
  BY <1>7, <1>8, <1>10, <1>11 DEF IInv

---------------------------------------------------------------------------
(* New requests and their DATA *)

LEMMA ProcessDataKeeps ==
  ASSUME IInv, ProcessData
  PROVE  IInv'
<1> DEFINE f == Head(net)
<1> DEFINE s == f.stream
<1>1. /\ net # <<>> /\ net' = Tail(net) /\ f.kind = "data" /\ ~InError(f)
      /\ sc' = TakeData(sc, f) /\ UNCHANGED <<reader, cl, grant, ignored, events>>
      /\ refused' = IF sc.pipe[s].err = "none" THEN refused
                    ELSE [refused EXCEPT ![s] = @ + f.n]
  BY DEF ProcessData, Received
<1>2. /\ sc \in ServeType /\ f \in FrameType /\ s \in Streams /\ f.n \in Nat
      /\ reader \in [Streams -> ReaderType] /\ net \in Seq(FrameType) /\ cl \in ClientType
      /\ refused \in [Streams -> Nat]
  BY <1>1, HeadTyped DEF IInv, TypeOK
<1>3. sc.win[s] \in Int /\ sc.conn \in Int
  BY <1>2, ServeFields
<1>4. Due(sc, reader, cl, f)
  <2>1. sc.state[s] = "open" /\ (f.n > 0 => ~(f.n > Available(sc, s)))
    BY <1>1 DEF InError
  <2>2. Available(sc, s) = IF sc.win[s] <= sc.conn THEN sc.win[s] ELSE sc.conn
    BY <1>3, MinOfTwo DEF Available
  <2>3. f.n > 0 => f.n <= sc.conn /\ f.n <= sc.win[s]
    BY <1>2, <1>3, <2>1, <2>2
  <2>4. StreamInv(sc, reader, cl, s)
    BY <1>2 DEF IInv
  <2>5. QED
    BY <1>2, <2>1, <2>3, <2>4 DEF Due
<1>5. \A t \in Streams : StreamInv(sc, reader, cl, t) /\ Arrives(sc, net, cl, t)
  BY DEF IInv
<1>6. Took(sc, reader, cl, net, TakeData(sc, f))
  BY <1>1, <1>2, <1>4, <1>5, TakesAll
<1>7. /\ sc' \in ServeType
      /\ \A t \in Streams : StreamInv(sc', reader', cl', t) /\ Arrives(sc', net', cl', t)
  BY <1>1, <1>6 DEF Took
<1>8. net' \in Seq(FrameType) /\ refused' \in [Streams -> Nat]
  BY <1>1, <1>2
<1>9. TypeOK'
  BY <1>1, <1>7, <1>8 DEF IInv, TypeOK
<1>10. QED
  BY <1>1, <1>7, <1>9 DEF IInv

\* Stream s, and no other, is no longer idle.
Begun(c, d, s) ==
  /\ d \in ServeType /\ d.bytes = c.bytes /\ d.state[s] \in {"open", "halfClosedRemote"}
  /\ \A t \in Streams \ {s} : /\ d.state[t] = c.state[t] /\ d.win[t] = c.win[t]
                              /\ d.decl[t] = c.decl[t] /\ d.pipe[t] = c.pipe[t]

LEMMA OpenBegins ==
  ASSUME NEW c \in ServeType, NEW s \in Streams, NEW decl \in Nat \cup {Undeclared}
  PROVE  LET d == [c EXCEPT !.state[s] = "open", !.win[s] = Window, !.decl[s] = decl]
         IN /\ Begun(c, d, s) /\ d.state[s] = "open" /\ d.win[s] = Window
            /\ d.pipe[s] = c.pipe[s]
<1> DEFINE st == [c.state EXCEPT ![s] = "open"]
<1> DEFINE w == [c.win EXCEPT ![s] = Window]
<1> DEFINE dc == [c.decl EXCEPT ![s] = decl]
<1> DEFINE d == [c EXCEPT !.state[s] = "open", !.win[s] = Window, !.decl[s] = decl]
<1>1. /\ c = [serve |-> c.serve, conn |-> c.conn, reset |-> c.reset, state |-> c.state,
             win |-> c.win, bytes |-> c.bytes, decl |-> c.decl, cont |-> c.cont,
             pipe |-> c.pipe]
      /\ c.serve \in {"loop", "done", "panic"} /\ c.conn \in Nat /\ c.reset \in SUBSET Streams
      /\ c.state \in [Streams -> {"idle", "open", "halfClosedRemote", "closed"}]
      /\ c.win \in [Streams -> 0..Window] /\ c.bytes \in [Streams -> Nat]
      /\ c.decl \in [Streams -> Nat \cup {Undeclared}]
      /\ c.cont \in [Streams -> {"none", "want", "queued"}]
      /\ c.pipe \in [Streams -> PipeType]
  BY ServeFields
<1>2. /\ st \in [Streams -> {"idle", "open", "halfClosedRemote", "closed"}]
      /\ w \in [Streams -> 0..Window] /\ dc \in [Streams -> Nat \cup {Undeclared}]
  BY <1>1, SizesAssumption
<1>3. /\ st[s] = "open" /\ w[s] = Window
      /\ \A t \in Streams \ {s} : st[t] = c.state[t] /\ w[t] = c.win[t] /\ dc[t] = c.decl[t]
  BY <1>1
<1>4. d = [c EXCEPT !.state = st, !.win = w, !.decl = dc]
  OBVIOUS
<1> HIDE DEF st, w, dc, d
<1>5. d = [serve |-> c.serve, conn |-> c.conn, reset |-> c.reset, state |-> st,
           win |-> w, bytes |-> c.bytes, decl |-> dc, cont |-> c.cont, pipe |-> c.pipe]
  BY <1>1, <1>4
<1>6. d \in ServeType
  BY <1>1, <1>2, <1>5, ServeMade
<1>7. d.state = st /\ d.win = w /\ d.bytes = c.bytes /\ d.decl = dc /\ d.pipe = c.pipe
  BY <1>5
<1>8. QED
  BY <1>3, <1>6, <1>7 DEF Begun, d

LEMMA EndedPipe ==
  ASSUME NEW p \in PipeType
  PROVE  LET w == [p EXCEPT !.err = "EOF"]
         IN w \in PipeType /\ w.data = p.data /\ w.r = p.r /\ w.err = "EOF"
<1> DEFINE w == [p EXCEPT !.err = "EOF"]
<1>1. p = [data |-> p.data, r |-> p.r, err |-> p.err, waiting |-> p.waiting]
  BY PipeFields
<1>2. w = [p EXCEPT !.err = "EOF"] /\ "EOF" \in Errors
  BY DEF Errors
<1> HIDE DEF w
<1>3. w = [data |-> p.data, r |-> p.r, err |-> "EOF", waiting |-> p.waiting]
  BY <1>1, <1>2
<1>4. w \in PipeType
  BY <1>2, <1>3, PipeFields, PipeMade
<1>5. QED
  BY <1>3, <1>4 DEF w

LEMMA EmptyBegins ==
  ASSUME NEW c \in ServeType, NEW s \in Streams
  PROVE  LET d == [c EXCEPT !.state[s] = "halfClosedRemote", !.pipe[s].err = "EOF"]
         IN /\ Begun(c, d, s) /\ d.state[s] = "halfClosedRemote" /\ d.decl = c.decl
            /\ d.pipe[s].data = c.pipe[s].data /\ d.pipe[s].r = c.pipe[s].r
            /\ d.pipe[s].err = "EOF"
<1> DEFINE st == [c.state EXCEPT ![s] = "halfClosedRemote"]
<1> DEFINE w == [c.pipe[s] EXCEPT !.err = "EOF"]
<1> DEFINE pp == [c.pipe EXCEPT ![s] = w]
<1> DEFINE d == [c EXCEPT !.state[s] = "halfClosedRemote", !.pipe[s].err = "EOF"]
<1>1. /\ c = [serve |-> c.serve, conn |-> c.conn, reset |-> c.reset, state |-> c.state,
             win |-> c.win, bytes |-> c.bytes, decl |-> c.decl, cont |-> c.cont,
             pipe |-> c.pipe]
      /\ c.serve \in {"loop", "done", "panic"} /\ c.conn \in Nat /\ c.reset \in SUBSET Streams
      /\ c.state \in [Streams -> {"idle", "open", "halfClosedRemote", "closed"}]
      /\ c.win \in [Streams -> 0..Window] /\ c.bytes \in [Streams -> Nat]
      /\ c.decl \in [Streams -> Nat \cup {Undeclared}]
      /\ c.cont \in [Streams -> {"none", "want", "queued"}]
      /\ c.pipe \in [Streams -> PipeType]
  BY ServeFields
<1>2. /\ w \in PipeType /\ w.data = c.pipe[s].data /\ w.r = c.pipe[s].r
      /\ w.err = "EOF"
  BY <1>1, EndedPipe
<1>3. d = [c EXCEPT !.state = st, !.pipe = pp]
  OBVIOUS
<1> HIDE DEF w
<1>4. /\ st \in [Streams -> {"idle", "open", "halfClosedRemote", "closed"}]
      /\ pp \in [Streams -> PipeType] /\ st[s] = "halfClosedRemote" /\ pp[s] = w
      /\ \A t \in Streams \ {s} : st[t] = c.state[t] /\ pp[t] = c.pipe[t]
  BY <1>1, <1>2
<1> HIDE DEF st, pp, d
<1>5. d = [serve |-> c.serve, conn |-> c.conn, reset |-> c.reset, state |-> st,
           win |-> c.win, bytes |-> c.bytes, decl |-> c.decl, cont |-> c.cont, pipe |-> pp]
  BY <1>1, <1>3
<1>6. d \in ServeType
  BY <1>1, <1>4, <1>5, ServeMade
<1>7. d.state = st /\ d.win = c.win /\ d.bytes = c.bytes /\ d.decl = c.decl /\ d.pipe = pp
  BY <1>5
<1>8. QED
  BY <1>2, <1>4, <1>6, <1>7 DEF Begun, d

LEMMA EmptyBody ==
  ASSUME NEW k \in ClientType, NEW s \in Streams
  PROVE  LET l == [k EXCEPT !.ended = @ \cup {s}, !.whole = @ \cup {s}]
         IN /\ l \in ClientType /\ l.sent = k.sent
            /\ l.ended = k.ended \cup {s} /\ l.whole = k.whole \cup {s}
<1> DEFINE l == [k EXCEPT !.ended = @ \cup {s}, !.whole = @ \cup {s}]
<1> DEFINE e == k.ended \cup {s}
<1> DEFINE h == k.whole \cup {s}
<1>1. /\ k = [conn |-> k.conn, win |-> k.win, sent |-> k.sent, ended |-> k.ended,
              whole |-> k.whole, padded |-> k.padded]
      /\ k.conn \in Int /\ k.win \in [Streams -> Int] /\ k.sent \in [Streams -> Nat]
      /\ e \in SUBSET Streams /\ h \in SUBSET Streams /\ k.padded \in [Streams -> Nat]
  BY ClientFields
<1>2. l = [k EXCEPT !.ended = e, !.whole = h]
  OBVIOUS
<1> HIDE DEF l, e, h
<1>3. l = [conn |-> k.conn, win |-> k.win, sent |-> k.sent, ended |-> e, whole |-> h,
           padded |-> k.padded]
  BY <1>1, <1>2
<1>4. l \in ClientType
  BY <1>1, <1>3, ClientMade
<1>5. QED
  BY <1>3, <1>4 DEF l, e, h

\* What ProcessHeaders may do to s
LEMMA ProcessHeadersDoes ==
  ASSUME IInv, NEW s \in Streams, ProcessHeaders(s)
  PROVE  /\ Begun(sc, sc', s) /\ cl' \in ClientType /\ cl'.sent = cl.sent
         /\ sc'.pipe[s].data = sc.pipe[s].data /\ sc'.pipe[s].r = sc.pipe[s].r
         /\ \/ /\ sc'.state[s] = "open" /\ sc'.win[s] = Window
               /\ sc'.pipe[s].err = sc.pipe[s].err
               /\ cl.ended \subseteq cl'.ended /\ cl'.whole = cl.whole
            \/ /\ sc'.state[s] = "halfClosedRemote" /\ sc'.pipe[s].err = "EOF"
               /\ sc'.decl = sc.decl
               /\ cl'.ended = cl.ended \cup {s} /\ cl'.whole = cl.whole \cup {s}
         /\ \E label \in {"reading", "continue"} :
              Moved(reader, reader', s, label, reader[s].n)
<1>1. sc \in ServeType /\ cl \in ClientType /\ reader \in [Streams -> ReaderType]
  BY DEF IInv, TypeOK
<1>2. \E label \in {"reading", "continue"} : Moved(reader, reader', s, label, reader[s].n)
  <2>1. PICK label \in {"reading", "continue"} : reader' = [reader EXCEPT ![s].pc = label]
    BY DEF ProcessHeaders, Goto
  <2>2. Moved(reader, [reader EXCEPT ![s].pc = label], s, label, reader[s].n)
    BY <1>1, ReaderGoes
  <2>3. Moved(reader, reader', s, label, reader[s].n)
    BY <2>1, <2>2, Zenon
  <2>4. QED
    BY <2>3
<1>3. \/ /\ \E decl \in Lengths[s] \cup {Undeclared} :
              sc' = [sc EXCEPT !.state[s] = "open", !.win[s] = Window, !.decl[s] = decl]
         /\ cl' = [cl EXCEPT !.win[s] = Window]
      \/ /\ sc' = [sc EXCEPT !.state[s] = "halfClosedRemote", !.pipe[s].err = "EOF"]
         /\ cl' = [cl EXCEPT !.ended = @ \cup {s}, !.whole = @ \cup {s}]
  BY DEF ProcessHeaders
<1>4. ASSUME NEW decl \in Lengths[s] \cup {Undeclared},
             sc' = [sc EXCEPT !.state[s] = "open", !.win[s] = Window, !.decl[s] = decl],
             cl' = [cl EXCEPT !.win[s] = Window]
      PROVE  /\ Begun(sc, sc', s) /\ sc'.state[s] = "open" /\ sc'.win[s] = Window
             /\ sc'.pipe[s] = sc.pipe[s] /\ SentNothing(cl, cl')
  <2>1. /\ Begun(sc, sc', s) /\ sc'.state[s] = "open" /\ sc'.win[s] = Window
        /\ sc'.pipe[s] = sc.pipe[s]
    <3>1. decl \in Nat \cup {Undeclared}
      BY SizesAssumption
    <3>2. QED
      BY <1>1, <1>4, <3>1, OpenBegins
  <2> DEFINE w == [cl.win EXCEPT ![s] = Window]
  <2>2. w \in [Streams -> Int] /\ cl.conn \in Int
    BY <1>1, ClientFields, SizesAssumption
  <2>3. cl' = [cl EXCEPT !.win = w]
    BY <1>4
  <2> HIDE DEF w
  <2>4. cl' = [cl EXCEPT !.conn = cl.conn, !.win = w]
    BY <1>1, <2>3, ClientFields
  <2>5. SentNothing(cl, [cl EXCEPT !.conn = cl.conn, !.win = w])
    BY <1>1, <2>2, ClientRoom
  <2>6. SentNothing(cl, cl')
    BY <2>4, <2>5, Zenon
  <2>7. QED
    BY <2>1, <2>6
<1>5. ASSUME sc' = [sc EXCEPT !.state[s] = "halfClosedRemote", !.pipe[s].err = "EOF"],
             cl' = [cl EXCEPT !.ended = @ \cup {s}, !.whole = @ \cup {s}]
      PROVE  /\ Begun(sc, sc', s) /\ sc'.state[s] = "halfClosedRemote" /\ sc'.decl = sc.decl
             /\ sc'.pipe[s].data = sc.pipe[s].data /\ sc'.pipe[s].r = sc.pipe[s].r
             /\ sc'.pipe[s].err = "EOF"
             /\ cl' \in ClientType /\ cl'.sent = cl.sent
             /\ cl'.ended = cl.ended \cup {s} /\ cl'.whole = cl.whole \cup {s}
  <2>1. /\ Begun(sc, sc', s) /\ sc'.state[s] = "halfClosedRemote" /\ sc'.decl = sc.decl
        /\ sc'.pipe[s].data = sc.pipe[s].data /\ sc'.pipe[s].r = sc.pipe[s].r
        /\ sc'.pipe[s].err = "EOF"
    BY <1>1, <1>5, EmptyBegins
  <2>2. /\ cl' \in ClientType /\ cl'.sent = cl.sent
        /\ cl'.ended = cl.ended \cup {s} /\ cl'.whole = cl.whole \cup {s}
    BY <1>1, <1>5, EmptyBody
  <2>3. QED
    BY <2>1, <2>2
<1>6. CASE \E decl \in Lengths[s] \cup {Undeclared} :
             /\ sc' = [sc EXCEPT !.state[s] = "open", !.win[s] = Window, !.decl[s] = decl]
             /\ cl' = [cl EXCEPT !.win[s] = Window]
  <2>1. /\ Begun(sc, sc', s) /\ sc'.state[s] = "open" /\ sc'.win[s] = Window
        /\ sc'.pipe[s] = sc.pipe[s] /\ SentNothing(cl, cl')
    BY <1>4, <1>6
  <2>2. /\ cl' \in ClientType /\ cl'.sent = cl.sent
        /\ cl.ended \subseteq cl'.ended /\ cl'.whole = cl.whole
    BY <2>1 DEF SentNothing
  <2>3. QED
    BY <1>2, <2>1, <2>2, Zenon
<1>7. CASE /\ sc' = [sc EXCEPT !.state[s] = "halfClosedRemote", !.pipe[s].err = "EOF"]
           /\ cl' = [cl EXCEPT !.ended = @ \cup {s}, !.whole = @ \cup {s}]
  BY <1>2, <1>5, <1>7, Zenon
<1>8. QED
  BY <1>3, <1>6, <1>7, Zenon

LEMMA ProcessHeadersKeeps ==
  ASSUME IInv, NEW s \in Streams, ProcessHeaders(s)
  PROVE  IInv'
<1>1. PICK label \in {"reading", "continue"} : Moved(reader, reader', s, label, reader[s].n)
  BY ProcessHeadersDoes
<1>2. /\ Begun(sc, sc', s) /\ cl' \in ClientType /\ cl'.sent = cl.sent
      /\ sc'.pipe[s].data = sc.pipe[s].data /\ sc'.pipe[s].r = sc.pipe[s].r
  BY ProcessHeadersDoes
<1>3. \/ /\ sc'.state[s] = "open" /\ sc'.win[s] = Window
         /\ sc'.pipe[s].err = sc.pipe[s].err
         /\ cl.ended \subseteq cl'.ended /\ cl'.whole = cl.whole
      \/ /\ sc'.state[s] = "halfClosedRemote" /\ sc'.pipe[s].err = "EOF"
         /\ sc'.decl = sc.decl
         /\ cl'.ended = cl.ended \cup {s} /\ cl'.whole = cl.whole \cup {s}
  BY ProcessHeadersDoes
<1>4. /\ sc \in ServeType /\ cl \in ClientType /\ reader \in [Streams -> ReaderType]
      /\ net \in Seq(FrameType) /\ sc.state[s] = "idle" /\ cl.whole \subseteq cl.ended
      /\ UNCHANGED <<net, grant, refused, ignored>> /\ events' \in Nat
  BY EventTyped DEF IInv, TypeOK, ProcessHeaders
<1>5. /\ reader' \in [Streams -> ReaderType] /\ reader'[s].pc = label
      /\ reader'[s].n = reader[s].n /\ reader'[s].err = reader[s].err
      /\ reader'[s].got = reader[s].got
      /\ \A t \in Streams \ {s} : reader'[t] = reader[t]
  BY <1>1 DEF Moved
<1>6. /\ sc' \in ServeType /\ sc'.bytes = sc.bytes
      /\ sc'.state[s] \in {"open", "halfClosedRemote"}
      /\ \A t \in Streams \ {s} : /\ sc'.state[t] = sc.state[t] /\ sc'.win[t] = sc.win[t]
                                  /\ sc'.decl[t] = sc.decl[t] /\ sc'.pipe[t] = sc.pipe[t]
  BY <1>2 DEF Begun
<1>7. /\ sc.bytes[s] = 0 /\ sc.pipe[s].err = "none" /\ sc.decl[s] = Undeclared
      /\ s \notin cl.whole /\ cl.sent[s] = 0 /\ reader[s].n = 0 /\ reader[s].err = "none"
      /\ Len(reader[s].got) + Unread(sc.pipe[s]) = 0
      /\ Numbered(sc, reader, s)
  BY <1>4 DEF IInv, StreamInv, Fresh, Reading, Numbered
<1>8. Len(reader[s].got) = 0 /\ Unread(sc.pipe[s]) = 0
  <2>1. sc.pipe[s] \in PipeType /\ reader[s] \in ReaderType
    BY <1>4, ServeFields
  <2>2. Len(reader[s].got) \in Nat /\ Unread(sc.pipe[s]) \in Nat
    BY <2>1, PipeFields, ReaderFields
  <2>3. QED
    BY <1>7, <2>2
<1>9. Unread(sc'.pipe[s]) = 0
  BY <1>2, <1>8 DEF Unread
<1>10. StreamInv(sc', reader', cl', s)
  <2>1. Numbered(sc', reader', s)
    BY <1>5, <1>6, <1>7, <1>8, <1>9 DEF Numbered
  <2>2. Ending(sc', reader', cl', s)
    BY <1>2, <1>3, <1>5, <1>6, <1>7 DEF Ending
  <2>3. Fresh(sc', reader', cl', s)
    BY <1>5, <1>6 DEF Fresh
  <2>4. Reading(reader', s)
    BY <1>5, <1>7 DEF Reading
  <2>5. Account(sc', reader', s)
    <3>1. sc'.state[s] = "open" => sc'.win[s] = Window
      BY <1>3
    <3>2. QED
      BY <1>5, <1>7, <1>9, <3>1, SizesAssumption DEF Account
  <2>6. QED
    BY <2>1, <2>2, <2>3, <2>4, <2>5 DEF StreamInv
<1>11. Arrives(sc', net', cl', s)
  <2>1. \A i \in 1..Len(net) : net[i].stream # s
    BY <1>4 DEF IInv, Arrives
  <2>2. Chained(net, 0, 0, cl'.whole, s)
    BY <1>4, <2>1, ChainNone
  <2>3. QED
    BY <1>2, <1>4, <1>6, <1>7, <2>2 DEF Arrives
<1>12. ASSUME NEW t \in Streams, t # s
       PROVE  StreamInv(sc', reader', cl', t) /\ Arrives(sc', net', cl', t)
  <2>1. StreamInv(sc, reader, cl, t) /\ Arrives(sc, net, cl, t)
    BY DEF IInv
  <2>2. /\ sc'.state[t] = sc.state[t] /\ sc'.win[t] = sc.win[t] /\ sc'.bytes[t] = sc.bytes[t]
        /\ sc'.decl[t] = sc.decl[t] /\ sc'.pipe[t] = sc.pipe[t] /\ reader'[t] = reader[t]
        /\ cl'.sent[t] = cl.sent[t]
    BY <1>2, <1>5, <1>6, <1>12
  <2>3. (t \in cl'.whole <=> t \in cl.whole) /\ cl.whole \subseteq cl'.whole
    BY <1>3, <1>12
  <2>4. StreamInv(sc', reader', cl', t)
    BY <2>1, <2>2, <2>3, SameStream
  <2>5. Arrives(sc', net', cl', t)
    BY <1>4, <2>1, <2>2, <2>3, SameArrives
  <2>6. QED
    BY <2>4, <2>5
<1>13. TypeOK'
  BY <1>2, <1>4, <1>5, <1>6 DEF IInv, TypeOK
<1>14. cl'.whole \subseteq cl'.ended
  BY <1>3, <1>4
<1>15. QED
  BY <1>10, <1>11, <1>12, <1>13, <1>14 DEF IInv

---------------------------------------------------------------------------
(* The theorems *)

LEMMA InitHolds ==
  ASSUME Init
  PROVE  IInv
<1>1. NewPipe \in PipeType /\ Unread(NewPipe) = 0 /\ NewPipe.err = "none"
  <2>1. <<>> \in Seq(Nat) /\ Len(<<>>) = 0
    OBVIOUS
  <2>2. NewPipe = [data |-> <<>>, r |-> 0, err |-> "none", waiting |-> FALSE]
    BY DEF NewPipe
  <2>3. "none" \in Errors /\ 0 <= Window
    BY SizesAssumption DEF Errors
  <2>4. NewPipe \in PipeType
    BY <2>1, <2>2, <2>3, SizesAssumption DEF PipeType
  <2>5. Unread(NewPipe) = 0 /\ NewPipe.err = "none"
    BY <2>1, <2>2 DEF Unread
  <2>6. QED
    BY <2>4, <2>5
<1>2. sc \in ServeType
  <2>1. sc = [serve |-> "loop", conn |-> Window, reset |-> {},
              state |-> [s \in Streams |-> "idle"],
              win   |-> [s \in Streams |-> 0],
              bytes |-> [s \in Streams |-> 0],
              decl  |-> [s \in Streams |-> Undeclared],
              cont  |-> [s \in Streams |-> "none"],
              pipe  |-> [s \in Streams |-> NewPipe]]
    BY DEF Init
  <2>2. /\ Window \in Nat
        /\ [s \in Streams |-> "idle"]
             \in [Streams -> {"idle", "open", "halfClosedRemote", "closed"}]
        /\ [s \in Streams |-> 0] \in [Streams -> 0..Window]
        /\ [s \in Streams |-> 0] \in [Streams -> Nat]
        /\ [s \in Streams |-> Undeclared] \in [Streams -> Nat \cup {Undeclared}]
        /\ [s \in Streams |-> "none"] \in [Streams -> {"none", "want", "queued"}]
        /\ [s \in Streams |-> NewPipe] \in [Streams -> PipeType]
    BY <1>1, SizesAssumption
  <2>3. "loop" \in {"loop", "done", "panic"} /\ {} \in SUBSET Streams
    OBVIOUS
  <2>4. QED
    BY <2>1, <2>2, <2>3, ServeMade
<1>3. reader \in [Streams -> ReaderType]
  <2>1. reader = [s \in Streams |-> [pc |-> "none", n |-> 0, err |-> "none", got |-> <<>>]]
    BY DEF Init
  <2>2. [pc |-> "none", n |-> 0, err |-> "none", got |-> <<>>] \in ReaderType
    BY SizesAssumption DEF ReaderType, Errors
  <2>3. QED
    BY <2>1, <2>2
<1>4. cl \in ClientType /\ cl.whole = {} /\ cl.ended = {}
      /\ \A s \in Streams : cl.sent[s] = 0
  BY SizesAssumption DEF Init, ClientType
<1>5. TypeOK
  BY <1>2, <1>3, <1>4 DEF Init, TypeOK
<1>6. ASSUME NEW s \in Streams
      PROVE  StreamInv(sc, reader, cl, s) /\ Arrives(sc, net, cl, s)
  <2>1. /\ sc.state[s] = "idle" /\ sc.bytes[s] = 0 /\ sc.decl[s] = Undeclared
        /\ sc.pipe[s] = NewPipe
    BY DEF Init
  <2>2. reader[s].pc = "none" /\ reader[s].n = 0 /\ reader[s].err = "none"
        /\ Len(reader[s].got) = 0
    BY DEF Init
  <2>3. Numbered(sc, reader, s)
    BY <1>1, <2>1, <2>2 DEF Numbered
  <2>4. Ending(sc, reader, cl, s) /\ Fresh(sc, reader, cl, s)
    BY <1>1, <1>4, <2>1, <2>2 DEF Ending, Fresh
  <2>5. Reading(reader, s) /\ Account(sc, reader, s)
    BY <2>1, <2>2 DEF Reading, Account
  <2>6. Arrives(sc, net, cl, s)
    BY <2>1 DEF Init, Arrives
  <2>7. QED
    BY <2>3, <2>4, <2>5, <2>6 DEF StreamInv
<1>7. QED
  BY <1>4, <1>5, <1>6 DEF IInv

LEMMA StepKeeps ==
  ASSUME IInv, [Next]_vars
  PROVE  IInv'
<1>1. CASE UNCHANGED vars
  <2>1. SentNothing(cl, cl')
    BY <1>1 DEF vars, SentNothing, IInv, TypeOK
  <2>2. QED
    BY <1>1, <2>1, ClientOnly DEF vars, IInv, TypeOK
<1>2. ASSUME NEW s \in Streams, Reads(s) PROVE IInv'
  BY <1>2, SendContinueKeeps, WaitInPipeKeeps, ReadPipeKeeps DEF Reads
<1>3. ASSUME NEW s \in Streams, Sends(s) PROVE IInv'
  BY <1>3, SendDataKeeps DEF Sends
<1>4. ASSUME NEW s \in Streams,
             CloseBody(s) \/ Quit(s) \/ ProcessHeaders(s) \/ Respond(s)
      PROVE  IInv'
  BY <1>4, CloseBodyKeeps, QuitKeeps, ProcessHeadersKeeps, RespondKeeps
<1>5. ASSUME NEW s \in Streams, SendReset(s) \/ LearnOfReset(s) \/ GrantArrives(s)
      PROVE  IInv'
  BY <1>5, SendResetKeeps, LearnOfResetKeeps, GrantKeeps
<1>6. ASSUME Serve PROVE IInv'
  <2>1. CASE ProcessData \/ ProcessDataInError \/ ProcessResetStream
    BY <2>1, ProcessDataKeeps, ProcessDataInErrorKeeps, ProcessResetStreamKeeps
  <2>2. ASSUME NEW s \in Streams, NoteBodyRead(s) \/ WantContinue(s) \/ WriteContinue(s)
        PROVE  IInv'
    BY <2>2, NoteBodyReadKeeps, ContinueKeeps
  <2>3. QED
    BY <1>6, <2>1, <2>2 DEF Serve
<1>7. CASE ConnGrantArrives \/ ServeEnds
  BY <1>7, ConnGrantKeeps, ServeEndsKeeps
<1>8. QED
  BY <1>1, <1>2, <1>3, <1>4, <1>5, <1>6, <1>7 DEF Next

\* The inductive invariant
THEOREM Invariant == Spec => []IInv
<1>1. Init => IInv
  BY InitHolds
<1>2. IInv /\ [Next]_vars => IInv'
  BY StepKeeps
<1>3. QED
  BY <1>1, <1>2, PTL DEF Spec

\* Every variable keeps its type.  In particular no stream's window leaves 0..Window
\* and no buffer holds more than its size, whatever the client sends.
THEOREM TypeCorrect == Spec => []TypeOK
<1>1. IInv => TypeOK
  BY DEF IInv
<1>2. QED
  BY <1>1, Invariant, PTL

\* What is missing from the window of an open stream is in its pipe or just being read,
\* so bufPipe.Write of DATA within the window is never short.
THEOREM StreamsAccounted == Spec => []StreamAccounted
<1>1. IInv => StreamAccounted
  BY DEF IInv, StreamInv, Account, StreamAccounted
<1>2. QED
  BY <1>1, Invariant, PTL

---------------------------------------------------------------------------
(* RequestBody implements RequestBodies. *)

\* Nobody has read or sent anything.
Unseen ==
  /\ sc'.decl = sc.decl /\ cl'.sent = cl.sent /\ cl'.whole = cl.whole
  /\ \A t \in Streams : reader'[t].got = reader[t].got /\ reader'[t].err = reader[t].err

LEMMA UnseenStutters ==
  ASSUME Unseen
  PROVE  UNCHANGED Bodies!vars
<1>1. {s \in cl'.whole : sc'.decl[s] \in {Undeclared, cl'.sent[s]}}
        = {s \in cl.whole : sc.decl[s] \in {Undeclared, cl.sent[s]}}
  BY DEF Unseen
<1>2. [s \in Streams |-> reader'[s].got] = [s \in Streams |-> reader[s].got]
  BY DEF Unseen
<1>3. [s \in Streams |-> IF reader'[s].err \in {"none", "EOF", "nil"}
                         THEN reader'[s].err ELSE "error"]
        = [s \in Streams |-> IF reader[s].err \in {"none", "EOF", "nil"}
                             THEN reader[s].err ELSE "error"]
  BY DEF Unseen
<1>4. cl'.sent = cl.sent
  BY DEF Unseen
<1>5. QED
  BY <1>1, <1>2, <1>3, <1>4 DEF Bodies!vars

LEMMA DeclStays ==
  ASSUME NEW c \in ServeType, NEW s \in Streams
  PROVE  /\ \A err : CloseStream(c, s, err).decl = c.decl
         /\ ResetStream(c, s).decl = c.decl
         /\ \A why : End(c, why).decl = c.decl
         /\ EndBody(c, s).decl = c.decl
         /\ \A n : GiveBack(c, s, n).decl = c.decl
<1>1. c = [serve |-> c.serve, conn |-> c.conn, reset |-> c.reset, state |-> c.state,
           win |-> c.win, bytes |-> c.bytes, decl |-> c.decl, cont |-> c.cont,
           pipe |-> c.pipe]
  BY ServeFields
<1>2. "decl" \in DOMAIN c
  BY <1>1
<1>3. \A err : CloseStream(c, s, err).decl = c.decl
  BY <1>2 DEF CloseStream
<1>4. ResetStream(c, s).decl = c.decl
  BY <1>2 DEF ResetStream, CloseStream
<1>5. \A why : End(c, why).decl = c.decl
  BY <1>2 DEF End
<1>6. EndBody(c, s).decl = c.decl
  BY <1>2 DEF EndBody
<1>7. \A n : GiveBack(c, s, n).decl = c.decl
  BY <1>2 DEF GiveBack
<1>8. QED
  BY <1>3, <1>4, <1>5, <1>6, <1>7

LEMMA TakesDecl ==
  ASSUME NEW c \in ServeType, NEW f
  PROVE  TakeData(c, f).decl = c.decl
<1> DEFINE s == f.stream
<1> DEFINE taken == [c EXCEPT !.conn = @ - f.n, !.win[s] = @ - f.n]
<1> DEFINE put == [taken EXCEPT !.pipe[s] = WritePipe(@, [i \in 1..f.n |-> f.at + i])]
<1> DEFINE all == [put EXCEPT !.bytes[s] = @ + f.n]
<1>1. "decl" \in DOMAIN c
  <2>1. c = [serve |-> c.serve, conn |-> c.conn, reset |-> c.reset, state |-> c.state,
             win |-> c.win, bytes |-> c.bytes, decl |-> c.decl, cont |-> c.cont,
             pipe |-> c.pipe]
    BY ServeFields
  <2>2. QED
    BY <2>1
<1>2. "decl" \in DOMAIN taken /\ taken.decl = c.decl
  BY <1>1
<1> HIDE DEF taken
<1>3. "decl" \in DOMAIN put /\ put.decl = c.decl
  BY <1>2
<1> HIDE DEF put
<1>4. "decl" \in DOMAIN all /\ all.decl = c.decl
  BY <1>3
<1> HIDE DEF all
<1>5. ASSUME NEW d, "decl" \in DOMAIN d, d.decl = c.decl
      PROVE  EndBody(d, s).decl = c.decl /\ ResetStream(d, s).decl = c.decl
  BY <1>5 DEF EndBody, ResetStream, CloseStream
<1>6. TakeData(c, f) \in {c, EndBody(c, s), ResetStream(taken, s), ResetStream(put, s),
                          EndBody(all, s), all}
  BY DEF TakeData, taken, put, all
<1>7. QED
  BY <1>1, <1>2, <1>3, <1>4, <1>5, <1>6

LEMMA ReaderSilent ==
  ASSUME NEW s, NEW pc, NEW n, Moved(reader, reader', s, pc, n),
         sc'.decl = sc.decl, cl' = cl
  PROVE  Unseen
<1>1. ASSUME NEW t \in Streams
      PROVE  reader'[t].got = reader[t].got /\ reader'[t].err = reader[t].err
  BY DEF Moved
<1>2. QED
  BY <1>1 DEF Unseen

\* Neither the readers' waiting, nor serve, nor window updates are seen.
LEMMA SilentSteps ==
  ASSUME IInv
  PROVE  /\ \A s \in Streams : \/ WaitInPipe(s) \/ CloseBody(s) \/ Respond(s)
                               \/ WantContinue(s) \/ WriteContinue(s)
                               \/ SendContinue(s) \/ Quit(s) \/ NoteBodyRead(s)
                               \/ SendReset(s) \/ LearnOfReset(s) \/ GrantArrives(s)
                               => Unseen
         /\ \/ ProcessData \/ ProcessDataInError \/ ProcessResetStream
            \/ ConnGrantArrives \/ ServeEnds
            => Unseen
<1>1. /\ sc \in ServeType /\ cl \in ClientType /\ reader \in [Streams -> ReaderType]
      /\ "decl" \in DOMAIN sc
  <2>1. sc \in ServeType /\ cl \in ClientType /\ reader \in [Streams -> ReaderType]
    BY DEF IInv, TypeOK
  <2>2. sc = [serve |-> sc.serve, conn |-> sc.conn, reset |-> sc.reset, state |-> sc.state,
              win |-> sc.win, bytes |-> sc.bytes, decl |-> sc.decl, cont |-> sc.cont,
              pipe |-> sc.pipe]
    BY <2>1, ServeFields
  <2>3. QED
    BY <2>1, <2>2
<1>2. ASSUME NEW s \in Streams,
             \/ WaitInPipe(s) \/ CloseBody(s) \/ Respond(s)
             \/ WantContinue(s) \/ WriteContinue(s)
      PROVE  Unseen
  <2>1. reader' = reader /\ cl' = cl
    BY <1>2 DEF WaitInPipe, CloseBody, Respond, WantContinue, WriteContinue
  <2>2. sc'.decl = sc.decl
    <3>1. CASE WaitInPipe(s)
      BY <1>1, <3>1 DEF WaitInPipe
    <3>2. CASE CloseBody(s)
      BY <1>1, <3>2 DEF CloseBody
    <3>3. CASE Respond(s)
      BY <1>1, <3>3, DeclStays DEF Respond
    <3>4. CASE WantContinue(s)
      BY <1>1, <3>4 DEF WantContinue
    <3>5. CASE WriteContinue(s)
      BY <1>1, <3>5, DeclStays DEF WriteContinue
    <3>6. QED
      BY <1>2, <3>1, <3>2, <3>3, <3>4, <3>5
  <2>3. QED
    BY <2>1, <2>2 DEF Unseen
<1>3. ASSUME NEW s \in Streams, SendContinue(s) \/ Quit(s) \/ NoteBodyRead(s)
      PROVE  Unseen
  <2>1. CASE SendContinue(s)
    <3>1. reader' = [reader EXCEPT ![s].pc = "reading"] /\ cl' = cl
      BY <2>1 DEF SendContinue, Goto
    <3>2. sc'.decl = sc.decl
      BY <1>1, <2>1 DEF SendContinue
    <3>3. Moved(reader, [reader EXCEPT ![s].pc = "reading"], s, "reading", reader[s].n)
      BY <1>1, ReaderGoes
    <3>4. Moved(reader, reader', s, "reading", reader[s].n)
      BY <3>1, <3>3, Zenon
    <3>5. QED
      BY <3>1, <3>2, <3>4, ReaderSilent
  <2>2. CASE Quit(s)
    <3>1. reader' = [reader EXCEPT ![s].pc = "ended"] /\ cl' = cl /\ sc' = sc
      BY <2>2 DEF Quit, Goto
    <3>2. Moved(reader, [reader EXCEPT ![s].pc = "ended"], s, "ended", reader[s].n)
      BY <1>1, ReaderGoes
    <3>3. Moved(reader, reader', s, "ended", reader[s].n)
      BY <3>1, <3>2, Zenon
    <3>4. QED
      BY <3>1, <3>3, ReaderSilent
  <2>3. CASE NoteBodyRead(s)
    <3> DEFINE pc == IF reader[s].err = "none" THEN "reading" ELSE "ended"
    <3>1. reader' = [reader EXCEPT ![s] = [@ EXCEPT !.n = 0, !.pc = pc]] /\ cl' = cl
      BY <2>3 DEF NoteBodyRead
    <3>2. sc'.decl = sc.decl
      BY <1>1, <2>3, DeclStays DEF NoteBodyRead
    <3>3. pc \in {"none", "continue", "reading", "noting", "ended"} /\ 0 \in 0..Window
      BY SizesAssumption
    <3> HIDE DEF pc
    <3>4. Moved(reader, [reader EXCEPT ![s] = [@ EXCEPT !.n = 0, !.pc = pc]], s, pc, 0)
      BY <1>1, <3>3, ReaderMoves
    <3>5. Moved(reader, reader', s, pc, 0)
      BY <3>1, <3>4, Zenon
    <3>6. QED
      BY <3>1, <3>2, <3>5, ReaderSilent
  <2>4. QED
    BY <1>3, <2>1, <2>2, <2>3
<1>4. ASSUME NEW s \in Streams, SendReset(s) \/ LearnOfReset(s) \/ GrantArrives(s)
      PROVE  Unseen
  <2>1. sc' = sc /\ reader' = reader
    BY <1>4 DEF SendReset, LearnOfReset, GrantArrives
  <2>2. cl = [conn |-> cl.conn, win |-> cl.win, sent |-> cl.sent, ended |-> cl.ended,
              whole |-> cl.whole, padded |-> cl.padded]
    BY <1>1, ClientFields
  <2>3. "sent" \in DOMAIN cl /\ "whole" \in DOMAIN cl
    BY <2>2
  <2>4. cl'.sent = cl.sent /\ cl'.whole = cl.whole
    BY <1>4, <2>3 DEF SendReset, LearnOfReset, GrantArrives
  <2>5. QED
    BY <2>1, <2>4 DEF Unseen
<1>5. ASSUME ProcessData \/ ProcessDataInError \/ ProcessResetStream
      PROVE  Unseen
  <2>1. reader' = reader /\ cl' = cl /\ Head(net).stream \in Streams
    BY <1>5, HeadTyped
    DEF ProcessData, ProcessDataInError, ProcessResetStream, Received, IInv
  <2>2. sc'.decl = sc.decl
    <3>1. CASE ProcessData
      BY <1>1, <3>1, TakesDecl DEF ProcessData
    <3>2. CASE ProcessDataInError
      <4> DEFINE s == Head(net).stream
      <4> DEFINE d == [sc EXCEPT !.pipe[s] = ClosePipe(@, "length")]
      <4>1. sc' = ResetStream(d, s) \/ sc' = ResetStream(sc, s)
        BY <3>2 DEF ProcessDataInError
      <4>2. "decl" \in DOMAIN d /\ d.decl = sc.decl
        BY <1>1
      <4> HIDE DEF d
      <4>3. ResetStream(d, s).decl = sc.decl
        BY <4>2 DEF ResetStream, CloseStream
      <4>4. QED
        BY <1>1, <2>1, <4>1, <4>3, DeclStays
    <3>3. CASE ProcessResetStream
      BY <1>1, <2>1, <3>3, DeclStays DEF ProcessResetStream
    <3>4. QED
      BY <1>5, <3>1, <3>2, <3>3
  <2>3. QED
    BY <2>1, <2>2 DEF Unseen
<1>6. ASSUME ConnGrantArrives PROVE Unseen
  <2>1. cl = [conn |-> cl.conn, win |-> cl.win, sent |-> cl.sent, ended |-> cl.ended,
              whole |-> cl.whole, padded |-> cl.padded]
    BY <1>1, ClientFields
  <2>2. "sent" \in DOMAIN cl /\ "whole" \in DOMAIN cl
    BY <2>1
  <2>3. cl'.sent = cl.sent /\ cl'.whole = cl.whole
    BY <1>6, <2>2 DEF ConnGrantArrives
  <2>4. sc' = sc /\ reader' = reader
    BY <1>6 DEF ConnGrantArrives
  <2>5. QED
    BY <2>3, <2>4 DEF Unseen
<1>7. ASSUME ServeEnds PROVE Unseen
  <2>1. reader' = reader /\ cl' = cl /\ sc' = End(sc, "done")
    BY <1>7 DEF ServeEnds
  <2>2. sc'.decl = sc.decl
    <3>1. "decl" \in DOMAIN sc
      BY <1>1
    <3>2. QED
      BY <2>1, <3>1 DEF End
  <2>3. QED
    BY <2>1, <2>2 DEF Unseen
<1>8. QED
  BY <1>2, <1>3, <1>4, <1>5, <1>6, <1>7

\* The bodies that are whole, and as long as declared; what their readers got, and
\* what they were told
Whole == {s \in cl.whole : sc.decl[s] \in {Undeclared, cl.sent[s]}}
Got == [s \in Streams |-> reader[s].got]
Told == [s \in Streams |-> IF reader[s].err \in {"none", "EOF", "nil"}
                           THEN reader[s].err ELSE "error"]

LEMMA ReadIsRead ==
  ASSUME IInv, NEW s \in Streams, NEW k \in 1..Window, ReadPipe(s, k)
  PROVE  Bodies!Read(s)
<1>1. PICK n \in 0..Unread(sc.pipe[s]) : ReadDone(s, n)
  BY ReadPipeDoes
<1>2. /\ sc'.decl = sc.decl
      /\ \A t \in Streams \ {s} : reader'[t] = reader[t]
      /\ reader'[s].err = (IF n = Unread(sc.pipe[s]) THEN sc.pipe[s].err ELSE "none")
      /\ reader'[s].got = reader[s].got \o [i \in 1..n |-> Len(reader[s].got) + i]
      /\ Len(reader'[s].got) = Len(reader[s].got) + n
  BY <1>1 DEF ReadDone
<1>3. /\ cl' = cl /\ reader[s].pc = "reading"
      /\ sc \in ServeType /\ cl \in ClientType /\ reader \in [Streams -> ReaderType]
      /\ StreamInv(sc, reader, cl, s)
  BY DEF ReadPipe, IInv, TypeOK
<1>4. reader[s].err = "none"
  BY <1>3 DEF StreamInv, Reading
<1>5. /\ Len(reader[s].got) \in Nat /\ Unread(sc.pipe[s]) \in Nat /\ sc.bytes[s] \in Nat
      /\ cl.sent[s] \in Nat /\ n \in Nat /\ n <= Unread(sc.pipe[s])
      /\ sc.pipe[s].err \in Errors
  <2>1. sc.pipe[s] \in PipeType /\ sc.bytes[s] \in Nat /\ reader[s] \in ReaderType
    BY <1>3, ServeFields
  <2>2. cl.sent[s] \in Nat
    BY <1>3, ClientFields
  <2>3. Len(reader[s].got) \in Nat /\ Unread(sc.pipe[s]) \in Nat /\ sc.pipe[s].err \in Errors
    BY <2>1, PipeFields, ReaderFields
  <2>4. QED
    BY <2>1, <2>2, <2>3
<1>6. /\ Len(reader[s].got) + Unread(sc.pipe[s]) = sc.bytes[s] /\ sc.bytes[s] <= cl.sent[s]
      /\ sc.pipe[s].err # "nil"
      /\ sc.pipe[s].err = "EOF" =>
           /\ s \in cl.whole /\ sc.bytes[s] = cl.sent[s]
           /\ sc.decl[s] \in {Undeclared, cl.sent[s]}
  BY <1>3 DEF StreamInv, Numbered, Ending
<1>7. n \in 0..cl.sent[s] - Len(reader[s].got)
  BY <1>5, <1>6
<1>8. Got' = [Got EXCEPT ![s] = @ \o [i \in 1..n |-> Len(@) + i]]
  <2>1. Got[s] = reader[s].got
    BY DEF Got
  <2>2. Got' = [t \in Streams |-> reader'[t].got]
    BY DEF Got
  <2>3. [Got EXCEPT ![s] = @ \o [i \in 1..n |-> Len(@) + i]]
          = [t \in Streams |-> IF t = s THEN reader[s].got
                                            \o [i \in 1..n |-> Len(reader[s].got) + i]
                               ELSE reader[t].got]
    BY DEF Got
  <2>4. \A t \in Streams : reader'[t].got = IF t = s THEN reader'[s].got ELSE reader[t].got
    BY <1>2
  <2>5. Got' = [t \in Streams |-> IF t = s THEN reader'[s].got ELSE reader[t].got]
    BY <2>2, <2>4
  <2>6. QED
    BY <1>2, <2>3, <2>5, Zenon
<1>9. Told[s] = "none"
  BY <1>4 DEF Told
<1>10. \/ Told' = Told
       \/ Told' = [Told EXCEPT ![s] = "error"]
       \/ /\ s \in Whole /\ Len(Got'[s]) = cl.sent[s]
          /\ Told' = [Told EXCEPT ![s] = "EOF"]
  <2>1. ASSUME NEW e, e = IF reader'[s].err \in {"none", "EOF", "nil"}
                          THEN reader'[s].err ELSE "error"
        PROVE  Told' = [Told EXCEPT ![s] = e]
    BY <1>2, <2>1 DEF Told
  <2>2. CASE reader'[s].err = "none"
    <3>1. Told' = [Told EXCEPT ![s] = "none"]
      BY <2>1, <2>2
    <3>2. QED
      BY <1>9, <3>1 DEF Told
  <2>3. CASE reader'[s].err = "EOF"
    <3>1. Told' = [Told EXCEPT ![s] = "EOF"]
      BY <2>1, <2>3
    <3>2. n = Unread(sc.pipe[s]) /\ sc.pipe[s].err = "EOF"
      BY <1>2, <2>3
    <3>3. s \in Whole
      BY <1>6, <3>2 DEF Whole
    <3>4. Len(reader'[s].got) = cl.sent[s]
      BY <1>2, <1>6, <3>2
    <3>5. Got'[s] = reader'[s].got
      BY DEF Got
    <3>6. QED
      BY <3>1, <3>3, <3>4, <3>5
  <2>4. CASE reader'[s].err \notin {"none", "EOF"}
    <3>1. reader'[s].err \notin {"none", "EOF", "nil"}
      BY <1>2, <1>6, <2>4
    <3>2. QED
      BY <2>1, <3>1
  <2>5. QED
    BY <2>2, <2>3, <2>4
<1>11. cl'.sent = cl.sent /\ Whole' = Whole
  BY <1>2, <1>3 DEF Whole
<1>12. Got[s] = reader[s].got
  BY DEF Got
<1>13. QED
  <2> USE DEF Whole, Got, Told
  <2>1. \E m \in 0..cl.sent[s] - Len(Got[s]) :
          Got' = [Got EXCEPT ![s] = @ \o [i \in 1..m |-> Len(@) + i]]
    <3> HIDE DEF Whole, Got, Told
    <3>1. QED
      BY <1>7, <1>8, <1>12
  <2>2. QED
    BY <1>9, <1>10, <1>11, <2>1, Zenon DEF Bodies!Read

\* What the client sends
Sending(s) ==
  /\ s \notin Whole
  /\ cl'.sent[s] >= cl.sent[s] /\ cl'.sent = [cl.sent EXCEPT ![s] = cl'.sent[s]]
  /\ Whole' \in {Whole, Whole \cup {s}}
  /\ UNCHANGED <<Got, Told>>

LEMMA SendDataIsSend ==
  ASSUME IInv, NEW s \in Streams, NEW n \in 0..MaxBody[s], NEW pad \in 0..MaxPad,
         NEW end \in BOOLEAN, SendData(s, n, pad, end)
  PROVE  Sending(s)
<1>1. /\ cl \in ClientType /\ cl.whole \subseteq cl.ended /\ s \notin cl.ended /\ n \in Nat
      /\ pad \in Nat /\ sc' = sc /\ reader' = reader
  BY SizesAssumption DEF IInv, TypeOK, SendData, MaySend
<1>2. SentMore(cl, cl', s, n, end)
  <2>1. cl' = Sent(cl, s, n, pad, end)
    BY DEF SendData, Sent
  <2>2. SentMore(cl, Sent(cl, s, n, pad, end), s, n, end)
    BY <1>1, ClientSends
  <2>3. QED
    BY <2>1, <2>2
<1>3. /\ cl' \in ClientType /\ cl'.sent[s] = cl.sent[s] + n
      /\ \A t \in Streams \ {s} : cl'.sent[t] = cl.sent[t]
      /\ cl'.whole = IF end THEN cl.whole \cup {s} ELSE cl.whole
  BY <1>2 DEF SentMore
<1>4. /\ cl.sent \in [Streams -> Nat] /\ cl'.sent \in [Streams -> Nat]
      /\ cl.whole \in SUBSET Streams
  BY <1>1, <1>3, ClientFields
<1>5. cl'.sent[s] >= cl.sent[s] /\ cl'.sent = [cl.sent EXCEPT ![s] = cl'.sent[s]]
  BY <1>1, <1>3, <1>4
<1>6. s \notin Whole
  BY <1>1 DEF Whole
<1>7. Whole' \in {Whole, Whole \cup {s}}
  <2>1. \A t \in Streams \ {s} : t \in Whole' <=> t \in Whole
    BY <1>1, <1>3 DEF Whole
  <2>2. Whole' \subseteq Streams /\ Whole \subseteq Streams
    BY <1>3, <1>4 DEF Whole
  <2>3. QED
    BY <1>6, <2>1, <2>2
<1>8. UNCHANGED <<Got, Told>>
  BY <1>1 DEF Got, Told
<1>9. QED
  BY <1>5, <1>6, <1>7, <1>8 DEF Sending

LEMMA ProcessHeadersIsSend ==
  ASSUME IInv, NEW s \in Streams, ProcessHeaders(s)
  PROVE  Sending(s)
<1>1. PICK label \in {"reading", "continue"} : Moved(reader, reader', s, label, reader[s].n)
  BY ProcessHeadersDoes
<1>2. /\ Begun(sc, sc', s) /\ cl' \in ClientType /\ cl'.sent = cl.sent
      /\ cl'.whole \in {cl.whole, cl.whole \cup {s}}
  BY ProcessHeadersDoes
<1>3. sc'.state[s] = "open" => cl'.whole = cl.whole
  BY ProcessHeadersDoes
<1>4. sc'.state[s] = "halfClosedRemote" => sc'.decl = sc.decl
  BY ProcessHeadersDoes
<1>5. cl \in ClientType /\ sc.state[s] = "idle" /\ s \notin cl.whole
  BY DEF IInv, TypeOK, ProcessHeaders, StreamInv, Fresh
<1>6. cl.sent \in [Streams -> Nat] /\ cl.whole \in SUBSET Streams
  BY <1>5, ClientFields
<1>7. cl'.sent[s] >= cl.sent[s] /\ cl'.sent = [cl.sent EXCEPT ![s] = cl'.sent[s]]
  BY <1>2, <1>6
<1>8. s \notin Whole
  BY <1>5 DEF Whole
<1>9. Whole' \in {Whole, Whole \cup {s}}
  <2>1. \A t \in Streams \ {s} : t \in Whole' <=> t \in Whole
    BY <1>2 DEF Whole, Begun
  <2>2. Whole' \subseteq Streams /\ Whole \subseteq Streams
    BY <1>2, <1>6 DEF Whole
  <2>3. QED
    BY <1>8, <2>1, <2>2
<1>10. UNCHANGED <<Got, Told>>
  <2>1. \A t \in Streams : reader'[t].got = reader[t].got /\ reader'[t].err = reader[t].err
    BY <1>1 DEF Moved
  <2>2. QED
    BY <2>1 DEF Got, Told
<1>11. QED
  BY <1>7, <1>8, <1>9, <1>10 DEF Sending

LEMMA SendingIsSend ==
  ASSUME NEW s \in Streams, Sending(s)
  PROVE  Bodies!Send(s)
  BY Zenon DEF Sending, Bodies!Send, Whole, Got, Told

LEMMA InitIsInit ==
  ASSUME Init
  PROVE  Bodies!Init
<1>1. cl.sent = [s \in Streams |-> 0] /\ cl.whole = {}
  BY DEF Init
<1>2. reader = [s \in Streams |-> [pc |-> "none", n |-> 0, err |-> "none", got |-> <<>>]]
  BY DEF Init
<1>3. Got = [s \in Streams |-> <<>>] /\ Told = [s \in Streams |-> "none"]
  BY <1>2 DEF Got, Told
<1>4. Whole = {}
  BY <1>1 DEF Whole
<1>5. QED
  BY <1>1, <1>3, <1>4, Zenon DEF Bodies!Init, Whole, Got, Told

LEMMA StepIsStep ==
  ASSUME IInv, [Next]_vars
  PROVE  [Bodies!Next]_(Bodies!vars)
<1>1. ASSUME Unseen PROVE UNCHANGED Bodies!vars
  BY <1>1, UnseenStutters
<1>2. CASE UNCHANGED vars
  <2>1. Unseen
    BY <1>2 DEF vars, Unseen
  <2>2. QED
    BY <1>1, <2>1
<1>3. ASSUME NEW s \in Streams, Reads(s) PROVE Unseen \/ Bodies!Next
  <2>1. CASE SendContinue(s) \/ WaitInPipe(s)
    BY <2>1, SilentSteps
  <2>2. ASSUME NEW k \in 1..Window, ReadPipe(s, k) PROVE Bodies!Next
    BY <2>2, ReadIsRead DEF Bodies!Next
  <2>3. QED
    BY <1>3, <2>1, <2>2 DEF Reads
<1>4. ASSUME NEW s \in Streams, Sends(s) \/ ProcessHeaders(s) PROVE Bodies!Next
  <2>1. Sending(s)
    BY <1>4, SendDataIsSend, ProcessHeadersIsSend DEF Sends
  <2>2. QED
    BY <2>1, SendingIsSend DEF Bodies!Next
<1>5. ASSUME NEW s \in Streams, \/ CloseBody(s) \/ Quit(s) \/ Respond(s)
                               \/ SendReset(s) \/ LearnOfReset(s) \/ GrantArrives(s)
      PROVE  Unseen
  BY <1>5, SilentSteps
<1>6. ASSUME Serve PROVE Unseen
  BY <1>6, SilentSteps DEF Serve
<1>7. CASE ConnGrantArrives \/ ServeEnds
  BY <1>1, <1>7, SilentSteps
<1>8. QED
  BY <1>1, <1>2, <1>3, <1>4, <1>5, <1>6, <1>7 DEF Next

\* What a handler reads of a body is what the client sent of it, in order; EOF comes
\* only after all of it, and a verdict of nil never.
THEOREM BodiesImplemented == Spec => ImplementsBodies
<1>1. Init => Bodies!Init
  BY InitIsInit
<1>2. IInv /\ [Next]_vars => [Bodies!Next]_(Bodies!vars)
  BY StepIsStep
<1>3. QED
  BY <1>1, <1>2, Invariant, PTL DEF Spec, ImplementsBodies, Bodies!Spec

---------------------------------------------------------------------------
(* Sums over finite sets, and the bytes that frames under way carry *)

LEMMA SmallestNumber ==
  ASSUME NEW T \in SUBSET Nat, T # {}
  PROVE  \E n \in T : \A m \in T : n <= m
  <1>1. IsWellFoundedOn(OpToRel(<, Nat), Nat)
    BY NatLessThanWellFounded
  <1>2. \E x \in T : \A y \in T : <<y, x>> \notin OpToRel(<, Nat)
    BY <1>1, WFMin
  <1>3. OpToRel(<, Nat) = {ss \in Nat \X Nat : ss[1] < ss[2]}
    BY DEF OpToRel
  <1>4. PICK x \in T : \A y \in T : <<y, x>> \notin {ss \in Nat \X Nat : ss[1] < ss[2]}
    BY <1>2, <1>3
  <1>5. ASSUME NEW y \in T PROVE x <= y
    <2>1. <<y, x>> \in Nat \X Nat /\ <<y, x>>[1] = y /\ <<y, x>>[2] = x
      OBVIOUS
    <2>2. ~ (y < x)
      BY <1>4, <2>1
    <2>3. x \in Nat /\ y \in Nat
      OBVIOUS
    <2> QED BY <2>2, <2>3
  <1> QED BY <1>5

LEMMA SmallestSet ==
  ASSUME NEW S, IsFiniteSet(S), NEW T \in SUBSET (SUBSET S), T # {}
  PROVE  \E U \in T : \A V \in SUBSET U : V # U => V \notin T
  <1>1. IsWellFoundedOn(StrictSubsetOrdering(S), FiniteSubsetsOf(S))
    BY FS_StrictSubsetOrderingWellFounded
  <1>2. FiniteSubsetsOf(S) = SUBSET S
    BY FS_FiniteSubsetsOfFinite
  <1>3. \E x \in T : \A y \in T : <<y, x>> \notin StrictSubsetOrdering(S)
    BY <1>1, <1>2, WFMin
  <1> QED BY <1>3 DEF StrictSubsetOrdering

Chosen(s) == CHOOSE x \in s : TRUE
Rest(s) == s \ {Chosen(s)}

Adds(f, S, g) == g = [s \in SUBSET S |-> IF s = {} THEN 0 ELSE f[Chosen(s)] + g[Rest(s)]]

LEMMA SumUnfold == ASSUME NEW f, NEW S
  PROVE SumFunctionOnSet(f, S) = (CHOOSE g : Adds(f,S,g))[S]
  BY DEF SumFunctionOnSet, FoldFunctionOnSet, MapThenFoldSet, Adds, Chosen, Rest

\* Sums exist, by induction on the size of the sets summed over
UpTo(S, n) == {s \in SUBSET S : Cardinality(s) <= n}

LEMMA SumExists ==
  ASSUME NEW S, IsFiniteSet(S), NEW f, \A x \in S : f[x] \in Int
  PROVE  \E g \in [SUBSET S -> Int] : Adds(f, S, g)
  <1> DEFINE AddsUpTo(n, g) ==
        \A s \in UpTo(S, n) : g[s] = IF s = {} THEN 0 ELSE f[Chosen(s)] + g[Rest(s)]
      Bad == {n \in Nat : ~ \E g \in [UpTo(S, n) -> Int] : AddsUpTo(n, g)}
  <1>0. \A s \in SUBSET S : /\ IsFiniteSet(s) /\ Cardinality(s) \in Nat
                            /\ s # {} => /\ Chosen(s) \in s /\ Rest(s) \in SUBSET S
                                         /\ Cardinality(Rest(s)) = Cardinality(s) - 1
    BY FS_Subset, FS_CardinalityType, FS_RemoveElement DEF Chosen, Rest
  <1>1. Bad = {}
    <2> SUFFICES ASSUME Bad # {} PROVE FALSE
      OBVIOUS
    <2>1. PICK n \in Bad : \A m \in Bad : n <= m
      <3> HIDE DEF Bad
      <3>1. Bad \subseteq Nat
        BY DEF Bad
      <3> QED BY <3>1, SmallestNumber
    <2>2. n # 0
      <3> SUFFICES ASSUME n = 0 PROVE FALSE
        OBVIOUS
      <3> DEFINE g == [s \in UpTo(S, 0) |-> 0]
      <3>1. \A s \in UpTo(S, 0) : s = {}
        BY <1>0, FS_EmptySet DEF UpTo
      <3>2. g \in [UpTo(S, 0) -> Int] /\ AddsUpTo(0, g)
        BY <3>1
      <3> QED BY <3>2
    <2>3. n - 1 \in Nat /\ n - 1 \notin Bad
      BY <2>1, <2>2
    <2>4. PICK g \in [UpTo(S, n - 1) -> Int] : AddsUpTo(n - 1, g)
      BY <2>3
    <2> DEFINE h == [s \in UpTo(S, n) |-> IF s = {} THEN 0 ELSE f[Chosen(s)] + g[Rest(s)]]
    <2>5. \A s \in UpTo(S, n) : s # {} => Rest(s) \in UpTo(S, n - 1)
      BY <1>0, <2>1 DEF UpTo
    <2>6. h \in [UpTo(S, n) -> Int]
      BY <1>0, <2>5 DEF UpTo
    <2>7. \A s \in UpTo(S, n - 1) : s \in UpTo(S, n) /\ h[s] = g[s]
      BY <1>0, <2>1, <2>4 DEF UpTo
    <2>8. AddsUpTo(n, h)
      BY <2>5, <2>7
    <2> QED BY <2>1, <2>6, <2>8
  <1>2. Cardinality(S) \in Nat /\ UpTo(S, Cardinality(S)) = SUBSET S
    BY FS_CardinalityType, FS_Subset DEF UpTo
  <1>3. PICK g \in [SUBSET S -> Int] : AddsUpTo(Cardinality(S), g)
    BY <1>1, <1>2
  <1>4. Adds(f, S, g)
    BY <1>2, <1>3 DEF Adds
  <1> QED BY <1>4

\* It does not matter within which set one adds up, only what.
LEMMA SumUnique ==
  ASSUME NEW S, IsFiniteSet(S), NEW T, IsFiniteSet(T), NEW f, NEW h,
         NEW a, Adds(f, S, a), NEW b, Adds(h, T, b), NEW U \in SUBSET (S \cap T),
         \A x \in U : f[x] = h[x]
  PROVE  a[U] = b[U]
  <1> DEFINE Bad == {s \in SUBSET U : a[s] # b[s]}
  <1> SUFFICES ASSUME Bad # {} PROVE FALSE
    OBVIOUS
  <1>1. IsFiniteSet(U)
    BY FS_Subset
  <1>2. PICK s \in Bad : \A v \in SUBSET s : v # s => v \notin Bad
    <2>1. Bad \in SUBSET (SUBSET U)
      OBVIOUS
    <2> HIDE DEF Bad
    <2> QED BY <1>1, <2>1, SmallestSet
  <1>3. s # {}
    BY <1>2 DEF Adds
  <1>4. Chosen(s) \in s /\ Rest(s) \in SUBSET s /\ Rest(s) # s
    BY <1>3 DEF Chosen, Rest
  <1>5. a[Rest(s)] = b[Rest(s)]
    BY <1>2, <1>4
  <1>6. a[s] = f[Chosen(s)] + a[Rest(s)] /\ b[s] = h[Chosen(s)] + b[Rest(s)]
    BY <1>2, <1>3 DEF Adds
  <1> QED BY <1>2, <1>4, <1>5, <1>6

SumsWithin(f, S, g) ==
  /\ g \in [SUBSET S -> Int] /\ Adds(f, S, g)
  /\ \A T \in SUBSET S : SumFunctionOnSet(f, T) = g[T]

LEMMA SumIsFunction ==
  ASSUME NEW S, IsFiniteSet(S), NEW f, \A x \in S : f[x] \in Int
  PROVE  \E g : SumsWithin(f, S, g)
  <1>1. PICK g \in [SUBSET S -> Int] : Adds(f, S, g)
    BY SumExists
  <1>2. ASSUME NEW T \in SUBSET S PROVE SumFunctionOnSet(f, T) = g[T]
    <2>1. IsFiniteSet(T)
      BY FS_Subset
    <2>2. \E b : Adds(f, T, b)
      BY <2>1, SumExists
    <2> DEFINE b == CHOOSE b : Adds(f, T, b)
    <2>3. Adds(f, T, b)
      BY <2>2
    <2> HIDE DEF b
    <2>4. g[T] = b[T]
      BY <1>1, <2>1, <2>3, SumUnique
    <2> QED BY <2>4, SumUnfold DEF b
  <1> QED BY <1>1, <1>2 DEF SumsWithin

LEMMA SumType ==
  ASSUME NEW S, IsFiniteSet(S), NEW f, \A x \in S : f[x] \in Int
  PROVE  SumFunctionOnSet(f, S) \in Int
  <1>1. PICK g : SumsWithin(f, S, g)
    BY SumIsFunction
  <1> QED BY <1>1 DEF SumsWithin

LEMMA SumEmpty ==
  ASSUME NEW f
  PROVE  SumFunctionOnSet(f, {}) = 0
  <1>1. PICK g : SumsWithin(f, {}, g)
    BY SumIsFunction, FS_EmptySet
  <1> QED BY <1>1 DEF SumsWithin, Adds

LEMMA SumSame ==
  ASSUME NEW S, IsFiniteSet(S), NEW f, NEW h, \A x \in S : f[x] = h[x] /\ f[x] \in Int
  PROVE  SumFunctionOnSet(f, S) = SumFunctionOnSet(h, S)
  <1>1. PICK a : SumsWithin(f, S, a)
    BY SumIsFunction
  <1>2. PICK b : SumsWithin(h, S, b)
    BY SumIsFunction
  <1>3. a[S] = b[S]
    BY <1>1, <1>2, SumUnique DEF SumsWithin
  <1> QED BY <1>1, <1>2, <1>3 DEF SumsWithin

\* Any of the numbers may be taken first.
LEMMA SumRemove ==
  ASSUME NEW S, IsFiniteSet(S), NEW f, \A x \in S : f[x] \in Int, NEW x \in S
  PROVE  SumFunctionOnSet(f, S) = f[x] + SumFunctionOnSet(f, S \ {x})
  <1>0. PICK g : SumsWithin(f, S, g)
    BY SumIsFunction
  <1>1. g \in [SUBSET S -> Int] /\ Adds(f, S, g)
    BY <1>0 DEF SumsWithin
  <1> DEFINE Bad == {s \in SUBSET S : \E y \in s : g[s] # f[y] + g[s \ {y}]}
  <1>2. Bad = {}
    <2> SUFFICES ASSUME Bad # {} PROVE FALSE
      OBVIOUS
    <2>1. PICK s \in Bad : \A v \in SUBSET s : v # s => v \notin Bad
      <3>1. Bad \in SUBSET (SUBSET S)
        OBVIOUS
      <3> HIDE DEF Bad
      <3> QED BY <3>1, SmallestSet
    <2>2. PICK y \in s : g[s] # f[y] + g[s \ {y}]
      BY <2>1
    <2> DEFINE c == Chosen(s)
    <2>3. c \in s /\ g[s] = f[c] + g[s \ {c}]
      BY <1>1, <2>1, <2>2 DEF Adds, Chosen, Rest
    <2> HIDE DEF c
    <2>4. c # y
      BY <2>2, <2>3
    <2>5. s \ {c} \in SUBSET s /\ s \ {c} # s /\ s \ {y} \in SUBSET s /\ s \ {y} # s
      BY <2>2, <2>3
    <2>6. y \in s \ {c} /\ c \in s \ {y}
      BY <2>2, <2>3, <2>4
    <2>7. g[s \ {c}] = f[y] + g[(s \ {c}) \ {y}]
      BY <2>1, <2>5, <2>6
    <2>8. g[s \ {y}] = f[c] + g[(s \ {y}) \ {c}]
      BY <2>1, <2>5, <2>6
    <2>9. (s \ {c}) \ {y} = (s \ {y}) \ {c}
      OBVIOUS
    <2>10. s \ {c, y} \in SUBSET S /\ (s \ {c}) \ {y} = s \ {c, y}
      BY <2>1
    <2>11. g[s \ {c, y}] \in Int /\ f[c] \in Int /\ f[y] \in Int
      BY <1>1, <2>10, <2>1, <2>2, <2>3
    <2>12. g[s \ {c}] = f[y] + g[s \ {c, y}] /\ g[s \ {y}] = f[c] + g[s \ {c, y}]
      BY <2>7, <2>8, <2>9, <2>10
    <2> DEFINE w == g[s \ {c, y}]
    <2>13. g[s] = f[c] + (f[y] + w) /\ f[y] + g[s \ {y}] = f[y] + (f[c] + w)
      BY <2>3, <2>12
    <2> HIDE DEF w
    <2>14. f[c] + (f[y] + w) = f[y] + (f[c] + w)
      BY <2>11 DEF w
    <2> QED BY <2>2, <2>13, <2>14
  <1>3. g[S] = f[x] + g[S \ {x}]
    BY <1>2
  <1> QED BY <1>0, <1>3 DEF SumsWithin

LEMMA SumZero ==
  ASSUME NEW S, IsFiniteSet(S), NEW f, \A x \in S : f[x] = 0
  PROVE  SumFunctionOnSet(f, S) = 0
  <1>1. PICK g : SumsWithin(f, S, g)
    BY SumIsFunction
  <1> DEFINE z == [s \in SUBSET S |-> 0]
  <1>2. Adds(f, S, z)
    BY DEF Adds, Chosen, Rest
  <1>3. g[S] = z[S]
    <2> HIDE DEF z
    <2> QED BY <1>1, <1>2, SumUnique DEF SumsWithin
  <1> QED BY <1>1, <1>3 DEF SumsWithin

\* The bytes of the frames of some streams
Carried(q, S) == [i \in DOMAIN q |-> IF q[i].stream \in S THEN q[i].n ELSE 0]

LEMMA CarriedType ==
  ASSUME NEW q \in Seq(FrameType), NEW S
  PROVE  /\ DOMAIN q = 1..Len(q) /\ Len(q) \in Nat /\ IsFiniteSet(DOMAIN q)
         /\ \A i \in DOMAIN q : Carried(q, S)[i] \in Int
         /\ SumFunction(Carried(q, S)) \in Int
  <1>1. DOMAIN q = 1..Len(q) /\ Len(q) \in Nat
    OBVIOUS
  <1>2. IsFiniteSet(DOMAIN q)
    BY <1>1, FS_Interval
  <1>3. ASSUME NEW i \in DOMAIN q PROVE Carried(q, S)[i] \in Int
    <2>1. q[i] \in FrameType
      OBVIOUS
    <2>2. q[i].n \in Int
      BY <2>1 DEF FrameType
    <2> QED BY <2>2 DEF Carried
  <1>4. SumFunction(Carried(q, S)) \in Int
    BY <1>2, <1>3, SumType DEF SumFunction, Carried
  <1> QED BY <1>1, <1>2, <1>3, <1>4

LEMMA CarriedNone ==
  ASSUME NEW q \in Seq(FrameType), NEW S, \A i \in DOMAIN q : q[i].stream \notin S
  PROVE  SumFunction(Carried(q, S)) = 0
  <1>1. \A i \in DOMAIN q : Carried(q, S)[i] = 0
    BY DEF Carried
  <1>2. SumFunctionOnSet(Carried(q, S), DOMAIN q) = 0
    BY <1>1, CarriedType, SumZero
  <1> QED BY <1>2 DEF SumFunction, Carried

BytesOf(f, S) == IF f.stream \in S THEN f.n ELSE 0

\* One more frame
LEMMA CarriedAppend ==
  ASSUME NEW q \in Seq(FrameType), NEW f \in FrameType, NEW S
  PROVE  SumFunction(Carried(Append(q, f), S)) = SumFunction(Carried(q, S)) + BytesOf(f, S)
  <1> DEFINE a == Append(q, f)
  <1> DEFINE n == Len(q) + 1
  <1>1. /\ a \in Seq(FrameType) /\ DOMAIN a = 1..n /\ a[n] = f /\ n \in DOMAIN a
        /\ Len(q) \in Nat /\ DOMAIN q = 1..Len(q) /\ \A i \in DOMAIN q : a[i] = q[i]
    OBVIOUS
  <1>2. DOMAIN a \ {n} = DOMAIN q
    BY <1>1
  <1>3. IsFiniteSet(DOMAIN a) /\ \A i \in DOMAIN a : Carried(a, S)[i] \in Int
    BY <1>1, CarriedType
  <1> HIDE DEF a
  <1>4. SumFunctionOnSet(Carried(a, S), DOMAIN a)
          = Carried(a, S)[n] + SumFunctionOnSet(Carried(a, S), DOMAIN a \ {n})
    BY <1>1, <1>3, SumRemove
  <1>5. SumFunctionOnSet(Carried(q, S), DOMAIN q) = SumFunctionOnSet(Carried(a, S), DOMAIN q)
    <2>1. \A i \in DOMAIN q : Carried(q, S)[i] = Carried(a, S)[i]
      BY <1>1, <1>2 DEF Carried
    <2> QED BY <2>1, CarriedType, SumSame
  <1>6. Carried(a, S)[n] = BytesOf(f, S) /\ BytesOf(f, S) \in Int
    BY <1>1, <1>3 DEF Carried, BytesOf
  <1>7. SumFunctionOnSet(Carried(q, S), DOMAIN q) \in Int
    BY CarriedType DEF SumFunction, Carried
  <1>8. DOMAIN Carried(q, S) = DOMAIN q /\ DOMAIN Carried(a, S) = DOMAIN a
    BY DEF Carried
  <1>9. SumFunctionOnSet(Carried(a, S), DOMAIN a)
          = SumFunctionOnSet(Carried(q, S), DOMAIN q) + BytesOf(f, S)
    BY <1>2, <1>4, <1>5, <1>6, <1>7
  <1> QED BY <1>8, <1>9 DEF SumFunction, a

\* One less, by induction on the number of frames
LEMMA CarriedTail ==
  ASSUME NEW q \in Seq(FrameType), q # <<>>, NEW S
  PROVE  SumFunction(Carried(q, S)) = SumFunction(Carried(Tail(q), S)) + BytesOf(Head(q), S)
  <1> DEFINE Holds(r) == SumFunction(Carried(r, S)) = SumFunction(Carried(Tail(r), S)) + BytesOf(Head(r), S)
      Bad == {n \in Nat : \E r \in Seq(FrameType) : r # <<>> /\ Len(r) = n /\ ~Holds(r)}
  <1>1. SUFFICES Bad = {}
    <2>1. Len(q) \in Nat
      OBVIOUS
    <2> QED BY <2>1
  <1> SUFFICES ASSUME Bad # {} PROVE FALSE
    OBVIOUS
  <1>2. PICK n \in Bad : \A m \in Bad : n <= m
    <2>1. Bad \in SUBSET Nat
      OBVIOUS
    <2> HIDE DEF Bad
    <2> QED BY <2>1, SmallestNumber
  <1>3. PICK r \in Seq(FrameType) : r # <<>> /\ Len(r) = n /\ ~Holds(r)
    BY <1>2
  <1> DEFINE x == r[n]
      p == SubSeq(r, 1, n - 1)
  <1>4. /\ n \in Nat /\ n > 0 /\ x \in FrameType /\ p \in Seq(FrameType)
        /\ r = Append(p, x) /\ Len(p) = n - 1
    BY <1>2, <1>3
  <1> HIDE DEF x, p, Holds
  <1>5. CASE n = 1
    <2>1. p = <<>> /\ Head(r) = x /\ Tail(r) = p
      BY <1>3, <1>4, <1>5
    <2>2. SumFunction(Carried(Append(p, x), S)) = SumFunction(Carried(p, S)) + BytesOf(x, S)
      BY <1>4, CarriedAppend
    <2>3. Holds(r)
      BY <1>4, <2>1, <2>2, Zenon DEF Holds
    <2> QED BY <1>3, <2>3
  <1>6. CASE n > 1
    <2>1. /\ p # <<>> /\ Head(r) = Head(p) /\ Tail(r) = Append(Tail(p), x)
          /\ Tail(p) \in Seq(FrameType) /\ Head(p) \in FrameType
      BY <1>4, <1>6
    <2>2. Holds(p)
      <3>1. n - 1 \notin Bad
        <4> HIDE DEF Bad
        <4> QED BY <1>2, <1>4
      <3> QED BY <1>4, <1>6, <2>1, <3>1
    <2> DEFINE u == SumFunction(Carried(Tail(p), S))
    <2>3. SumFunction(Carried(p, S)) = u + BytesOf(Head(p), S)
      BY <2>2 DEF Holds
    <2>4. /\ SumFunction(Carried(r, S)) = SumFunction(Carried(p, S)) + BytesOf(x, S)
          /\ SumFunction(Carried(Tail(r), S)) = u + BytesOf(x, S)
      <3>1. SumFunction(Carried(Append(p, x), S)) = SumFunction(Carried(p, S)) + BytesOf(x, S)
        BY <1>4, CarriedAppend
      <3>2. SumFunction(Carried(Append(Tail(p), x), S)) = u + BytesOf(x, S)
        BY <1>4, <2>1, CarriedAppend
      <3> HIDE DEF u
      <3> QED BY <1>4, <2>1, <3>1, <3>2, Zenon
    <2>5. u \in Int /\ BytesOf(x, S) \in Int /\ BytesOf(Head(p), S) \in Int
      <3>1. u \in Int
        BY <2>1, CarriedType
      <3>2. \A f \in FrameType : f.n \in Int
        BY DEF FrameType
      <3>3. x.n \in Int /\ Head(p).n \in Int
        BY <1>4, <2>1, <3>2
      <3> QED BY <3>1, <3>3 DEF BytesOf
    <2> HIDE DEF u
    <2>6. (u + BytesOf(Head(p), S)) + BytesOf(x, S) = (u + BytesOf(x, S)) + BytesOf(Head(p), S)
      BY <2>5
    <2> QED BY <1>3, <2>1, <2>3, <2>4, <2>6 DEF Holds
  <1> QED BY <1>4, <1>5, <1>6

---------------------------------------------------------------------------
(* The books of the windows: what the connection's window lacks, and by how *)
(* much the client is ahead of the server                                   *)

\* What the connection's window is short of for a stream
HeldIn(c, rd, rf) == [s \in Streams |-> Unread(c.pipe[s]) + rd[s].n + rf[s]]

LEMMA HeldType ==
  ASSUME NEW c \in ServeType, NEW rd \in [Streams -> ReaderType], NEW rf \in [Streams -> Nat]
  PROVE  /\ SumFunction(HeldIn(c, rd, rf)) = SumFunctionOnSet(HeldIn(c, rd, rf), Streams)
         /\ \A s \in Streams : /\ Unread(c.pipe[s]) \in Nat /\ rd[s].n \in Nat /\ rf[s] \in Nat
                               /\ HeldIn(c, rd, rf)[s] = Unread(c.pipe[s]) + rd[s].n + rf[s]
                               /\ HeldIn(c, rd, rf)[s] \in Int
<1>1. SumFunction(HeldIn(c, rd, rf)) = SumFunctionOnSet(HeldIn(c, rd, rf), Streams)
  BY DEF SumFunction, HeldIn
<1>2. ASSUME NEW s \in Streams
      PROVE  /\ Unread(c.pipe[s]) \in Nat /\ rd[s].n \in Nat /\ rf[s] \in Nat
             /\ HeldIn(c, rd, rf)[s] = Unread(c.pipe[s]) + rd[s].n + rf[s]
             /\ HeldIn(c, rd, rf)[s] \in Int
  <2>1. c.pipe[s] \in PipeType /\ rd[s] \in ReaderType
    BY ServeFields
  <2>2. Unread(c.pipe[s]) \in Nat /\ rd[s].n \in Nat
    BY <2>1, PipeFields, ReaderFields, SizesAssumption
  <2>3. QED
    BY <2>2 DEF HeldIn
<1>3. QED
  BY <1>1, <1>2

Held == HeldIn(sc, reader, refused)

\* What left the connection's window is with one stream, or came back from it.
ConnMoves ==
  \/ sc'.conn = sc.conn /\ \A t \in Streams : Held'[t] = Held[t]
  \/ \E s \in Streams : /\ \A t \in Streams \ {s} : Held'[t] = Held[t]
                        /\ sc'.conn + Held'[s] = sc.conn + Held[s]

LEMMA ConnKept ==
  ASSUME TypeOK, TypeOK', ConnAccounted, ConnMoves
  PROVE  ConnAccounted'
<1> DEFINE H == Held
           I == Held'
<1>1. /\ SumFunction(H) = SumFunctionOnSet(H, Streams) /\ \A s \in Streams : H[s] \in Int
      /\ SumFunction(I) = SumFunctionOnSet(I, Streams) /\ \A s \in Streams : I[s] \in Int
  BY HeldType DEF TypeOK, Held
<1>2. sc.conn + SumFunctionOnSet(H, Streams) = Window
  BY <1>1 DEF ConnAccounted, Held, HeldIn
<1>3. ConnAccounted' <=> sc'.conn + SumFunctionOnSet(I, Streams) = Window
  BY <1>1 DEF ConnAccounted, Held, HeldIn
<1>4. sc.conn \in Int /\ sc'.conn \in Int
  BY ServeFields DEF TypeOK
<1>5. CASE sc'.conn = sc.conn /\ \A t \in Streams : I[t] = H[t]
  <2> HIDE DEF H, I
  <2>1. SumFunctionOnSet(I, Streams) = SumFunctionOnSet(H, Streams)
    BY <1>1, <1>5, SumSame, StreamsAssumption
  <2>2. QED
    BY <1>2, <1>3, <1>5, <2>1
<1>6. CASE \E s \in Streams : /\ \A t \in Streams \ {s} : I[t] = H[t]
                              /\ sc'.conn + I[s] = sc.conn + H[s]
  <2>1. PICK s \in Streams : /\ \A t \in Streams \ {s} : I[t] = H[t]
                             /\ sc'.conn + I[s] = sc.conn + H[s]
    BY <1>6
  <2> HIDE DEF H, I
  <2>2. /\ SumFunctionOnSet(H, Streams) = H[s] + SumFunctionOnSet(H, Streams \ {s})
        /\ SumFunctionOnSet(I, Streams) = I[s] + SumFunctionOnSet(I, Streams \ {s})
    BY <1>1, SumRemove, StreamsAssumption
  <2>3. IsFiniteSet(Streams \ {s})
    BY FS_Subset, StreamsAssumption
  <2>4. /\ SumFunctionOnSet(H, Streams \ {s}) = SumFunctionOnSet(I, Streams \ {s})
        /\ SumFunctionOnSet(H, Streams \ {s}) \in Int
    BY <1>1, <2>1, <2>3, SumSame, SumType
  <2> DEFINE w == SumFunctionOnSet(H, Streams \ {s})
  <2>5. w \in Int /\ H[s] \in Int /\ I[s] \in Int
    BY <1>1, <2>4
  <2>6. sc.conn + (H[s] + w) = Window
    BY <1>2, <2>2
  <2>7. SumFunctionOnSet(I, Streams) = I[s] + w
    BY <2>2, <2>4
  <2> HIDE DEF w
  <2>8. sc'.conn + (I[s] + w) = Window
    BY <1>4, <2>1, <2>5, <2>6
  <2>9. QED
    BY <1>3, <2>7, <2>8
<1>7. QED
  BY <1>5, <1>6 DEF ConnMoves

\* The client's windows as they would be had it not padded
Padding == SumFunction(cl.padded)
Unpadded == cl.conn + Padding
UnpaddedOf(s) == cl.win[s] + cl.padded[s]

\* By how much the client is ahead of the server with a window, padding aside
ConnAhead == (Unpadded + grant.conn + ignored) - (sc.conn - InNet(Streams))
WinAhead(s) == (UnpaddedOf(s) + grant.win[s]) - (sc.win[s] - InNet({s}))

\* What is known of a sum when one number of it grows
LEMMA SumRaised ==
  ASSUME NEW f \in [Streams -> Int], NEW h \in [Streams -> Int], NEW s \in Streams,
         NEW n \in Int, h[s] = f[s] + n, \A t \in Streams \ {s} : h[t] = f[t]
  PROVE  SumFunction(f) \in Int /\ SumFunction(h) = SumFunction(f) + n
<1> DEFINE F == SumFunctionOnSet(f, Streams \ {s})
           H == SumFunctionOnSet(h, Streams \ {s})
<1>1. IsFiniteSet(Streams \ {s})
  BY FS_Subset, StreamsAssumption
<1>2. F \in Int
  BY <1>1, SumType
<1>3. H = F
  BY <1>1, SumSame
<1>4. SumFunction(f) = f[s] + F
  <2>1. SumFunction(f) = SumFunctionOnSet(f, Streams)
    BY DEF SumFunction
  <2>2. QED
    BY <2>1, SumRemove, StreamsAssumption
<1>5. SumFunction(h) = h[s] + H
  <2>1. SumFunction(h) = SumFunctionOnSet(h, Streams)
    BY DEF SumFunction
  <2>2. QED
    BY <2>1, SumRemove, StreamsAssumption
<1> HIDE DEF F, H
<1>6. f[s] \in Int
  OBVIOUS
<1>7. QED
  BY <1>2, <1>3, <1>4, <1>5, <1>6

LEMMA PaddingType ==
  ASSUME TypeOK
  PROVE  /\ Padding \in Int /\ Unpadded \in Int
         /\ \A s \in Streams : cl.padded[s] \in Int /\ UnpaddedOf(s) \in Int
<1>1. cl.conn \in Int /\ cl.win \in [Streams -> Int] /\ cl.padded \in [Streams -> Nat]
  BY ClientFields DEF TypeOK
<1>2. SumFunction(cl.padded) = SumFunctionOnSet(cl.padded, Streams)
  BY <1>1 DEF SumFunction
<1>3. Padding \in Int
  BY <1>1, <1>2, SumType, StreamsAssumption DEF Padding
<1>4. QED
  BY <1>1, <1>3 DEF Unpadded, UnpaddedOf

\* A client that does nothing keeps its windows.
LEMMA ClientIdle ==
  ASSUME cl'.conn = cl.conn, cl'.win = cl.win, cl'.padded = cl.padded
  PROVE  Unpadded' = Unpadded /\ \A s \in Streams : UnpaddedOf(s)' = UnpaddedOf(s)
<1>1. Padding' = Padding
  BY DEF Padding
<1>2. QED
  BY <1>1 DEF Unpadded, UnpaddedOf

\* Nothing was granted for a stream, nor was it padded.
NothingYet(s) == grant.win[s] = 0 /\ cl.padded[s] = 0

\* What ConnAccounted and WindowsAgree need to hold on
Books ==
  /\ ConnAccounted /\ WindowsAgree
  /\ \A s \in Streams : sc.state[s] = "idle" => NothingYet(s)
  /\ \A i \in DOMAIN net : net[i].kind = "reset" => net[i].n = 0

WindowsMove ==
  sc'.serve = "loop" =>
    /\ sc.serve = "loop" /\ ConnAhead' = ConnAhead
    /\ \A t \in Streams : sc'.state[t] = "open" =>
         \/ WinAhead(t)' = 0
         \/ sc.state[t] = "open" /\ WinAhead(t)' = WinAhead(t)

LEMMA InNetType ==
  ASSUME TypeOK, NEW S
  PROVE  InNet(S) = SumFunction(Carried(net, S)) /\ InNet(S) \in Int
  BY CarriedType DEF TypeOK, InNet, Carried

LEMMA AheadType ==
  ASSUME TypeOK
  PROVE  /\ Unpadded \in Int /\ grant.conn \in Int /\ ignored \in Int /\ sc.conn \in Int
         /\ ConnAhead \in Int
         /\ \A s \in Streams : /\ UnpaddedOf(s) \in Int /\ grant.win[s] \in Int
                               /\ sc.win[s] \in Int
                               /\ WinAhead(s) \in Int
         /\ WindowsAgree <=> (sc.serve = "loop" =>
              /\ ConnAhead = 0
              /\ \A s \in Streams : sc.state[s] = "open" => WinAhead(s) = 0)
<1>1. /\ Unpadded \in Int /\ grant.conn \in Int /\ ignored \in Int /\ sc.conn \in Int
      /\ InNet(Streams) \in Int /\ \A s \in Streams : InNet({s}) \in Int
      /\ \A s \in Streams : UnpaddedOf(s) \in Int /\ grant.win[s] \in Int /\ sc.win[s] \in Int
  <2>1. InNet(Streams) \in Int /\ \A s \in Streams : InNet({s}) \in Int
    BY InNetType
  <2>2. sc.conn \in Nat /\ sc.win \in [Streams -> 0..Window]
    BY ServeFields DEF TypeOK
  <2>3. Unpadded \in Int /\ \A s \in Streams : UnpaddedOf(s) \in Int
    BY PaddingType
  <2>4. QED
    BY <2>1, <2>2, <2>3, SizesAssumption DEF TypeOK
<1>2. ConnAhead \in Int /\ \A s \in Streams : WinAhead(s) \in Int
  BY <1>1 DEF ConnAhead, WinAhead
<1>3. cl.conn + grant.conn + ignored + SumFunction(cl.padded) = sc.conn - InNet(Streams)
        <=> ConnAhead = 0
  <2> DEFINE a == cl.conn
             g == grant.conn
             b == sc.conn - InNet(Streams)
             p == SumFunction(cl.padded)
  <2>1. /\ a \in Int /\ g \in Int /\ b \in Int /\ p \in Int /\ ignored \in Int
        /\ ConnAhead = ((a + p) + g + ignored) - b
    BY <1>1, PaddingType, ClientFields DEF ConnAhead, Unpadded, Padding, TypeOK
  <2> HIDE DEF a, g, b, p
  <2>2. a + g + ignored + p = b <=> ConnAhead = 0
    BY <2>1
  <2>3. QED
    BY <2>2 DEF a, g, b, p
<1>4. ASSUME NEW s \in Streams
      PROVE  cl.win[s] + grant.win[s] + cl.padded[s] = sc.win[s] - InNet({s})
               <=> WinAhead(s) = 0
  <2> DEFINE a == cl.win[s]
             g == grant.win[s]
             b == sc.win[s] - InNet({s})
             p == cl.padded[s]
  <2>1. cl.win \in [Streams -> Int]
    BY ClientFields DEF TypeOK
  <2>2. /\ a \in Int /\ g \in Int /\ b \in Int /\ p \in Int
        /\ WinAhead(s) = ((a + p) + g) - b
    BY <1>1, <2>1, PaddingType DEF WinAhead, UnpaddedOf
  <2> HIDE DEF a, g, b, p
  <2>3. a + g + p = b <=> WinAhead(s) = 0
    BY <2>2
  <2>4. QED
    BY <2>3 DEF a, g, b, p
<1>5. QED
  BY <1>1, <1>2, <1>3, <1>4 DEF WindowsAgree

LEMMA BooksKept ==
  ASSUME TypeOK, TypeOK', Books, ConnMoves, WindowsMove,
         \A t \in Streams : sc'.state[t] = "idle" => NothingYet(t)',
         \A i \in DOMAIN net' : net'[i].kind = "reset" => net'[i].n = 0
  PROVE  Books'
<1>1. ConnAccounted'
  BY ConnKept DEF Books
<1>2. WindowsAgree <=> (sc.serve = "loop" =>
        /\ ConnAhead = 0
        /\ \A s \in Streams : sc.state[s] = "open" => WinAhead(s) = 0)
  BY AheadType
<1>3. WindowsAgree' <=> (sc'.serve = "loop" =>
        /\ ConnAhead' = 0
        /\ \A s \in Streams : sc'.state[s] = "open" => WinAhead(s)' = 0)
  <2>1. (TypeOK => (WindowsAgree <=> (sc.serve = "loop" =>
          /\ ConnAhead = 0
          /\ \A s \in Streams : sc.state[s] = "open" => WinAhead(s) = 0)))'
    BY AheadType, PTL
  <2>2. QED
    BY <2>1
<1>4. WindowsAgree'
  BY <1>2, <1>3 DEF Books, WindowsMove
<1>5. QED
  BY <1>1, <1>4 DEF Books

\* Closing takes nothing from the connection's window and ends no serve.
LEMMA ClosingConn ==
  ASSUME NEW c \in ServeType, NEW s \in Streams
  PROVE  /\ ResetStream(c, s).conn = c.conn /\ ResetStream(c, s).serve = c.serve
         /\ EndBody(c, s).conn = c.conn /\ EndBody(c, s).serve = c.serve
         /\ \A err : /\ CloseStream(c, s, err).conn = c.conn
                     /\ CloseStream(c, s, err).serve = c.serve
         /\ \A why : End(c, why).conn = c.conn /\ End(c, why).serve = why
<1>1. {"conn", "serve"} \subseteq DOMAIN c
  BY DEF ServeType
<1>2. QED
  BY <1>1 DEF ResetStream, CloseStream, EndBody, End

\* One frame less, one frame more under way
LEMMA FrameTaken ==
  ASSUME TypeOK, TypeOK', net # <<>>, net' = Tail(net)
  PROVE  /\ Head(net) \in FrameType /\ Head(net).n \in Nat /\ Head(net).stream \in Streams
         /\ \A S : InNet(S)' = InNet(S) - BytesOf(Head(net), S) /\ InNet(S)' \in Int
         /\ \A i \in DOMAIN net' : i + 1 \in DOMAIN net /\ net'[i] = net[i + 1]
<1>1. net \in Seq(FrameType) /\ net' \in Seq(FrameType)
  BY DEF TypeOK
<1>2. Head(net) \in FrameType /\ Head(net).n \in Nat /\ Head(net).stream \in Streams
  BY HeadTyped
<1>3. ASSUME NEW S
      PROVE  InNet(S)' = InNet(S) - BytesOf(Head(net), S) /\ InNet(S)' \in Int
  <2>1. /\ InNet(S) = SumFunction(Carried(net, S)) /\ InNet(S) \in Int
        /\ InNet(S)' = SumFunction(Carried(net', S)) /\ SumFunction(Carried(net', S)) \in Int
    BY <1>1, CarriedType DEF InNet, Carried
  <2>2. SumFunction(Carried(net, S)) = SumFunction(Carried(net', S)) + BytesOf(Head(net), S)
    BY <1>1, CarriedTail
  <2>3. BytesOf(Head(net), S) \in Int
    BY <1>2 DEF BytesOf
  <2>4. QED
    BY <2>1, <2>2, <2>3
<1>4. ASSUME NEW i \in DOMAIN net' PROVE i + 1 \in DOMAIN net /\ net'[i] = net[i + 1]
  BY <1>1, HeadTailProperties
<1>5. QED
  BY <1>2, <1>3, <1>4

LEMMA FrameSent ==
  ASSUME TypeOK, TypeOK', NEW f \in FrameType, net' = Append(net, f)
  PROVE  /\ \A S : InNet(S)' = InNet(S) + BytesOf(f, S) /\ InNet(S) \in Int
         /\ \A i \in DOMAIN net' : net'[i] = f \/ (i \in DOMAIN net /\ net'[i] = net[i])
<1>1. net \in Seq(FrameType) /\ net' \in Seq(FrameType)
  BY DEF TypeOK
<1>2. ASSUME NEW S PROVE InNet(S)' = InNet(S) + BytesOf(f, S) /\ InNet(S) \in Int
  <2>1. /\ InNet(S) = SumFunction(Carried(net, S)) /\ InNet(S) \in Int
        /\ InNet(S)' = SumFunction(Carried(net', S))
    BY <1>1, CarriedType DEF InNet, Carried
  <2>2. SumFunction(Carried(net', S)) = SumFunction(Carried(net, S)) + BytesOf(f, S)
    BY <1>1, CarriedAppend
  <2>3. QED
    BY <2>1, <2>2
<1>3. ASSUME NEW i \in DOMAIN net'
      PROVE  net'[i] = f \/ (i \in DOMAIN net /\ net'[i] = net[i])
  BY <1>1
<1>4. QED
  BY <1>2, <1>3

\* Streams are closed: what is in their pipes stays, and no window of an open stream moves.
LEMMA ClosedHold ==
  ASSUME TypeOK, TypeOK', Books, Closes(sc, sc'), UNCHANGED <<cl, grant, refused>>,
         sc'.conn = sc.conn, \A t \in Streams : reader'[t].n = reader[t].n
  PROVE  /\ ConnMoves
         /\ \A t \in Streams : sc'.state[t] = "open" =>
              sc.state[t] = "open" /\ sc'.win[t] = sc.win[t]
         /\ \A t \in Streams : sc'.state[t] = "idle" => NothingYet(t)'
<1>1. ASSUME NEW t \in Streams PROVE Held'[t] = Held[t]
  <2>1. Unread(sc'.pipe[t]) = Unread(sc.pipe[t])
    BY DEF Closes, Unread
  <2>2. QED
    BY <2>1 DEF Held, HeldIn
<1>2. ASSUME NEW t \in Streams, sc'.state[t] = "open"
      PROVE  sc.state[t] = "open" /\ sc'.win[t] = sc.win[t]
  BY <1>2 DEF Closes
<1>3. ASSUME NEW t \in Streams, sc'.state[t] = "idle" PROVE NothingYet(t)'
  BY <1>3 DEF Closes, Books, NothingYet
<1>4. QED
  BY <1>1, <1>2, <1>3 DEF ConnMoves

LEMMA ClosingBooks ==
  ASSUME TypeOK, TypeOK', Books, Closes(sc, sc'), sc'.conn = sc.conn,
         sc'.serve = "loop" => sc.serve = "loop",
         \A t \in Streams : reader'[t].n = reader[t].n,
         UNCHANGED <<net, cl, grant, refused, ignored>>
  PROVE  Books'
<1>1. /\ ConnMoves
      /\ \A t \in Streams : sc'.state[t] = "open" =>
           sc.state[t] = "open" /\ sc'.win[t] = sc.win[t]
      /\ \A t \in Streams : sc'.state[t] = "idle" => NothingYet(t)'
  BY ClosedHold
<1>2. \A S : InNet(S)' = InNet(S)
  BY DEF InNet
<1>3. ConnAhead' = ConnAhead
  BY <1>2, ClientIdle DEF ConnAhead
<1>4. \A t \in Streams : sc'.state[t] = "open" => WinAhead(t)' = WinAhead(t)
  BY <1>1, <1>2, ClientIdle DEF WinAhead
<1>5. WindowsMove
  BY <1>1, <1>3, <1>4 DEF WindowsMove
<1>6. \A i \in DOMAIN net' : net'[i].kind = "reset" => net'[i].n = 0
  BY DEF Books
<1>7. QED
  BY <1>1, <1>5, <1>6, BooksKept

LEMMA ClosingSteps ==
  ASSUME IInv, TypeOK', Books, NEW s \in Streams,
         \/ WaitInPipe(s) \/ CloseBody(s) \/ WantContinue(s) \/ WriteContinue(s) \/ Respond(s)
  PROVE  Books'
<1>1. /\ TypeOK /\ sc \in ServeType /\ {"conn", "serve"} \subseteq DOMAIN sc
      /\ UNCHANGED <<reader, net, cl, grant, refused, ignored>>
  BY DEF IInv, TypeOK, ServeType, WaitInPipe, CloseBody, WantContinue, WriteContinue, Respond
<1>2. CASE WaitInPipe(s)
  <2>1. sc' = [sc EXCEPT !.pipe[s].waiting = TRUE]
    BY <1>2 DEF WaitInPipe
  <2>2. Closes(sc, sc') /\ sc'.conn = sc.conn /\ sc'.serve = sc.serve
    BY <1>1, <2>1, PipeWaits
  <2>3. QED
    BY <1>1, <2>2, ClosingBooks
<1>3. CASE CloseBody(s)
  <2>1. sc' = [sc EXCEPT !.pipe[s] = ClosePipe(@, "errClosedBody")] /\ sc.state[s] # "idle"
    BY <1>3 DEF CloseBody, IInv, StreamInv, Fresh
  <2>2. Closes(sc, sc')
    BY <1>1, <2>1, PipeCloses DEF Errors
  <2>3. sc'.conn = sc.conn /\ sc'.serve = sc.serve
    BY <1>1, <2>1
  <2>4. QED
    BY <1>1, <2>2, <2>3, ClosingBooks
<1>4. CASE WantContinue(s) \/ WriteContinue(s)
  <2>1. CASE sc' = End(sc, "panic")
    BY <1>1, <2>1, EndCloses, ClosingConn, ClosingBooks
  <2>2. ASSUME NEW x \in {"none", "want", "queued"}, sc' = [sc EXCEPT !.cont[s] = x]
        PROVE  Books'
    <3>1. Closes(sc, sc') /\ sc'.conn = sc.conn /\ sc'.serve = sc.serve
      BY <1>1, <2>2, ContinueCloses
    <3>2. QED
      BY <1>1, <3>1, ClosingBooks
  <2>3. QED
    BY <1>4, <2>1, <2>2 DEF WantContinue, WriteContinue
<1>5. CASE Respond(s)
  <2>1. sc.state[s] \notin {"idle", "closed"}
    BY <1>5 DEF Respond, Live
  <2>2. CASE sc.state[s] = "open"
    BY <1>1, <1>5, <2>2, ResetCloses, ClosingConn, ClosingBooks DEF Respond
  <2>3. CASE sc.state[s] # "open"
    <3>1. sc.state[s] = "halfClosedRemote"
      BY <1>1, <2>1, <2>3, ServeFields
    <3>2. sc.pipe[s].err # "none"
      BY <3>1 DEF IInv, StreamInv, Ending
    <3>3. sc' = CloseStream(sc, s, "nil")
      BY <1>5, <2>3 DEF Respond
    <3>4. Closes(sc, sc')
      BY <1>1, <2>1, <3>2, <3>3, CloseStreamCloses DEF Errors
    <3>5. sc'.conn = sc.conn /\ sc'.serve = sc.serve
      BY <1>1, <3>3, ClosingConn
    <3>6. QED
      BY <1>1, <3>4, <3>5, ClosingBooks
  <2>4. QED
    BY <2>2, <2>3
<1>6. QED
  BY <1>2, <1>3, <1>4, <1>5

LEMMA ServeEndsBooks ==
  ASSUME IInv, TypeOK', Books, ServeEnds
  PROVE  Books'
<1>1. /\ TypeOK /\ sc \in ServeType /\ sc' = End(sc, "done")
      /\ UNCHANGED <<reader, net, cl, grant, refused, ignored>>
  BY DEF IInv, TypeOK, ServeEnds
<1>2. Closes(sc, sc')
  BY <1>1, EndCloses
<1>3. sc'.conn = sc.conn /\ sc'.serve = "done"
  <2>1. {"conn", "serve"} \subseteq DOMAIN sc
    BY <1>1 DEF ServeType
  <2>2. QED
    BY <1>1, <2>1 DEF End
<1>4. QED
  BY <1>1, <1>2, <1>3, ClosingBooks

LEMMA IgnoredConn ==
  ASSUME NEW n \in Int, ignored' = ignored + n, InNet(Streams)' = InNet(Streams) - n,
         UNCHANGED <<cl, grant>>, sc'.conn = sc.conn,
         Unpadded + grant.conn \in Int, ignored \in Int, sc.conn \in Int, InNet(Streams) \in Int
  PROVE  ConnAhead' = ConnAhead
<1> DEFINE i == InNet(Streams)
           j == InNet(Streams)'
           a == Unpadded + grant.conn
<1>1. /\ ConnAhead = (a + ignored) - (sc.conn - i)
      /\ ConnAhead' = (a + ignored') - (sc.conn - j)
  BY ClientIdle DEF ConnAhead
<1>2. i \in Int /\ j = i - n /\ a \in Int
  OBVIOUS
<1> HIDE DEF i, j, a
<1>3. QED
  BY <1>1, <1>2

\* A frame that is not counted: the stream it is for is not open then, or it is empty.
LEMMA DroppedBooks ==
  ASSUME TypeOK, TypeOK', Books, Closes(sc, sc'), sc'.conn = sc.conn, sc'.serve = sc.serve,
         UNCHANGED <<reader, cl, grant, refused>>, net # <<>>, net' = Tail(net),
         ignored' = ignored + Head(net).n,
         sc'.state[Head(net).stream] # "open" \/ Head(net).n = 0
  PROVE  Books'
<1> DEFINE f == Head(net)
<1>1. /\ ConnMoves
      /\ \A t \in Streams : sc'.state[t] = "open" =>
           sc.state[t] = "open" /\ sc'.win[t] = sc.win[t]
      /\ \A t \in Streams : sc'.state[t] = "idle" => NothingYet(t)'
  BY ClosedHold
<1>2. /\ f.n \in Nat /\ f.stream \in Streams
      /\ \A S : InNet(S)' = InNet(S) - BytesOf(f, S) /\ InNet(S)' \in Int
      /\ \A i \in DOMAIN net' : i + 1 \in DOMAIN net /\ net'[i] = net[i + 1]
  BY FrameTaken
<1>3. /\ Unpadded \in Int /\ grant.conn \in Int /\ ignored \in Int /\ sc.conn \in Int
      /\ \A S : InNet(S) \in Int
  BY AheadType, InNetType
<1> HIDE DEF f
<1>4. ConnAhead' = ConnAhead
  <2>1. BytesOf(f, Streams) = f.n
    BY <1>2 DEF BytesOf
  <2>2. InNet(Streams)' = InNet(Streams) - f.n
    BY <1>2, <2>1
  <2>3. Unpadded + grant.conn \in Int /\ ignored' = ignored + f.n
    BY <1>3 DEF f
  <2>4. QED
    BY <1>2, <1>3, <2>2, <2>3, IgnoredConn
<1>5. ASSUME NEW t \in Streams, sc'.state[t] = "open" PROVE WinAhead(t)' = WinAhead(t)
  <2>1. BytesOf(f, {t}) = 0
    BY <1>5 DEF BytesOf, f
  <2>2. InNet({t})' = InNet({t})
    BY <1>2, <1>3, <2>1
  <2>3. QED
    BY <1>1, <1>5, <2>2, ClientIdle DEF WinAhead
<1>6. WindowsMove
  BY <1>1, <1>4, <1>5 DEF WindowsMove
<1>7. \A i \in DOMAIN net' : net'[i].kind = "reset" => net'[i].n = 0
  BY <1>2 DEF Books
<1>8. QED
  BY <1>1, <1>6, <1>7, BooksKept

LEMMA DroppingSteps ==
  ASSUME IInv, TypeOK', Books, ProcessDataInError \/ ProcessResetStream
  PROVE  Books'
<1> DEFINE f == Head(net)
           s == f.stream
<1>1. /\ TypeOK /\ sc \in ServeType /\ net # <<>> /\ net' = Tail(net)
      /\ UNCHANGED <<reader, cl, grant, refused>>
  BY DEF IInv, TypeOK, ProcessDataInError, ProcessResetStream, Received
<1>2. /\ f \in FrameType /\ s \in Streams /\ f.n \in Nat /\ ignored \in Nat
      /\ 1 \in DOMAIN net /\ f = net[1]
  BY <1>1, HeadTyped DEF TypeOK
<1>3. sc.state[s] # "idle"
  <2>1. 1 \in 1..Len(net)
    BY <1>1, <1>2 DEF TypeOK
  <2>2. QED
    BY <1>2, <2>1 DEF IInv, Arrives
<1>4. CASE ProcessResetStream
  <2>1. sc' = ResetStream(sc, s) /\ ignored' = ignored /\ f.kind = "reset"
    BY <1>4 DEF ProcessResetStream, Received
  <2>2. Closes(sc, sc') /\ sc'.conn = sc.conn /\ sc'.serve = sc.serve
    BY <1>1, <1>2, <2>1, ResetCloses, ClosingConn
  <2>3. f.n = 0
    BY <1>2, <2>1 DEF Books
  <2>4. ignored' = ignored + f.n
    BY <1>2, <2>1, <2>3
  <2>5. QED
    BY <1>1, <2>2, <2>3, <2>4, DroppedBooks
<1>5. CASE ProcessDataInError
  <2> DEFINE e == IF /\ sc.state[s] = "open" /\ Declared(sc, s)
                     /\ sc.bytes[s] + f.n > sc.decl[s]
                  THEN [sc EXCEPT !.pipe[s] = ClosePipe(@, "length")] ELSE sc
  <2>1. sc' = ResetStream(e, s) /\ ignored' = ignored + f.n
    BY <1>5 DEF ProcessDataInError
  <2>2. Closes(sc, e) /\ e.state = sc.state
    BY <1>1, <1>2, <1>3, PipeCloses, ClosesNothing DEF Errors
  <2>3. e.conn = sc.conn /\ e.serve = sc.serve
    BY <1>1 DEF ServeType
  <2> HIDE DEF e
  <2>4. e \in ServeType
    BY <2>2 DEF Closes
  <2>5. Closes(e, sc') /\ sc'.state[s] = "closed" /\ sc'.conn = e.conn /\ sc'.serve = e.serve
    BY <1>2, <1>3, <2>1, <2>2, <2>4, ResetCloses, ClosingConn
  <2>6. Closes(sc, sc')
    BY <2>2, <2>5, ClosesInTurn
  <2>7. QED
    BY <1>1, <2>1, <2>3, <2>5, <2>6, DroppedBooks
<1>6. QED
  BY <1>4, <1>5

LEMMA ReaderSteps ==
  ASSUME IInv, TypeOK', Books, NEW s \in Streams, SendContinue(s) \/ Quit(s)
  PROVE  Books'
<1>1. /\ TypeOK /\ sc \in ServeType /\ {"conn", "serve"} \subseteq DOMAIN sc
      /\ reader \in [Streams -> ReaderType] /\ sc' \in ServeType
      /\ UNCHANGED <<net, cl, grant, refused, ignored>>
  BY DEF IInv, TypeOK, ServeType, SendContinue, Quit
<1>2. PICK label \in {"reading", "ended"} : reader' = [reader EXCEPT ![s].pc = label]
  BY DEF SendContinue, Quit, Goto
<1>3. Moved(reader, [reader EXCEPT ![s].pc = label], s, label, reader[s].n)
  BY <1>1, ReaderGoes
<1>4. \A t \in Streams : reader'[t].n = reader[t].n
  BY <1>2, <1>3 DEF Moved
<1>5. CASE sc' = sc
  <2>1. Closes(sc, sc')
    BY <1>1, <1>5, ClosesNothing
  <2>2. QED
    BY <1>1, <1>4, <1>5, <2>1, ClosingBooks
<1>6. CASE sc' = [sc EXCEPT !.cont[s] = "want"]
  <2>1. Closes(sc, sc') /\ sc'.conn = sc.conn /\ sc'.serve = sc.serve
    BY <1>1, <1>6, ContinueCloses
  <2>2. QED
    BY <1>1, <1>4, <2>1, ClosingBooks
<1>7. QED
  BY <1>5, <1>6 DEF SendContinue, Quit

\* What the reader takes is with it.
LEMMA ReadPipeBooks ==
  ASSUME IInv, TypeOK', Books, NEW s \in Streams, NEW k \in 1..Window, ReadPipe(s, k)
  PROVE  Books'
<1>1. PICK n \in 0..Unread(sc.pipe[s]) : ReadDone(s, n)
  BY ReadPipeDoes
<1>2. /\ TypeOK /\ sc \in ServeType /\ {"conn", "serve", "pipe"} \subseteq DOMAIN sc
      /\ reader \in [Streams -> ReaderType]
      /\ UNCHANGED <<net, cl, grant, refused, ignored>> /\ reader[s].pc = "reading"
  BY DEF IInv, TypeOK, ServeType, ReadPipe
<1>3. reader[s].n = 0
  BY <1>2 DEF IInv, StreamInv, Reading
<1>4. sc'.conn = sc.conn /\ sc'.serve = sc.serve
  BY <1>2 DEF ReadPipe
<1>5. ASSUME NEW t \in Streams PROVE Held'[t] = Held[t]
  <2>1. CASE t # s
    BY <1>1, <1>2, <2>1 DEF ReadDone, Held, HeldIn
  <2>2. CASE t = s
    <3>1. Unread(sc'.pipe[s]) = Unread(sc.pipe[s]) - n /\ reader'[s].n = n
      BY <1>1 DEF ReadDone
    <3>2. Unread(sc.pipe[s]) \in Nat /\ refused[s] \in Nat
      BY <1>2, HeldType DEF TypeOK
    <3>3. Held[s] = Unread(sc.pipe[s]) + 0 + refused[s]
      BY <1>3 DEF Held, HeldIn
    <3>4. Held'[s] = (Unread(sc.pipe[s]) - n) + n + refused[s]
      BY <1>2, <3>1 DEF Held, HeldIn
    <3>5. QED
      BY <2>2, <3>2, <3>3, <3>4
  <2>3. QED
    BY <2>1, <2>2
<1>6. ConnMoves
  BY <1>4, <1>5 DEF ConnMoves
<1>7. /\ sc'.state = sc.state /\ sc'.win = sc.win
      /\ \A S : InNet(S)' = InNet(S)
  BY <1>1, <1>2 DEF ReadDone, InNet
<1>8. ConnAhead' = ConnAhead /\ \A t \in Streams : WinAhead(t)' = WinAhead(t)
  BY <1>2, <1>4, <1>7, ClientIdle DEF ConnAhead, WinAhead
<1>9. WindowsMove
  BY <1>4, <1>7, <1>8 DEF WindowsMove
<1>10. \A t \in Streams : sc'.state[t] = "idle" => NothingYet(t)'
  BY <1>2, <1>7 DEF Books, NothingYet
<1>11. QED
  BY <1>2, <1>6, <1>9, <1>10, BooksKept DEF Books

LEMMA ClientAhead ==
  ASSUME TypeOK, TypeOK', sc' = sc, ignored' = ignored,
         (Unpadded' + grant'.conn) + InNet(Streams)' = (Unpadded + grant.conn) + InNet(Streams)
  PROVE  ConnAhead' = ConnAhead
<1>1. /\ Unpadded \in Int /\ grant.conn \in Int /\ ignored \in Int /\ sc.conn \in Int
      /\ InNet(Streams) \in Int
  BY AheadType, InNetType
<1>2. Unpadded' \in Int /\ grant'.conn \in Int
  <2>1. (TypeOK => Unpadded \in Int)'
    BY PaddingType, PTL
  <2>2. QED
    BY <2>1 DEF TypeOK
<1>3. InNet(Streams)' \in Int
  <2>1. net' \in Seq(FrameType)
    BY DEF TypeOK
  <2>2. QED
    BY <2>1, CarriedType DEF InNet, Carried
<1> DEFINE i == InNet(Streams)
           j == InNet(Streams)'
           a == Unpadded + grant.conn
           b == Unpadded' + grant'.conn
<1>4. /\ ConnAhead = (a + ignored) - (sc.conn - i)
      /\ ConnAhead' = (b + ignored) - (sc.conn - j)
  BY DEF ConnAhead
<1>5. i \in Int /\ j \in Int /\ a \in Int /\ b \in Int /\ b + j = a + i
  BY <1>1, <1>2, <1>3
<1> HIDE DEF i, j, a, b
<1>6. ConnAhead = (a + i) + (ignored - sc.conn)
  BY <1>1, <1>4, <1>5
<1>7. ConnAhead' = (b + j) + (ignored - sc.conn)
  BY <1>1, <1>4, <1>5
<1>8. QED
  BY <1>5, <1>6, <1>7, Zenon

LEMMA ClientAheadOn ==
  ASSUME TypeOK, TypeOK', sc' = sc, NEW s \in Streams,
         (UnpaddedOf(s)' + grant'.win[s]) + InNet({s})' = (UnpaddedOf(s) + grant.win[s]) + InNet({s})
  PROVE  WinAhead(s)' = WinAhead(s)
<1>1. /\ UnpaddedOf(s) \in Int /\ grant.win[s] \in Int /\ sc.win[s] \in Int /\ InNet({s}) \in Int
  BY AheadType, InNetType
<1>2. UnpaddedOf(s)' \in Int /\ grant'.win[s] \in Int
  <2>1. cl'.win[s] \in Int /\ cl'.padded[s] \in Int /\ grant'.win[s] \in Int
    BY DEF TypeOK, ClientType
  <2>2. QED
    BY <2>1 DEF UnpaddedOf
<1>3. InNet({s})' \in Int
  <2>1. net' \in Seq(FrameType)
    BY DEF TypeOK
  <2>2. QED
    BY <2>1, CarriedType DEF InNet, Carried
<1> DEFINE i == InNet({s})
           j == InNet({s})'
           a == UnpaddedOf(s) + grant.win[s]
           b == UnpaddedOf(s)' + grant'.win[s]
<1>4. /\ WinAhead(s) = a - (sc.win[s] - i)
      /\ WinAhead(s)' = b - (sc.win[s] - j)
  BY DEF WinAhead
<1>5. i \in Int /\ j \in Int /\ a \in Int /\ b \in Int /\ b + j = a + i
  BY <1>1, <1>2, <1>3
<1> HIDE DEF i, j, a, b
<1>6. QED
  BY <1>1, <1>4, <1>5

\* The client sends what it may send less, and may send what it is granted more.
LEMMA ClientBooks ==
  ASSUME TypeOK, TypeOK', Books, UNCHANGED <<sc, reader, refused, ignored>>,
         (Unpadded' + grant'.conn) + InNet(Streams)' = (Unpadded + grant.conn) + InNet(Streams),
         \A t \in Streams :
           /\ (UnpaddedOf(t)' + grant'.win[t]) + InNet({t})'
                = (UnpaddedOf(t) + grant.win[t]) + InNet({t})
           /\ grant'.win[t] \in {grant.win[t], 0}
           /\ sc.state[t] = "idle" => cl'.padded[t] = cl.padded[t],
         \A i \in DOMAIN net' : net'[i].kind = "reset" => net'[i].n = 0
  PROVE  Books'
<1>1. ConnMoves
  BY DEF ConnMoves, Held
<1>2. ConnAhead' = ConnAhead /\ \A t \in Streams : WinAhead(t)' = WinAhead(t)
  BY ClientAhead, ClientAheadOn
<1>3. WindowsMove
  BY <1>2 DEF WindowsMove
<1>4. \A t \in Streams : sc'.state[t] = "idle" => NothingYet(t)'
  BY DEF Books, NothingYet
<1>5. QED
  BY <1>1, <1>3, <1>4, BooksKept

LEMMA ClientRecord ==
  ASSUME TypeOK
  PROVE  /\ DOMAIN cl = {"conn", "win", "sent", "ended", "whole", "padded"}
         /\ DOMAIN cl.win = Streams /\ cl.conn \in Int /\ (\A t \in Streams : cl.win[t] \in Int)
         /\ cl.padded \in [Streams -> Int]
         /\ DOMAIN grant = {"conn", "win"} /\ DOMAIN grant.win = Streams
         /\ grant.conn \in Int /\ \A t \in Streams : grant.win[t] \in Int
  BY DEF TypeOK, ClientType

LEMMA SendingBooks ==
  ASSUME TypeOK, TypeOK', Books, UNCHANGED <<sc, reader, grant, refused, ignored>>,
         NEW f \in FrameType, net' = Append(net, f), f.kind = "reset" => f.n = 0,
         NEW pad \in Int,
         cl'.conn = cl.conn - (f.n + pad),
         cl'.win[f.stream] = cl.win[f.stream] - (f.n + pad),
         cl'.padded[f.stream] = cl.padded[f.stream] + pad,
         sc.state[f.stream] # "idle" \/ pad = 0,
         \A t \in Streams \ {f.stream} :
           cl'.win[t] = cl.win[t] /\ cl'.padded[t] = cl.padded[t]
  PROVE  Books'
<1>1. /\ cl.conn \in Int /\ \A t \in Streams : cl.win[t] \in Int
      /\ grant.conn \in Int /\ \A t \in Streams : grant.win[t] \in Int
      /\ cl.padded \in [Streams -> Int]
  BY ClientRecord
<1>2. f.n \in Int /\ f.stream \in Streams
  BY DEF FrameType
<1>3. \A S : InNet(S)' = InNet(S) + BytesOf(f, S) /\ InNet(S) \in Int
  BY FrameSent
<1>4. Unpadded \in Int /\ Unpadded' = Unpadded - f.n
  <2>1. cl'.padded \in [Streams -> Int]
    BY DEF TypeOK, ClientType
  <2>2. Padding \in Int /\ Padding' = Padding + pad
    <3> DEFINE p == cl.padded
               q == cl'.padded
               s == f.stream
    <3>1. /\ p \in [Streams -> Int] /\ q \in [Streams -> Int] /\ s \in Streams
          /\ q[s] = p[s] + pad /\ \A t \in Streams \ {s} : q[t] = p[t]
      BY <1>1, <1>2, <2>1
    <3>2. Padding = SumFunction(p) /\ Padding' = SumFunction(q)
      BY DEF Padding
    <3> HIDE DEF p, q, s
    <3>3. SumFunction(p) \in Int /\ SumFunction(q) = SumFunction(p) + pad
      BY <3>1, SumRaised
    <3>4. QED
      BY <3>2, <3>3
  <2>3. Unpadded = cl.conn + Padding /\ Unpadded' = (cl.conn - (f.n + pad)) + (Padding + pad)
    BY <2>2 DEF Unpadded
  <2>4. QED
    BY <1>1, <1>2, <2>2, <2>3
<1>5. ASSUME NEW t \in Streams
      PROVE  /\ UnpaddedOf(t) \in Int
             /\ UnpaddedOf(t)' = UnpaddedOf(t) - (IF f.stream = t THEN f.n ELSE 0)
  <2>1. cl.win[t] \in Int /\ cl.padded[t] \in Int
    BY <1>1
  <2>2. CASE t = f.stream
    <3>1. /\ UnpaddedOf(t) = cl.win[t] + cl.padded[t]
          /\ UnpaddedOf(t)' = (cl.win[t] - (f.n + pad)) + (cl.padded[t] + pad)
      BY <2>2 DEF UnpaddedOf
    <3>2. QED
      BY <1>2, <2>1, <2>2, <3>1
  <2>3. CASE t # f.stream
    BY <2>1, <2>3 DEF UnpaddedOf
  <2>4. QED
    BY <2>2, <2>3
<1>6. (Unpadded' + grant'.conn) + InNet(Streams)' = (Unpadded + grant.conn) + InNet(Streams)
  <2>1. InNet(Streams)' = InNet(Streams) + f.n /\ InNet(Streams) \in Int
    BY <1>2, <1>3 DEF BytesOf
  <2> DEFINE i == InNet(Streams)
             u == Unpadded
  <2>2. /\ i \in Int /\ u \in Int /\ InNet(Streams)' = i + f.n /\ Unpadded' = u - f.n
        /\ grant'.conn = grant.conn
    BY <1>4, <2>1
  <2> HIDE DEF i, u
  <2>3. ((u - f.n) + grant.conn) + (i + f.n) = (u + grant.conn) + i
    BY <1>1, <1>2, <2>2
  <2>4. QED
    BY <2>2, <2>3 DEF i, u
<1>7. ASSUME NEW t \in Streams
      PROVE  (UnpaddedOf(t)' + grant'.win[t]) + InNet({t})'
               = (UnpaddedOf(t) + grant.win[t]) + InNet({t})
  <2>1. InNet({t})' = InNet({t}) + (IF f.stream = t THEN f.n ELSE 0) /\ InNet({t}) \in Int
    BY <1>2, <1>3 DEF BytesOf
  <2> DEFINE i == InNet({t})
             u == UnpaddedOf(t)
             d == IF f.stream = t THEN f.n ELSE 0
  <2>2. /\ i \in Int /\ u \in Int /\ d \in Int /\ grant.win[t] \in Int
        /\ InNet({t})' = i + d /\ UnpaddedOf(t)' = u - d /\ grant'.win[t] = grant.win[t]
    BY <1>1, <1>2, <1>5, <2>1
  <2> HIDE DEF i, u, d
  <2>3. ((u - d) + grant.win[t]) + (i + d) = (u + grant.win[t]) + i
    BY <2>2
  <2>4. QED
    BY <2>2, <2>3 DEF i, u
<1>8. \A i \in DOMAIN net' : net'[i].kind = "reset" => net'[i].n = 0
  BY FrameSent DEF Books
<1>9. ASSUME NEW t \in Streams, sc.state[t] = "idle"
      PROVE  cl'.padded[t] = cl.padded[t]
  <2>1. cl.padded[t] \in Int
    BY <1>1
  <2>2. QED
    BY <1>9, <2>1
<1>10. QED
  BY <1>6, <1>7, <1>8, <1>9, ClientBooks

LEMMA ClientSteps ==
  ASSUME IInv, TypeOK', Books, NEW s \in Streams,
         SendReset(s) \/ LearnOfReset(s) \/ GrantArrives(s)
  PROVE  Books'
<1>1. /\ TypeOK /\ UNCHANGED <<sc, reader, refused, ignored>>
      /\ DOMAIN cl = {"conn", "win", "sent", "ended", "whole", "padded"}
      /\ DOMAIN cl.win = Streams /\ cl.conn \in Int /\ (\A t \in Streams : cl.win[t] \in Int)
      /\ cl.padded \in [Streams -> Int]
      /\ DOMAIN grant = {"conn", "win"} /\ DOMAIN grant.win = Streams
      /\ grant.conn \in Int /\ \A t \in Streams : grant.win[t] \in Int
  BY ClientRecord DEF IInv, SendReset, LearnOfReset, GrantArrives
<1>2. CASE SendReset(s)
  <2> DEFINE f == [kind |-> "reset", stream |-> s, at |-> 0, n |-> 0, end |-> FALSE]
  <2>1. f \in FrameType /\ f.n = 0
    BY DEF FrameType
  <2>2. /\ net' = Append(net, f) /\ grant' = grant /\ cl'.conn = cl.conn /\ cl'.win = cl.win
        /\ cl'.padded = cl.padded
    BY <1>1, <1>2 DEF SendReset
  <2> HIDE DEF f
  <2>3. /\ cl'.conn = cl.conn - (f.n + 0)
        /\ \A t \in Streams : /\ cl'.win[t] = cl.win[t] - (f.n + 0)
                              /\ cl'.padded[t] = cl.padded[t] + 0
    BY <1>1, <2>1, <2>2
  <2>4. f.stream \in Streams
    BY <2>1 DEF FrameType
  <2>5. \A t \in Streams \ {f.stream} :
          cl'.win[t] = cl.win[t] /\ cl'.padded[t] = cl.padded[t]
    BY <2>2
  <2>6. QED
    BY <1>1, <2>1, <2>2, <2>3, <2>4, <2>5, SendingBooks
<1>3. CASE LearnOfReset(s)
  <2>1. /\ net' = net /\ grant' = grant /\ cl'.conn = cl.conn /\ cl'.win = cl.win
        /\ cl'.padded = cl.padded
    BY <1>1, <1>3 DEF LearnOfReset
  <2>2. /\ \A S : InNet(S)' = InNet(S)
        /\ Unpadded' = Unpadded /\ \A t \in Streams : UnpaddedOf(t)' = UnpaddedOf(t)
    BY <2>1, ClientIdle DEF InNet
  <2>3. QED
    BY <1>1, <2>1, <2>2, ClientBooks DEF Books
<1>4. CASE GrantArrives(s)
  <2>1. /\ net' = net /\ cl'.conn = cl.conn /\ grant'.conn = grant.conn
        /\ cl'.padded = cl.padded
        /\ \A t \in Streams : /\ cl'.win[t] = cl.win[t] + (IF t = s THEN grant.win[s] ELSE 0)
                              /\ grant'.win[t] = IF t = s THEN 0 ELSE grant.win[t]
    BY <1>1, <1>4 DEF GrantArrives
  <2>2. \A S : InNet(S)' = InNet(S)
    BY <2>1 DEF InNet
  <2>3. /\ Unpadded' = Unpadded
        /\ \A t \in Streams : UnpaddedOf(t)' + grant'.win[t] = UnpaddedOf(t) + grant.win[t]
    <3>1. Padding' = Padding
      BY <2>1 DEF Padding
    <3>2. ASSUME NEW t \in Streams
          PROVE  UnpaddedOf(t)' + grant'.win[t] = UnpaddedOf(t) + grant.win[t]
      <4>1. /\ UnpaddedOf(t) = cl.win[t] + cl.padded[t]
            /\ UnpaddedOf(t)' = cl'.win[t] + cl.padded[t]
        BY <2>1 DEF UnpaddedOf
      <4>2. cl.win[t] \in Int /\ cl.padded[t] \in Int /\ grant.win[t] \in Int
        BY <1>1
      <4>3. QED
        BY <2>1, <4>1, <4>2
    <3>3. QED
      BY <2>1, <3>1, <3>2 DEF Unpadded
  <2>4. \A t \in Streams : grant'.win[t] \in {grant.win[t], 0}
    BY <2>1
  <2>5. QED
    BY <1>1, <2>1, <2>2, <2>3, <2>4, ClientBooks DEF Books
<1>5. QED
  BY <1>2, <1>3, <1>4

LEMMA ConnGrantBooks ==
  ASSUME IInv, TypeOK', Books, ConnGrantArrives
  PROVE  Books'
<1>1. /\ TypeOK /\ UNCHANGED <<sc, reader, refused, ignored>>
      /\ DOMAIN cl = {"conn", "win", "sent", "ended", "whole", "padded"}
      /\ DOMAIN cl.win = Streams /\ cl.conn \in Int /\ (\A t \in Streams : cl.win[t] \in Int)
      /\ cl.padded \in [Streams -> Int]
      /\ DOMAIN grant = {"conn", "win"} /\ DOMAIN grant.win = Streams
      /\ grant.conn \in Int /\ \A t \in Streams : grant.win[t] \in Int
  BY ClientRecord DEF IInv, ConnGrantArrives
<1>2. /\ net' = net /\ cl'.conn = cl.conn + grant.conn /\ grant'.conn = 0
      /\ cl'.win = cl.win /\ grant'.win = grant.win /\ cl'.padded = cl.padded
  BY <1>1 DEF ConnGrantArrives
<1>3. \A S : InNet(S)' = InNet(S)
  BY <1>2 DEF InNet
<1>4. /\ Unpadded' + grant'.conn = Unpadded + grant.conn
      /\ \A t \in Streams : UnpaddedOf(t)' = UnpaddedOf(t)
  <2>1. Padding' = Padding
    BY <1>2 DEF Padding
  <2>2. Unpadded = cl.conn + Padding /\ Unpadded' = (cl.conn + grant.conn) + Padding
    BY <1>2, <2>1 DEF Unpadded
  <2>3. Padding \in Int
    BY <1>1, PaddingType
  <2>4. Unpadded' + grant'.conn = Unpadded + grant.conn
    BY <1>1, <1>2, <2>2, <2>3
  <2>5. QED
    BY <1>2, <2>4 DEF UnpaddedOf
<1>5. QED
  BY <1>1, <1>2, <1>3, <1>4, ClientBooks DEF Books

LEMMA SendDataBooks ==
  ASSUME IInv, TypeOK', Books, NEW s \in Streams, NEW n \in 0..MaxBody[s], NEW pad \in 0..MaxPad,
         NEW end \in BOOLEAN, SendData(s, n, pad, end)
  PROVE  Books'
<1> DEFINE f == [kind |-> "data", stream |-> s, at |-> cl.sent[s], n |-> n, end |-> end]
<1>1. /\ TypeOK /\ UNCHANGED <<sc, reader, grant, refused, ignored>> /\ net' = Append(net, f)
      /\ DOMAIN cl = {"conn", "win", "sent", "ended", "whole", "padded"}
      /\ DOMAIN cl.win = Streams /\ DOMAIN cl.padded = Streams /\ pad \in Int /\ n \in Nat
      /\ sc.state[s] # "idle"
  BY ClientRecord, SizesAssumption DEF IInv, SendData, MaySend
<1>2. f \in FrameType
  <2>1. cl.sent[s] \in Nat /\ n \in Nat
    BY <1>1, SizesAssumption DEF TypeOK, ClientType
  <2>2. QED
    BY <2>1 DEF FrameType
<1>3. /\ cl'.conn = cl.conn - (n + pad)
      /\ cl'.win = [cl.win EXCEPT ![s] = @ - (n + pad)]
      /\ cl'.padded = [cl.padded EXCEPT ![s] = @ + pad]
  BY <1>1 DEF SendData
<1>4. /\ cl'.win[s] = cl.win[s] - (n + pad) /\ cl'.padded[s] = cl.padded[s] + pad
      /\ \A t \in Streams \ {s} : cl'.win[t] = cl.win[t] /\ cl'.padded[t] = cl.padded[t]
  BY <1>1, <1>3
<1>5. f.kind = "data" /\ f.stream = s /\ f.n = n
  OBVIOUS
<1> HIDE DEF f
<1>6. /\ cl'.win[f.stream] = cl.win[f.stream] - (f.n + pad)
      /\ cl'.padded[f.stream] = cl.padded[f.stream] + pad
      /\ \A t \in Streams \ {f.stream} : cl'.win[t] = cl.win[t] /\ cl'.padded[t] = cl.padded[t]
      /\ cl'.conn = cl.conn - (f.n + pad)
      /\ sc.state[f.stream] # "idle" \/ pad = 0
      /\ f.kind = "reset" => f.n = 0
  BY <1>1, <1>3, <1>4, <1>5
<1>7. QED
  BY <1>1, <1>2, <1>6, SendingBooks

\* Room that is given back is granted to the client.
LEMMA NoteBodyReadBooks ==
  ASSUME IInv, IInv', Books, NEW s \in Streams, NoteBodyRead(s)
  PROVE  Books'
<1> DEFINE n == reader[s].n
           pc == IF reader[s].err = "none" THEN "reading" ELSE "ended"
           open == sc.state[s] = "open"
<1>1. /\ TypeOK /\ TypeOK' /\ sc \in ServeType /\ reader \in [Streams -> ReaderType]
      /\ DOMAIN sc = {"serve", "conn", "reset", "state", "win", "bytes", "decl", "cont", "pipe"}
      /\ DOMAIN sc.win = Streams /\ n \in 0..Window /\ n \in Int
      /\ sc.state[s] # "idle" /\ UNCHANGED <<net, cl, refused, ignored>>
  <2>1. TypeOK /\ TypeOK' /\ StreamInv(sc, reader, cl, s)
    BY DEF IInv
  <2>2. sc \in ServeType /\ reader \in [Streams -> ReaderType]
    BY <2>1 DEF TypeOK
  <2>3. reader[s].pc = "noting" /\ UNCHANGED <<net, cl, refused, ignored>>
    BY DEF NoteBodyRead
  <2>4. sc.state[s] # "idle"
    BY <2>1, <2>3 DEF StreamInv, Fresh
  <2>5. /\ DOMAIN sc = {"serve", "conn", "reset", "state", "win", "bytes", "decl", "cont", "pipe"}
        /\ DOMAIN sc.win = Streams
    BY <2>2 DEF ServeType
  <2>6. reader[s] \in ReaderType
    BY <2>2
  <2>7. n \in 0..Window
    BY <2>6 DEF ReaderType
  <2>8. n \in Int
    BY <2>7, SizesAssumption
  <2>9. QED
    BY <2>1, <2>2, <2>3, <2>4, <2>5, <2>7, <2>8
<1>2. /\ DOMAIN grant = {"conn", "win"} /\ DOMAIN grant.win = Streams
      /\ grant.conn \in Int /\ \A t \in Streams : grant.win[t] \in Int
  BY <1>1, ClientRecord
<1>3. \A t \in Streams \ {s} : reader'[t] = reader[t]
  BY <1>1 DEF NoteBodyRead
<1>4. reader'[s].n = 0
  <2>1. reader' = [reader EXCEPT ![s] = [@ EXCEPT !.n = 0, !.pc = pc]]
    BY DEF NoteBodyRead
  <2>2. pc \in {"none", "continue", "reading", "noting", "ended"} /\ 0 \in 0..Window
    BY SizesAssumption
  <2> HIDE DEF pc
  <2>3. Moved(reader, [reader EXCEPT ![s] = [@ EXCEPT !.n = 0, !.pc = pc]], s, pc, 0)
    BY <1>1, <2>2, ReaderMoves
  <2>4. QED
    BY <2>1, <2>3 DEF Moved
<1>5. /\ sc'.conn = sc.conn + n /\ sc'.serve = sc.serve /\ sc'.state = sc.state
      /\ sc'.pipe = sc.pipe
      /\ sc'.win[s] = (IF open THEN sc.win[s] + n ELSE sc.win[s])
      /\ \A t \in Streams \ {s} : sc'.win[t] = sc.win[t]
  <2>1. sc' = GiveBack(sc, s, n)
    BY DEF NoteBodyRead
  <2>2. CASE open
    BY <1>1, <2>1, <2>2 DEF GiveBack
  <2>3. CASE ~open
    BY <1>1, <2>1, <2>3 DEF GiveBack
  <2>4. QED
    BY <2>2, <2>3
<1>6. /\ grant'.conn = grant.conn + n
      /\ grant'.win[s] = (IF open THEN grant.win[s] + n ELSE grant.win[s])
      /\ \A t \in Streams \ {s} : grant'.win[t] = grant.win[t]
  BY <1>2 DEF NoteBodyRead
<1>7. ConnMoves
  <2>1. \A t \in Streams \ {s} : Held'[t] = Held[t]
    BY <1>1, <1>3, <1>5 DEF Held, HeldIn
  <2>2. Unread(sc.pipe[s]) \in Nat /\ refused[s] \in Nat /\ sc.conn \in Int
    BY <1>1, HeldType, AheadType DEF TypeOK
  <2>3. Held[s] = Unread(sc.pipe[s]) + n + refused[s]
    BY DEF Held, HeldIn
  <2>4. Held'[s] = Unread(sc.pipe[s]) + 0 + refused[s]
    BY <1>1, <1>4, <1>5 DEF Held, HeldIn
  <2>5. sc'.conn + Held'[s] = sc.conn + Held[s]
    BY <1>1, <1>5, <2>2, <2>3, <2>4
  <2>6. QED
    BY <2>1, <2>5 DEF ConnMoves
<1>8. \A S : InNet(S)' = InNet(S) /\ InNet(S) \in Int
  BY <1>1, InNetType DEF InNet
<1>9. /\ Unpadded \in Int /\ ignored \in Int /\ sc.conn \in Int
      /\ \A t \in Streams : UnpaddedOf(t) \in Int /\ sc.win[t] \in Int
  BY <1>1, AheadType
<1> HIDE DEF n
<1>10. ConnAhead' = ConnAhead
  <2>1. /\ ConnAhead = (Unpadded + grant.conn + ignored) - (sc.conn - InNet(Streams))
        /\ ConnAhead' = (Unpadded + (grant.conn + n) + ignored)
                          - ((sc.conn + n) - InNet(Streams))
    BY <1>1, <1>5, <1>6, <1>8, ClientIdle DEF ConnAhead
  <2>2. InNet(Streams) \in Int
    BY <1>8
  <2>3. QED
    BY <1>1, <1>2, <1>9, <2>1, <2>2
<1>11. ASSUME NEW t \in Streams PROVE WinAhead(t)' = WinAhead(t)
  <2>1. InNet({t}) \in Int /\ InNet({t})' = InNet({t})
    BY <1>8
  <2>2. CASE t = s /\ open
    <3>1. /\ WinAhead(t) = (UnpaddedOf(s) + grant.win[s]) - (sc.win[s] - InNet({t}))
          /\ WinAhead(t)' = (UnpaddedOf(s) + (grant.win[s] + n))
                              - ((sc.win[s] + n) - InNet({t}))
      BY <1>1, <1>5, <1>6, <2>1, <2>2, ClientIdle DEF WinAhead
    <3>2. QED
      BY <1>1, <1>2, <1>9, <2>1, <3>1
  <2>3. CASE ~(t = s /\ open)
    BY <1>1, <1>5, <1>6, <2>1, <2>3, ClientIdle DEF WinAhead
  <2>4. QED
    BY <2>2, <2>3
<1>12. WindowsMove
  BY <1>5, <1>10, <1>11 DEF WindowsMove
<1>13. \A t \in Streams : sc'.state[t] = "idle" => NothingYet(t)'
  BY <1>1, <1>5, <1>6 DEF Books, NothingYet
<1>14. \A i \in DOMAIN net' : net'[i].kind = "reset" => net'[i].n = 0
  BY <1>1 DEF Books
<1>15. QED
  BY <1>1, <1>7, <1>12, <1>13, <1>14, BooksKept

\* A new stream has its whole window, on both sides, and nothing under way.
LEMMA ProcessHeadersBooks ==
  ASSUME IInv, IInv', Books, NEW s \in Streams, ProcessHeaders(s)
  PROVE  Books'
<1>1. /\ TypeOK /\ TypeOK' /\ sc \in ServeType
      /\ DOMAIN sc = {"serve", "conn", "reset", "state", "win", "bytes", "decl", "cont", "pipe"}
      /\ sc.state[s] = "idle" /\ UNCHANGED <<net, grant, refused, ignored>>
  BY DEF IInv, TypeOK, ProcessHeaders, ServeType
<1>2. /\ DOMAIN cl = {"conn", "win", "sent", "ended", "whole", "padded"} /\ DOMAIN cl.win = Streams
  BY <1>1, ClientRecord
<1>3. PICK label \in {"reading", "continue"} : Moved(reader, reader', s, label, reader[s].n)
  BY ProcessHeadersDoes
<1>4. /\ Begun(sc, sc', s)
      /\ sc'.pipe[s].data = sc.pipe[s].data /\ sc'.pipe[s].r = sc.pipe[s].r
      /\ \/ sc'.state[s] = "open" /\ sc'.win[s] = Window
         \/ sc'.state[s] = "halfClosedRemote"
  BY ProcessHeadersDoes
<1>5. /\ sc'.conn = sc.conn /\ sc'.serve = sc.serve
      /\ cl'.conn = cl.conn /\ cl'.padded = cl.padded
      /\ \A t \in Streams \ {s} : cl'.win[t] = cl.win[t]
      /\ sc'.state[s] = "open" => cl'.win[s] = Window
  <2>1. CASE /\ \E decl \in Lengths[s] \cup {Undeclared} :
                 sc' = [sc EXCEPT !.state[s] = "open", !.win[s] = Window, !.decl[s] = decl]
             /\ cl' = [cl EXCEPT !.win[s] = Window]
    BY <1>1, <1>2, <2>1
  <2>2. CASE /\ sc' = [sc EXCEPT !.state[s] = "halfClosedRemote", !.pipe[s].err = "EOF"]
             /\ cl' = [cl EXCEPT !.ended = @ \cup {s}, !.whole = @ \cup {s}]
    <3>1. sc'.state[s] = "halfClosedRemote"
      <4>1. DOMAIN sc.state = Streams
        BY <1>1, ServeFields
      <4>2. QED
        BY <1>1, <2>2, <4>1
    <3>2. QED
      BY <1>1, <1>2, <2>2, <3>1
  <2>3. QED
    BY <2>1, <2>2 DEF ProcessHeaders
<1>6. ASSUME NEW t \in Streams PROVE Held'[t] = Held[t]
  <2>1. reader'[t].n = reader[t].n
    BY <1>3 DEF Moved
  <2>2. Unread(sc'.pipe[t]) = Unread(sc.pipe[t])
    BY <1>4 DEF Begun, Unread
  <2>3. QED
    BY <1>1, <2>1, <2>2 DEF Held, HeldIn
<1>7. ConnMoves
  BY <1>5, <1>6 DEF ConnMoves
<1>8. \A S : InNet(S)' = InNet(S)
  BY <1>1 DEF InNet
<1>9. ConnAhead' = ConnAhead
  <2>1. Unpadded' = Unpadded
    BY <1>5 DEF Unpadded, Padding
  <2>2. QED
    BY <1>1, <1>5, <1>8, <2>1 DEF ConnAhead
<1>10. ASSUME NEW t \in Streams, sc'.state[t] = "open"
       PROVE  \/ WinAhead(t)' = 0
              \/ sc.state[t] = "open" /\ WinAhead(t)' = WinAhead(t)
  <2>1. CASE t # s
    BY <1>1, <1>4, <1>5, <1>8, <1>10, <2>1 DEF WinAhead, UnpaddedOf, Begun
  <2>2. CASE t = s
    <3>1. InNet({s}) = 0
      <4>1. net \in Seq(FrameType)
        BY <1>1 DEF TypeOK
      <4>2. \A i \in DOMAIN net : net[i].stream \notin {s}
        BY <1>1, <4>1 DEF IInv, Arrives
      <4>3. QED
        BY <4>1, <4>2, CarriedNone DEF InNet, Carried
    <3>2. grant.win[s] = 0 /\ cl.padded[s] = 0
      BY <1>1 DEF Books, NothingYet
    <3>3. sc'.win[s] = Window /\ cl'.win[s] = Window
      BY <1>4, <1>5, <1>10, <2>2
    <3>4. WinAhead(s)' = ((Window + 0) + 0) - (Window - 0)
      BY <1>1, <1>5, <1>8, <3>1, <3>2, <3>3 DEF WinAhead, UnpaddedOf
    <3>5. QED
      BY <2>2, <3>4, SizesAssumption
  <2>3. QED
    BY <2>1, <2>2
<1>11. WindowsMove
  BY <1>5, <1>9, <1>10 DEF WindowsMove
<1>12. \A t \in Streams : sc'.state[t] = "idle" => NothingYet(t)'
  BY <1>1, <1>4, <1>5 DEF Begun, Books, NothingYet
<1>13. \A i \in DOMAIN net' : net'[i].kind = "reset" => net'[i].n = 0
  BY <1>1 DEF Books
<1>14. QED
  BY <1>1, <1>7, <1>11, <1>12, <1>13, BooksKept

\* What processData takes from the connection's window, and what it counts
LEMMA TakesConn ==
  ASSUME NEW c, NEW rd, NEW k, NEW f, Due(c, rd, k, f)
  PROVE  LET d == TakeData(c, f)
         IN /\ d.conn = c.conn - f.n /\ d.serve = c.serve
            /\ \A t \in Streams :
                 d.bytes[t] = c.bytes[t] + (IF t = f.stream /\ c.pipe[t].err = "none"
                                            THEN f.n ELSE 0)
            /\ \A t \in Streams : d.state[t] = "open" =>
                 /\ c.state[t] = "open"
                 /\ t = f.stream => c.pipe[t].err = "none" \/ f.n = 0
<1> DEFINE s == f.stream
           d == TakeData(c, f)
<1>1. /\ s \in Streams /\ c \in ServeType /\ c.state[s] = "open" /\ f.n \in Nat
      /\ f.n # 0 => f.n > 0
  BY DEF Due, FrameType
<1>2. c.conn \in Nat /\ c.bytes \in [Streams -> Nat]
  BY <1>1, ServeFields
<1>3. d = IF f.n = 0 THEN IF f.end THEN EndBody(c, s) ELSE c
          ELSE IF c.pipe[s].err # "none" THEN ResetStream(Taken(c, f), s)
          ELSE IF f.end THEN EndBody(Filled(c, f), s) ELSE Filled(c, f)
  BY TakesWhat
<1> HIDE DEF d
<1>4. SUFFICES /\ d.conn = c.conn - f.n /\ d.serve = c.serve
               /\ \A t \in Streams :
                    d.bytes[t] = c.bytes[t] + (IF t = s /\ c.pipe[t].err = "none"
                                               THEN f.n ELSE 0)
               /\ \A t \in Streams : d.state[t] = "open" =>
                    /\ c.state[t] = "open"
                    /\ t = s => c.pipe[t].err = "none" \/ f.n = 0
  BY DEF d
<1>5. CASE f.n = 0 /\ ~f.end
  BY <1>2, <1>3, <1>5
<1>6. CASE f.n = 0 /\ f.end
  <2>1. d = EndBody(c, s)
    BY <1>3, <1>6
  <2>2. d.conn = c.conn /\ d.serve = c.serve
    BY <1>1, <2>1, ClosingConn
  <2>3. /\ d.state[s] = "halfClosedRemote" /\ d.bytes = c.bytes
        /\ \A t \in Streams \ {s} : d.state[t] = c.state[t]
    BY <1>1, <2>1, EndBodyInv, Zenon
  <2>4. QED
    BY <1>2, <1>6, <2>2, <2>3
<1>7. CASE f.n # 0 /\ c.pipe[s].err # "none"
  <2> DEFINE e == Taken(c, f)
  <2>1. d = ResetStream(e, s) /\ e \in ServeType
    BY <1>1, <1>3, <1>7, FilledTyped
  <2>2. e.state = c.state /\ e.bytes = c.bytes /\ e.conn = c.conn - f.n /\ e.serve = c.serve
    BY DEF Taken
  <2> HIDE DEF e
  <2>3. Closes(e, d) /\ d.state[s] = "closed" /\ d.conn = e.conn /\ d.serve = e.serve
    BY <1>1, <2>1, <2>2, ResetCloses, ClosingConn
  <2>4. d.bytes = c.bytes
    BY <2>2, <2>3 DEF Closes
  <2>5. \A t \in Streams : d.state[t] = "open" => c.state[t] = "open"
    BY <2>2, <2>3 DEF Closes
  <2>6. QED
    BY <1>2, <1>7, <2>2, <2>3, <2>4, <2>5
<1>8. CASE f.n # 0 /\ c.pipe[s].err = "none"
  <2> DEFINE e == Filled(c, f)
  <2>1. e \in ServeType
    BY <1>1, <1>8, FilledTyped
  <2>2. /\ e.state = c.state /\ e.conn = c.conn - f.n /\ e.serve = c.serve
        /\ e.bytes = [c.bytes EXCEPT ![s] = @ + f.n]
    BY DEF Filled
  <2>3. \A t \in Streams : e.bytes[t] = c.bytes[t] + (IF t = s /\ c.pipe[t].err = "none"
                                                      THEN f.n ELSE 0)
    BY <1>1, <1>2, <1>8, <2>2
  <2> HIDE DEF e
  <2>4. CASE ~f.end
    <3>1. d = e
      BY <1>3, <1>8, <2>4 DEF e
    <3>2. QED
      BY <1>8, <2>2, <2>3, <3>1
  <2>5. CASE f.end
    <3>1. d = EndBody(e, s)
      BY <1>3, <1>8, <2>5 DEF e
    <3>2. /\ d.conn = e.conn /\ d.serve = e.serve
      BY <1>1, <2>1, <3>1, ClosingConn
    <3>3. /\ d.state[s] = "halfClosedRemote" /\ d.bytes = e.bytes
          /\ \A t \in Streams \ {s} : d.state[t] = e.state[t]
      BY <1>1, <2>1, <2>2, <3>1, EndBodyInv, Zenon
    <3>4. QED
      BY <2>2, <2>3, <3>2, <3>3
  <2>6. QED
    BY <2>4, <2>5
<1>9. QED
  BY <1>5, <1>6, <1>7, <1>8

\* Sums that stay the same, or grow, while one of their terms does
LEMMA GrowsAlike ==
  ASSUME NEW g \in Int, NEW u \in Int, NEW v \in Int, NEW b \in Int, NEW d \in Int,
         g + u = b, g + v = b + d
  PROVE  v = u + d
  OBVIOUS

LEMMA MakesUp ==
  ASSUME NEW w \in Int, NEW x \in Int, NEW u \in Int, NEW n \in Int, NEW d \in Int,
         w + u + n = x + (u + d) + n
  PROVE  x = w - d
  OBVIOUS

\* What is taken from the windows is in the pipe, or was refused.
LEMMA ProcessDataBooks ==
  ASSUME IInv, IInv', Books, ProcessData
  PROVE  Books'
<1> DEFINE f == Head(net)
           s == f.stream
<1>1. /\ TypeOK /\ TypeOK' /\ sc \in ServeType /\ sc' \in ServeType
      /\ reader \in [Streams -> ReaderType]
      /\ net # <<>> /\ net' = Tail(net) /\ sc' = TakeData(sc, f) /\ ~InError(f)
      /\ refused \in [Streams -> Nat]
      /\ refused' = (IF sc.pipe[s].err = "none" THEN refused
                     ELSE [refused EXCEPT ![s] = @ + f.n])
      /\ UNCHANGED <<reader, cl, grant, ignored>>
  BY DEF IInv, TypeOK, ProcessData, Received
<1>2. /\ f \in FrameType /\ s \in Streams /\ f.n \in Nat
      /\ \A S : InNet(S)' = InNet(S) - BytesOf(f, S) /\ InNet(S)' \in Int
      /\ \A i \in DOMAIN net' : i + 1 \in DOMAIN net /\ net'[i] = net[i + 1]
  BY <1>1, FrameTaken
<1>3. Due(sc, reader, cl, f)
  <2>1. sc.conn \in Nat /\ sc.win[s] \in 0..Window
    BY <1>1, <1>2, ServeFields
  <2>2. f.n > 0 => f.n <= Min({sc.win[s], sc.conn})
    <3>1. sc.win[s] \in Int /\ sc.conn \in Int /\ f.n \in Int
      BY <1>2, <2>1, SizesAssumption
    <3>2. Min({sc.win[s], sc.conn}) \in Int
      BY <3>1, MinOfTwo
    <3>3. f.n > 0 => ~(f.n > Min({sc.win[s], sc.conn}))
      BY <1>1 DEF InError, Available
    <3> DEFINE m == Min({sc.win[s], sc.conn})
               k == f.n
    <3>4. m \in Int /\ k \in Int /\ (k > 0 => ~(k > m))
      BY <3>1, <3>2, <3>3
    <3> HIDE DEF m, k
    <3>5. k > 0 => k <= m
      BY <3>4
    <3>6. QED
      BY <3>5 DEF m, k
  <2>3. f.n > 0 => f.n <= sc.conn /\ f.n <= sc.win[s]
    BY <1>2, <2>1, <2>2, MinOfTwo, SizesAssumption
  <2>4. sc.state[s] = "open" /\ StreamInv(sc, reader, cl, s)
    BY <1>1, <1>2 DEF InError, IInv
  <2>5. QED
    BY <1>1, <1>2, <2>3, <2>4 DEF Due
<1>4. /\ sc'.conn = sc.conn - f.n /\ sc'.serve = sc.serve
      /\ \A t \in Streams :
           sc'.bytes[t] = sc.bytes[t] + (IF t = s /\ sc.pipe[t].err = "none"
                                         THEN f.n ELSE 0)
      /\ \A t \in Streams : sc'.state[t] = "open" =>
           /\ sc.state[t] = "open"
           /\ t = s => sc.pipe[t].err = "none" \/ f.n = 0
  BY <1>1, <1>3, TakesConn
<1> HIDE DEF f
<1>5. ASSUME NEW t \in Streams
      PROVE  /\ Len(reader[t].got) \in Nat /\ Unread(sc.pipe[t]) \in Nat
             /\ Unread(sc'.pipe[t]) \in Nat /\ reader[t].n \in Nat
             /\ sc.bytes[t] \in Nat /\ refused[t] \in Nat
             /\ Len(reader[t].got) + Unread(sc.pipe[t]) = sc.bytes[t]
             /\ Len(reader[t].got) + Unread(sc'.pipe[t]) = sc'.bytes[t]
  <2>1. /\ sc.pipe[t] \in PipeType /\ sc'.pipe[t] \in PipeType /\ reader[t] \in ReaderType
        /\ sc.bytes[t] \in Nat
    BY <1>1, ServeFields
  <2>2. StreamInv(sc, reader, cl, t) /\ StreamInv(sc', reader, cl, t)
    BY <1>1 DEF IInv
  <2>3. QED
    BY <1>1, <2>1, <2>2, PipeFields, ReaderFields, SizesAssumption DEF StreamInv, Numbered
<1> DEFINE put(t) == IF t = s /\ sc.pipe[t].err = "none" THEN f.n ELSE 0
           lost(t) == IF t = s /\ sc.pipe[t].err # "none" THEN f.n ELSE 0
           all(t) == IF t = s THEN f.n ELSE 0
<1>6. ASSUME NEW t \in Streams
      PROVE  /\ put(t) \in Int /\ lost(t) \in Int /\ put(t) + lost(t) = all(t)
             /\ Unread(sc'.pipe[t]) = Unread(sc.pipe[t]) + put(t)
             /\ refused'[t] = refused[t] + lost(t)
  <2>1. put(t) \in Int /\ lost(t) \in Int
    BY <1>2
  <2>2. put(t) + lost(t) = all(t)
    BY <1>2
  <2>3. sc'.bytes[t] = sc.bytes[t] + put(t)
    BY <1>4
  <2>4. refused'[t] = refused[t] + lost(t)
    BY <1>1, <1>2, <1>5
  <2> HIDE DEF put, lost, all
  <2>5. Unread(sc'.pipe[t]) = Unread(sc.pipe[t]) + put(t)
    <3>1. Len(reader[t].got) + Unread(sc'.pipe[t]) = sc.bytes[t] + put(t)
      BY <1>5, <2>3, Zenon
    <3>2. /\ Len(reader[t].got) \in Int /\ Unread(sc.pipe[t]) \in Int
          /\ Unread(sc'.pipe[t]) \in Int /\ sc.bytes[t] \in Int
      BY <1>5
    <3> DEFINE g == Len(reader[t].got)
               u == Unread(sc.pipe[t])
               v == Unread(sc'.pipe[t])
               b == sc.bytes[t]
               d == put(t)
    <3>3. /\ g \in Int /\ u \in Int /\ v \in Int /\ b \in Int /\ d \in Int
          /\ g + u = b /\ g + v = b + d
      BY <1>5, <2>1, <3>1, <3>2
    <3> HIDE DEF g, u, v, b, d
    <3>4. v = u + d
      BY <3>3, GrowsAlike
    <3>5. QED
      BY <3>4 DEF u, v, d
  <2>6. QED
    BY <2>1, <2>2, <2>4, <2>5
<1>7. ASSUME NEW t \in Streams
      PROVE  Held'[t] = Held[t] + (IF t = s THEN f.n ELSE 0)
  <2>1. /\ Held[t] = Unread(sc.pipe[t]) + reader[t].n + refused[t]
        /\ Held'[t] = Unread(sc'.pipe[t]) + reader[t].n + refused'[t]
    BY <1>1 DEF Held, HeldIn
  <2> HIDE DEF put, lost, all
  <2>2. Held'[t] = Held[t] + all(t)
    BY <1>5, <1>6, <2>1
  <2>3. QED
    BY <2>2 DEF all
<1>8. sc.conn \in Int /\ \A t \in Streams : Held[t] \in Int
  BY <1>1, AheadType, HeldType DEF Held
<1>9. ConnMoves
  <2>1. \A t \in Streams \ {s} : Held'[t] = Held[t]
    BY <1>7, <1>8
  <2>2. sc'.conn + Held'[s] = sc.conn + Held[s]
    BY <1>2, <1>4, <1>7, <1>8
  <2>3. QED
    BY <1>2, <2>1, <2>2 DEF ConnMoves
<1>10. /\ Unpadded \in Int /\ grant.conn \in Int /\ ignored \in Int
       /\ \A t \in Streams : UnpaddedOf(t) \in Int /\ grant.win[t] \in Int /\ sc.win[t] \in Int
  BY <1>1, AheadType
<1>11. \A S : InNet(S) \in Int
  BY <1>1, InNetType
<1>12. ConnAhead' = ConnAhead
  <2>1. InNet(Streams)' = InNet(Streams) - f.n
    BY <1>2 DEF BytesOf
  <2>2. /\ ConnAhead = (Unpadded + grant.conn + ignored) - (sc.conn - InNet(Streams))
        /\ ConnAhead' = (Unpadded + grant.conn + ignored)
                          - ((sc.conn - f.n) - (InNet(Streams) - f.n))
    BY <1>1, <1>4, <2>1, ClientIdle DEF ConnAhead
  <2>3. (sc.conn - f.n) - (InNet(Streams) - f.n) = sc.conn - InNet(Streams)
    BY <1>2, <1>8, <1>11
  <2>4. QED
    BY <2>2, <2>3, Zenon
<1>13. ASSUME NEW t \in Streams, sc'.state[t] = "open"
       PROVE  sc.state[t] = "open" /\ WinAhead(t)' = WinAhead(t)
  <2>1. sc.state[t] = "open"
    BY <1>4, <1>13
  <2>2. /\ sc.win[t] + Unread(sc.pipe[t]) + reader[t].n = Window
        /\ sc'.win[t] + Unread(sc'.pipe[t]) + reader[t].n = Window
    BY <1>1, <1>13, <2>1 DEF IInv, StreamInv, Account
  <2>3. sc'.win[t] \in Int
    <3>1. sc'.win[t] \in 0..Window
      BY <1>1, ServeFields
    <3>2. QED
      BY <3>1, SizesAssumption
  <2>4. sc'.win[t] = sc.win[t] - (IF t = s THEN f.n ELSE 0)
    <3>1. /\ all(t) \in Int /\ Unread(sc'.pipe[t]) = Unread(sc.pipe[t]) + all(t)
      BY <1>2, <1>4, <1>6, <1>13
    <3>2. sc.win[t] \in Int /\ Window \in Int
      BY <1>10, SizesAssumption
    <3> HIDE DEF all
    <3>3. sc'.win[t] = sc.win[t] - all(t)
      <4>1. sc.win[t] + Unread(sc.pipe[t]) + reader[t].n
              = sc'.win[t] + (Unread(sc.pipe[t]) + all(t)) + reader[t].n
        BY <2>2, <3>1, Zenon
      <4>2. Unread(sc.pipe[t]) \in Int /\ reader[t].n \in Int
        BY <1>5
      <4> DEFINE w == sc.win[t]
                 x == sc'.win[t]
                 u == Unread(sc.pipe[t])
                 n == reader[t].n
                 d == all(t)
      <4>3. /\ w \in Int /\ x \in Int /\ u \in Int /\ n \in Int /\ d \in Int
            /\ w + u + n = x + (u + d) + n
        BY <2>3, <3>1, <3>2, <4>1, <4>2
      <4> HIDE DEF w, x, u, n, d
      <4>4. x = w - d
        BY <4>3, MakesUp
      <4>5. QED
        BY <4>4 DEF w, x, d
    <3>4. QED
      BY <3>3 DEF all
  <2>5. InNet({t})' = InNet({t}) - (IF t = s THEN f.n ELSE 0) /\ InNet({t}) \in Int
    BY <1>2, <1>11 DEF BytesOf
  <2>6. /\ WinAhead(t) = (UnpaddedOf(t) + grant.win[t]) - (sc.win[t] - InNet({t}))
        /\ WinAhead(t)' = (UnpaddedOf(t) + grant.win[t]) - (sc'.win[t] - InNet({t})')
    BY <1>1, ClientIdle DEF WinAhead
  <2>7. sc'.win[t] - InNet({t})' = sc.win[t] - InNet({t})
    BY <1>2, <1>10, <2>4, <2>5
  <2>8. QED
    BY <2>1, <2>6, <2>7, Zenon
<1>14. WindowsMove
  BY <1>4, <1>12, <1>13 DEF WindowsMove
<1>15. \A t \in Streams : sc'.state[t] = "idle" => NothingYet(t)'
  BY <1>1 DEF IInv, StreamInv, Fresh, Books, NothingYet
<1>16. \A i \in DOMAIN net' : net'[i].kind = "reset" => net'[i].n = 0
  BY <1>2 DEF Books
<1>17. QED
  BY <1>1, <1>9, <1>14, <1>15, <1>16, BooksKept

\* The account books start with nothing in them.
LEMMA InitBooks ==
  ASSUME Init
  PROVE  Books
<1>1. IInv /\ TypeOK
  BY InitHolds DEF IInv
<1>2. /\ net = <<>> /\ ignored = 0 /\ refused = [s \in Streams |-> 0]
      /\ grant.conn = 0 /\ grant.win = [s \in Streams |-> 0]
      /\ cl.conn = Window /\ sc.conn = Window /\ cl.padded = [s \in Streams |-> 0]
      /\ sc.state = [s \in Streams |-> "idle"]
      /\ sc.pipe = [s \in Streams |-> NewPipe]
      /\ \A s \in Streams : reader[s].n = 0
  BY DEF Init
<1>3. ConnAccounted
  <2> DEFINE H == Held
  <2>1. SumFunction(H) = SumFunctionOnSet(H, Streams)
    BY <1>1, HeldType DEF TypeOK, Held
  <2>2. \A s \in Streams : H[s] = 0
    <3>1. \A s \in Streams : Unread(sc.pipe[s]) = 0
      BY <1>2 DEF Unread, NewPipe
    <3>2. \A s \in Streams : H[s] = 0 + 0 + 0
      BY <1>2, <3>1 DEF Held, HeldIn
    <3>3. QED
      BY <3>2
  <2>3. ConnAccounted <=> sc.conn + SumFunction(H) = Window
    BY DEF ConnAccounted, Held, HeldIn
  <2> HIDE DEF H
  <2>4. SumFunctionOnSet(H, Streams) = 0
    BY <2>2, SumZero, StreamsAssumption
  <2>5. QED
    BY <1>2, <2>1, <2>3, <2>4, SizesAssumption
<1>4. WindowsAgree
  <2>1. InNet(Streams) = 0
    <3>1. net \in Seq(FrameType) /\ DOMAIN net = {}
      BY <1>1, <1>2 DEF TypeOK
    <3>2. \A i \in DOMAIN net : net[i].stream \notin Streams
      BY <3>1
    <3>3. SumFunction(Carried(net, Streams)) = 0
      BY <3>1, <3>2, CarriedNone, Zenon
    <3>4. QED
      BY <3>3 DEF InNet, Carried
  <2>2. SumFunction(cl.padded) = 0
    <3>1. SumFunction(cl.padded) = SumFunctionOnSet(cl.padded, Streams)
      BY <1>2 DEF SumFunction
    <3>2. \A s \in Streams : cl.padded[s] = 0
      BY <1>2
    <3>3. QED
      BY <3>1, <3>2, SumZero, StreamsAssumption
  <2>3. cl.conn + grant.conn + ignored + SumFunction(cl.padded) = sc.conn - InNet(Streams)
    BY <1>2, <2>1, <2>2, SizesAssumption
  <2>4. QED
    BY <1>2, <2>3 DEF WindowsAgree
<1>5. QED
  BY <1>2, <1>3, <1>4 DEF Books, NothingYet

LEMMA StutterBooks ==
  ASSUME IInv, IInv', Books, UNCHANGED vars
  PROVE  Books'
<1>1. /\ TypeOK /\ TypeOK' /\ UNCHANGED <<sc, reader, net, cl, grant, refused, ignored>>
  BY DEF IInv, vars
<1>2. \A S : InNet(S)' = InNet(S)
  BY <1>1 DEF InNet
<1>3. QED
  BY <1>1, <1>2, ClientIdle, ClientBooks DEF Books

LEMMA BooksStep ==
  ASSUME IInv, IInv', Books, [Next]_vars
  PROVE  Books'
<1>1. TypeOK'
  BY DEF IInv
<1>2. ASSUME NEW s \in Streams, Reads(s)
      PROVE  Books'
  <2>1. CASE SendContinue(s)
    BY <1>1, <2>1, ReaderSteps
  <2>2. CASE WaitInPipe(s)
    BY <1>1, <2>2, ClosingSteps
  <2>3. ASSUME NEW k \in 1..Window, ReadPipe(s, k)
        PROVE  Books'
    BY <1>1, <2>3, ReadPipeBooks
  <2>4. QED
    BY <1>2, <2>1, <2>2, <2>3 DEF Reads
<1>3. ASSUME NEW s \in Streams, CloseBody(s) \/ Respond(s)
      PROVE  Books'
  BY <1>1, <1>3, ClosingSteps
<1>4. ASSUME NEW s \in Streams, Quit(s)
      PROVE  Books'
  BY <1>1, <1>4, ReaderSteps
<1>5. ASSUME NEW s \in Streams, ProcessHeaders(s)
      PROVE  Books'
  BY <1>5, ProcessHeadersBooks
<1>6. ASSUME NEW s \in Streams, Sends(s)
      PROVE  Books'
  <2>1. PICK n \in 0..MaxBody[s], pad \in 0..MaxPad, end \in BOOLEAN :
          SendData(s, n, pad, end)
    BY <1>6 DEF Sends
  <2>2. QED
    BY <1>1, <2>1, SendDataBooks
<1>7. ASSUME NEW s \in Streams, SendReset(s) \/ LearnOfReset(s) \/ GrantArrives(s)
      PROVE  Books'
  BY <1>1, <1>7, ClientSteps
<1>8. CASE ConnGrantArrives
  BY <1>1, <1>8, ConnGrantBooks
<1>9. CASE Serve
  <2>1. CASE ProcessData
    BY <2>1, ProcessDataBooks
  <2>2. CASE ProcessDataInError \/ ProcessResetStream
    BY <1>1, <2>2, DroppingSteps
  <2>3. ASSUME NEW s \in Streams, NoteBodyRead(s)
        PROVE  Books'
    BY <2>3, NoteBodyReadBooks
  <2>4. ASSUME NEW s \in Streams, WantContinue(s) \/ WriteContinue(s)
        PROVE  Books'
    BY <1>1, <2>4, ClosingSteps
  <2>5. QED
    BY <1>9, <2>1, <2>2, <2>3, <2>4 DEF Serve
<1>10. CASE ServeEnds
  BY <1>1, <1>10, ServeEndsBooks
<1>11. CASE UNCHANGED vars
  BY <1>11, StutterBooks
<1>12. QED
  BY <1>2, <1>3, <1>4, <1>5, <1>6, <1>7, <1>8, <1>9, <1>10, <1>11 DEF Next

\* The books are kept in every state the program reaches.
THEOREM BooksAreKept == Spec => []Books
<1>1. Init => Books
  BY InitBooks
<1>2. IInv /\ IInv' /\ Books /\ [Next]_vars => Books'
  BY BooksStep
<1>3. QED
  BY <1>1, <1>2, Invariant, PTL DEF Spec

\* What is missing from the connection's window is in some pipe, just being read, or
\* was refused by a pipe that its reader closed: noteBodyRead gives back neither more
\* nor less than what processData took.
THEOREM ConnsAccounted == Spec => []ConnAccounted
<1>1. Books => ConnAccounted
  BY DEF Books
<1>2. QED
  BY <1>1, BooksAreKept, PTL

\* The client's view of the windows and the server's agree at every moment, but for the
\* DATA and the WINDOW_UPDATEs under way and for what is never given back: the padding of
\* DATA and the bytes of frames in error.
THEOREM WindowsAgreed == Spec => []WindowsAgree
<1>1. Books => WindowsAgree
  BY DEF Books
<1>2. QED
  BY <1>1, BooksAreKept, PTL
=============================================================================
