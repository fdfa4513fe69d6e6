-------------------------- MODULE ServerConn_proof --------------------------
(***************************************************************************)
(* For any number of streams and any buffers: serve keeps its types, it    *)
(* never panics, and every frame that is being written is accounted for.   *)
(*                                                                         *)
(* A panic of startFrameWrite takes a frame of a stream that is closed and *)
(* was not reset.  The invariant therefore follows the frames of a stream: *)
(* those in its queue and in the channel are given in order, only the last *)
(* may end the response, and if it does, its handler sends no other        *)
(* (Finished).  So a stream closes without a reset only when nothing is    *)
(* left of it.  A panic of a writer takes a handler with two answers: a    *)
(* handler waits for the last frame it gave, which is queued, being        *)
(* written or answered, and only one of them.                              *)
(*                                                                         *)
(* Of the frames being written, one is known to serve (writingFrame); each *)
(* of the others is due to a frame that was skipped, whose faked wakeup    *)
(* let serve go on before its time (Accounted).  Where no stream is reset  *)
(* none is skipped, so that one frame is written at a time (Flying).       *)
(*                                                                         *)
(* Each function of serve has a lemma on what it does, and ScheduleKeeps   *)
(* carries the invariant through scheduleFrameWrite; then come the steps.  *)
(***************************************************************************)
EXTENDS ServerConn, SequenceTheorems, TLAPS

\* Runs in which only the end of the connection breaks a response
Steady == Events \cap {"reset", "streamError"} = {}

Live(c, s) == c.state[s] \in {"open", "halfClosedRemote"}

\* The frames of stream s in a queue
Of(q, s) == {i \in DOMAIN q : q[i].stream = s}

Plain(f) == ~f.end /\ ~f.waits

\* Of the frames of a stream that serve has not taken yet, first those it has
\* queued, then those that are in the channel, only the last may end the
\* response or be waited for.
LastOnly(c, q, s) ==
  /\ \A i, j \in DOMAIN c.sq[s] : i < j => Plain(c.sq[s][i])
  /\ \A i \in DOMAIN c.sq[s], j \in Of(q, s) : Plain(c.sq[s][i])
  /\ \A i, j \in Of(q, s) : i < j => Plain(q[i])

Queued(c, q, s) == {c.sq[s][i] : i \in DOMAIN c.sq[s]} \cup {q[i] : i \in Of(q, s)}

\* The writers that are going to answer the handler of a stream
Answering(c, s) ==
  {i \in DOMAIN c.writers : /\ c.writers[i].at = "write" /\ c.writers[i].frame.waits
                            /\ c.writers[i].frame.stream = s}

\* The handler has sent the end of its response.
Finished(x) ==
  /\ x.done
  /\ x.pc \in {"waitData", "exited"} \/ (x.pc = "waitHeader" /\ x.n = 0)

Waits(x) == x.pc \in {"waitHeader", "waitData"}

\* A handler gets one answer for each frame it waits for.
OneAnswer(c, x, s) ==
  /\ \A i, j \in Answering(c, s) : i = j
  /\ Answering(c, s) # {} => ~x.reply

IdleInv(c, x, q, s) ==
  c.state[s] = "idle" => x = Idle /\ Queued(c, q, s) = {} /\ Answering(c, s) = {}

LiveInv(c, x, q, s) ==
  Live(c, s) =>
    /\ x.pc # "none" /\ ~x.broken
    /\ LastOnly(c, q, s)
    /\ \A f \in Queued(c, q, s) :
         /\ f.end => Finished(x)
         /\ f.waits => Waits(x) /\ ~x.reply /\ Answering(c, s) = {}
    /\ x.reply \/ Answering(c, s) # {} => Waits(x)

\* A stream that is closed and was not reset has seen the end of its response.
ClosedInv(c, x, q, s) ==
  c.state[s] = "closed" /\ c.serve = "loop" /\ (Steady \/ s \notin c.reset) =>
    Finished(x) /\ Queued(c, q, s) = {}

StreamInv(c, x, q, s) ==
  /\ OneAnswer(c, x, s) /\ IdleInv(c, x, q, s) /\ LiveInv(c, x, q, s)
  /\ ClosedInv(c, x, q, s)

\* While a frame is being written it is with one writer, or was written.
Flying(c) ==
  /\ c.writing => Len(c.writers) = IF c.wrote THEN 0 ELSE 1
  /\ ~c.writing => Len(c.writers) = 0 /\ ~c.wrote

\* Writes that serve does not know of are due to the frames it skipped.
Accounted(c) == Excess(c) \in 0..c.skipped

ServeInv(c) ==
  /\ c \in ServeType
  /\ \A s \in Streams : \A i \in DOMAIN c.sq[s] : c.sq[s][i].stream = s
  /\ c.serve # "panic"
  /\ c.serve = "done" => \A s \in Streams : ~Live(c, s)
  /\ c.serve = "loop" => Accounted(c)
  /\ Steady => c.serve # "stuck" /\ c.skipped = 0

Inv(c, hs, q) == ServeInv(c) /\ \A s \in Streams : StreamInv(c, hs[s], q, s)

Others ==
  /\ h \in [Streams -> HandlerType]
  /\ want \in Seq(StreamFrames) /\ Len(want) <= WantCap
  /\ gone \in BOOLEAN /\ control \in 0..MaxControl

IInv == Others /\ Inv(sc, h, want)

---------------------------------------------------------------------------
(* Queues *)

\* The channel hands over its first frame, of stream f.stream.
LEMMA Delivered ==
  ASSUME NEW c \in ServeType, NEW q \in Seq(StreamFrames), q # <<>>,
         NEW d, d = Add(c, Head(q)), NEW s \in Streams
  PROVE  /\ d.sq[s] = IF s = Head(q).stream THEN Append(c.sq[s], Head(q)) ELSE c.sq[s]
         /\ Queued(d, Tail(q), s) = Queued(c, q, s)
         /\ LastOnly(c, q, s) => LastOnly(d, Tail(q), s)
<1> DEFINE f == Head(q)
           r == Tail(q)
<1>1. /\ f = q[1] /\ f \in StreamFrames /\ f.stream \in Streams
      /\ r \in Seq(StreamFrames) /\ Len(q) \in Nat \ {0} /\ Len(r) = Len(q) - 1
      /\ \A i \in 1..Len(r) : r[i] = q[i + 1]
      /\ DOMAIN q = 1..Len(q) /\ DOMAIN r = 1..Len(r)
  BY EmptySeq, HeadTailProperties, LenProperties DEF StreamFrames, HeaderFrames, DataFrames
<1>2. d = [c EXCEPT !.sq[f.stream] = Append(@, f)]
  BY <1>1, NoneAssumption DEF Add
<1>3. c.sq \in [Streams -> Seq(StreamFrames)]
  BY DEF ServeType
<1>4. d.sq = [c.sq EXCEPT ![f.stream] = Append(@, f)]
  BY <1>2 DEF ServeType
<1>5. d.sq[s] = IF s = f.stream THEN Append(c.sq[s], f) ELSE c.sq[s]
  BY <1>1, <1>3, <1>4
<1>6. Of(r, s) = {i \in 1..Len(r) : i + 1 \in Of(q, s)}
  BY <1>1 DEF Of
<1>7. 1 \in Of(q, s) <=> s = f.stream
  BY <1>1 DEF Of
<1> HIDE DEF f, r
<1>8. CASE s = f.stream
  <2> DEFINE a == c.sq[s]
             b == Append(a, f)
  <2>1. /\ a \in Seq(StreamFrames) /\ Len(a) \in Nat /\ DOMAIN a = 1..Len(a)
        /\ b \in Seq(StreamFrames) /\ Len(b) = Len(a) + 1 /\ DOMAIN b = 1..Len(a) + 1
        /\ \A i \in 1..Len(a) : b[i] = a[i]
        /\ b[Len(a) + 1] = f
    BY <1>1, <1>3, AppendProperties, LenProperties
  <2> HIDE DEF a, b
  <2>2. d.sq[s] = b /\ c.sq[s] = a
    BY <1>5, <1>8 DEF a, b
  <2>3. Queued(d, r, s) = Queued(c, q, s)
    <3>1. ASSUME NEW x, x \in Queued(d, r, s) PROVE x \in Queued(c, q, s)
      <4>1. CASE \E i \in 1..Len(a) : x = b[i]
        BY <2>1, <2>2, <4>1 DEF Queued
      <4>2. CASE x = f
        BY <1>1, <1>7, <1>8, <4>2 DEF Queued
      <4>3. CASE \E i \in Of(r, s) : x = r[i]
        BY <1>1, <1>6, <4>3 DEF Queued
      <4> QED BY <2>1, <2>2, <3>1, <4>1, <4>2, <4>3 DEF Queued
    <3>2. ASSUME NEW x, x \in Queued(c, q, s) PROVE x \in Queued(d, r, s)
      <4>1. CASE \E i \in 1..Len(a) : x = a[i]
        BY <2>1, <2>2, <4>1 DEF Queued
      <4>2. CASE \E i \in Of(q, s) : x = q[i]
        <5>1. PICK i \in Of(q, s) : x = q[i]
          BY <4>2
        <5>2. i \in 1..Len(q)
          BY <1>1 DEF Of
        <5>3. CASE i = 1
          BY <1>1, <2>1, <2>2, <5>1, <5>3 DEF Queued
        <5>4. CASE i # 1
          <6>1. i - 1 \in Of(r, s) /\ r[i - 1] = x
            BY <1>1, <1>6, <5>1, <5>2, <5>4
          <6> QED BY <6>1 DEF Queued
        <5> QED BY <5>3, <5>4
      <4> QED BY <2>1, <2>2, <3>2, <4>1, <4>2 DEF Queued
    <3> QED BY <3>1, <3>2
  <2>4. ASSUME LastOnly(c, q, s) PROVE LastOnly(d, r, s)
    <3>1. ASSUME NEW i \in 1..Len(a) + 1, NEW j \in 1..Len(a) + 1, i < j PROVE Plain(b[i])
      <4>1. i \in 1..Len(a) /\ b[i] = a[i]
        BY <2>1, <3>1
      <4>2. CASE j = Len(a) + 1
        BY <1>7, <1>8, <2>1, <2>2, <2>4, <4>1 DEF LastOnly
      <4>3. CASE j # Len(a) + 1
        BY <2>1, <2>2, <2>4, <3>1, <4>1, <4>3 DEF LastOnly
      <4> QED BY <4>2, <4>3
    <3>2. ASSUME NEW i \in 1..Len(a) + 1, NEW j \in Of(r, s) PROVE Plain(b[i])
      <4>1. j + 1 \in Of(q, s) /\ j \in Nat \ {0}
        BY <1>6, <1>1
      <4>2. CASE i = Len(a) + 1
        BY <1>1, <1>7, <1>8, <2>1, <2>4, <4>1, <4>2 DEF LastOnly
      <4>3. CASE i # Len(a) + 1
        BY <2>1, <2>2, <2>4, <4>1, <4>3 DEF LastOnly
      <4> QED BY <4>2, <4>3
    <3>3. ASSUME NEW i \in Of(r, s), NEW j \in Of(r, s), i < j PROVE Plain(r[i])
      <4>1. i + 1 \in Of(q, s) /\ j + 1 \in Of(q, s) /\ i + 1 < j + 1 /\ r[i] = q[i + 1]
        BY <1>1, <1>6, <3>3
      <4> QED BY <2>4, <4>1 DEF LastOnly
    <3> QED BY <2>1, <2>2, <3>1, <3>2, <3>3 DEF LastOnly
  <2> QED BY <1>5, <2>3, <2>4 DEF f, r
<1>9. CASE s # f.stream
  <2>1. d.sq[s] = c.sq[s]
    BY <1>5, <1>9
  <2>2. \A i \in Of(q, s) : i - 1 \in Of(r, s) /\ r[i - 1] = q[i]
    BY <1>1, <1>6, <1>7, <1>9 DEF Of
  <2>3. \A i \in Of(r, s) : i + 1 \in Of(q, s) /\ r[i] = q[i + 1]
    BY <1>1, <1>6
  <2>4. Queued(d, r, s) = Queued(c, q, s)
    BY <2>1, <2>2, <2>3 DEF Queued
  <2>5. LastOnly(c, q, s) => LastOnly(d, r, s)
    <3> SUFFICES ASSUME LastOnly(c, q, s) PROVE LastOnly(d, r, s)
      OBVIOUS
    <3>1. ASSUME NEW i \in Of(r, s), NEW j \in Of(r, s), i < j PROVE Plain(r[i])
      <4>1. i + 1 < j + 1
        BY <1>1, <1>6, <3>1
      <4> QED BY <2>3, <4>1 DEF LastOnly
    <3> QED BY <2>1, <2>3, <3>1 DEF LastOnly
  <2> QED BY <1>5, <2>4, <2>5 DEF f, r
<1> QED BY <1>8, <1>9

\* A handler appends a frame to the channel.
Given(c, q, f, s, p) ==
  /\ s = f.stream => Queued(c, p, s) = Queued(c, q, s) \cup {f}
  /\ s # f.stream => /\ Queued(c, p, s) = Queued(c, q, s)
                     /\ LastOnly(c, q, s) => LastOnly(c, p, s)
  /\ (\A g \in Queued(c, q, s) : Plain(g)) => LastOnly(c, p, s)

LEMMA Appended ==
  ASSUME NEW c \in ServeType, NEW q \in Seq(StreamFrames), NEW f \in StreamFrames,
         NEW s \in Streams
  PROVE  Given(c, q, f, s, Append(q, f))
<1> DEFINE p == Append(q, f)
<1>1. /\ p \in Seq(StreamFrames) /\ Len(q) \in Nat /\ Len(p) = Len(q) + 1
      /\ DOMAIN q = 1..Len(q) /\ DOMAIN p = 1..Len(q) + 1
      /\ \A i \in 1..Len(q) : p[i] = q[i]
      /\ p[Len(q) + 1] = f
  BY AppendProperties, LenProperties
<1> HIDE DEF p
<1>2. Of(p, s) = Of(q, s) \cup (IF s = f.stream THEN {Len(q) + 1} ELSE {})
  BY <1>1 DEF Of
<1>3. \A i \in Of(q, s) : p[i] = q[i] /\ i \in 1..Len(q)
  BY <1>1 DEF Of
<1>4. Queued(c, p, s) = Queued(c, q, s) \cup (IF s = f.stream THEN {f} ELSE {})
  BY <1>1, <1>2, <1>3 DEF Queued
<1>5. ASSUME s # f.stream, LastOnly(c, q, s) PROVE LastOnly(c, p, s)
  BY <1>2, <1>3, <1>5 DEF LastOnly
<1>6. ASSUME \A g \in Queued(c, q, s) : Plain(g) PROVE LastOnly(c, p, s)
  <2>1. \A i \in DOMAIN c.sq[s] : Plain(c.sq[s][i])
    BY <1>6 DEF Queued
  <2>2. \A i \in Of(q, s) : Plain(q[i])
    BY <1>6 DEF Queued
  <2>3. ASSUME NEW i \in Of(p, s), NEW j \in Of(p, s), i < j PROVE Plain(p[i])
    <3>1. i \in Of(q, s)
      BY <1>1, <1>2, <1>3, <2>3
    <3> QED BY <1>3, <2>2, <3>1
  <2> QED BY <2>1, <2>3 DEF LastOnly
<1> QED BY <1>1, <1>4, <1>5, <1>6 DEF Given, p

\* takeFrom takes the first frame of a stream, or the beginning of it.
Whole(c, d, f, s) ==
  /\ f = Head(c.sq[s]) /\ f.n <= c.window
  /\ d = [c EXCEPT !.window = c.window - f.n, !.sq[s] = Tail(c.sq[s])]

Split(c, d, f, s) ==
  LET first == Head(c.sq[s]) IN
  \E a \in Nat :
    /\ first.kind = "data" /\ a < first.n /\ a <= c.window
    /\ f = [first EXCEPT !.n = a, !.end = FALSE, !.waits = FALSE]
    /\ d = [c EXCEPT !.window = c.window - a,
                     !.sq[s] = [c.sq[s] EXCEPT ![1] = [first EXCEPT !.n = first.n - a]]]

LEMMA FirstFrame ==
  ASSUME NEW c \in ServeType, NEW s \in Streams, c.sq[s] # <<>>
  PROVE  /\ c.sq \in [Streams -> Seq(StreamFrames)] /\ c.sq[s] \in Seq(StreamFrames)
         /\ Head(c.sq[s]) = c.sq[s][1] /\ Head(c.sq[s]) \in StreamFrames
         /\ Head(c.sq[s]).n \in 0..MaxData
         /\ Head(c.sq[s]).kind = "header" => Head(c.sq[s]).n = 0
         /\ Head(c.sq[s]).kind \in {"header", "data"}
         /\ Len(c.sq[s]) \in Nat \ {0} /\ DOMAIN c.sq[s] = 1..Len(c.sq[s])
         /\ \A q : Head(c.sq[s]) \in Queued(c, q, s)
<1>1. c.sq \in [Streams -> Seq(StreamFrames)] /\ c.sq[s] \in Seq(StreamFrames)
  BY DEF ServeType
<1>2. /\ Head(c.sq[s]) = c.sq[s][1] /\ Head(c.sq[s]) \in StreamFrames
      /\ Len(c.sq[s]) \in Nat \ {0} /\ DOMAIN c.sq[s] = 1..Len(c.sq[s])
  BY <1>1, EmptySeq, HeadTailProperties, LenProperties
<1>3. \A q : Head(c.sq[s]) \in Queued(c, q, s)
  BY <1>2 DEF Queued
<1>4. 0 \in 0..MaxData
  BY SizesAssumption
<1> QED BY <1>1, <1>2, <1>3, <1>4 DEF StreamFrames, HeaderFrames, DataFrames

LEMMA TakesFrom ==
  ASSUME NEW c \in ServeType, NEW s \in Streams, c.sq[s] # <<>>,
         NEW t, t = TakeFrom(c, s)
  PROVE  Whole(c, t.rest, t.frame, s) \/ Split(c, t.rest, t.frame, s)
<1> DEFINE f == Head(c.sq[s])
           a == Smaller(c.window, MaxFrame)
<1>1. /\ c.sq \in [Streams -> Seq(StreamFrames)] /\ f = c.sq[s][1]
      /\ f \in StreamFrames /\ f.n \in 0..MaxData
      /\ f.kind = "header" => f.n = 0
      /\ f.kind \in {"header", "data"}
  BY FirstFrame
<1>2. /\ c.window \in Nat /\ a \in Nat /\ a <= c.window
  BY SizesAssumption DEF ServeType, Smaller
<1>3. f.n \in Nat
  BY <1>1, SizesAssumption
<1> HIDE DEF a
<1>4. CASE ~NoCost(f) /\ f.n > a
  <2>1. /\ t.frame = [f EXCEPT !.n = a, !.end = FALSE, !.waits = FALSE]
        /\ t.rest = [c EXCEPT !.window = @ - a, !.sq[s][1].n = @ - a]
    BY <1>4 DEF TakeFrom, Taken, a
  <2>2. c.sq[s][1].n - a = f.n - a
    BY <1>1
  <2>3. t.rest = [c EXCEPT !.window = c.window - a,
                           !.sq[s] = [c.sq[s] EXCEPT ![1] = [f EXCEPT !.n = f.n - a]]]
    BY <1>1, <2>1, <2>2 DEF ServeType
  <2> QED BY <1>2, <1>3, <1>4, <2>1, <2>3 DEF Split, NoCost
<1>5. CASE NoCost(f) \/ ~(f.n > a)
  <2>1. /\ t.frame = f
        /\ t.rest = [c EXCEPT !.window = @ - f.n, !.sq[s] = Tail(@)]
    BY <1>5 DEF TakeFrom, Taken, a
  <2>2. f.n <= c.window
    BY <1>1, <1>2, <1>3, <1>5 DEF NoCost
  <2>3. t.rest = [c EXCEPT !.window = c.window - f.n, !.sq[s] = Tail(c.sq[s])]
    BY <1>1, <2>1 DEF ServeType
  <2> QED BY <2>1, <2>2, <2>3 DEF Whole
<1> QED BY <1>4, <1>5

\* What is left of a queue
LEMMA TailOf ==
  ASSUME NEW a \in Seq(StreamFrames), a # <<>>
  PROVE  /\ Tail(a) \in Seq(StreamFrames) /\ Len(Tail(a)) = Len(a) - 1
         /\ DOMAIN Tail(a) = 1..Len(a) - 1
         /\ \A i \in 1..Len(a) - 1 : Tail(a)[i] = a[i + 1]
  BY EmptySeq, HeadTailProperties, LenProperties

LEMMA ShortenedHead ==
  ASSUME NEW a \in Seq(StreamFrames), a # <<>>, a[1].kind = "data", NEW m \in 0..a[1].n
  PROVE  LET g == [a[1] EXCEPT !.n = m]
             b == [a EXCEPT ![1] = g]
         IN /\ g \in StreamFrames /\ g.end = a[1].end /\ g.waits = a[1].waits
            /\ g.stream = a[1].stream /\ g.kind = a[1].kind /\ g.n = m
            /\ b \in Seq(StreamFrames) /\ DOMAIN b = DOMAIN a
            /\ b[1] = g
            /\ \A i \in DOMAIN a : i # 1 => b[i] = a[i]
<1> DEFINE g == [a[1] EXCEPT !.n = m]
           b == [a EXCEPT ![1] = g]
<1>1. a[1] \in StreamFrames /\ Len(a) \in Nat \ {0} /\ DOMAIN a = 1..Len(a)
  BY EmptySeq, LenProperties
<1>2. a[1] \in DataFrames
  BY <1>1 DEF StreamFrames, HeaderFrames
<1>3. m \in 0..MaxData
  BY <1>2, SizesAssumption DEF DataFrames
<1>4. /\ g \in DataFrames /\ g.end = a[1].end /\ g.waits = a[1].waits
      /\ g.stream = a[1].stream /\ g.kind = a[1].kind /\ g.n = m
  BY <1>2, <1>3 DEF DataFrames
<1>5. g \in StreamFrames
  BY <1>4 DEF StreamFrames
<1> HIDE DEF g
<1>6. /\ b \in Seq(StreamFrames) /\ DOMAIN b = DOMAIN a
      /\ b[1] = g
      /\ \A i \in DOMAIN a : i # 1 => b[i] = a[i]
  BY <1>1, <1>5, ExceptSeq
<1> QED BY <1>4, <1>5, <1>6 DEF g

OnlyTaken(c, d, f, s) ==
  /\ f \in StreamFrames /\ f.stream = s
  /\ d \in ServeType
  /\ d.state = c.state /\ d.reset = c.reset /\ d.writers = c.writers
  /\ d.serve = c.serve /\ d.wrote = c.wrote /\ d.writing = c.writing
  /\ d.skipped = c.skipped
  /\ \A t \in Streams \ {s} : d.sq[t] = c.sq[t]
  /\ \A i \in DOMAIN d.sq[s] : d.sq[s][i].stream = s

LEMMA TakenTyped ==
  ASSUME NEW c \in ServeType, NEW s \in Streams, c.sq[s] # <<>>, NEW d, NEW f,
         \A i \in DOMAIN c.sq[s] : c.sq[s][i].stream = s,
         Whole(c, d, f, s) \/ Split(c, d, f, s)
  PROVE  OnlyTaken(c, d, f, s)
<1>1. /\ c.sq \in [Streams -> Seq(StreamFrames)] /\ c.sq[s] \in Seq(StreamFrames)
      /\ Head(c.sq[s]) = c.sq[s][1]
      /\ Head(c.sq[s]) \in StreamFrames /\ Head(c.sq[s]).n \in 0..MaxData
      /\ Len(c.sq[s]) \in Nat \ {0} /\ DOMAIN c.sq[s] = 1..Len(c.sq[s])
      /\ c.window \in Nat
  BY FirstFrame DEF ServeType
<1>2. c.sq[s][1].stream = s /\ c.sq[s][1].n \in Nat
  BY <1>1, SizesAssumption
<1>3. CASE Whole(c, d, f, s)
  <2>1. /\ Tail(c.sq[s]) \in Seq(StreamFrames)
        /\ \A i \in DOMAIN Tail(c.sq[s]) : Tail(c.sq[s])[i].stream = s
    BY <1>1, TailOf
  <2>2. c.window - f.n \in Nat
    BY <1>1, <1>2, <1>3 DEF Whole
  <2>3. d.sq[s] = Tail(c.sq[s]) /\ d.window = c.window - f.n
    BY <1>1, <1>3 DEF Whole, ServeType
  <2>4. d \in ServeType
    BY <1>1, <1>3, <2>1, <2>2 DEF Whole, ServeType
  <2>5. /\ d.state = c.state /\ d.reset = c.reset /\ d.writers = c.writers
        /\ d.serve = c.serve /\ d.wrote = c.wrote /\ d.writing = c.writing
        /\ d.skipped = c.skipped
        /\ \A t \in Streams \ {s} : d.sq[t] = c.sq[t]
    BY <1>3 DEF Whole, ServeType
  <2> QED BY <1>1, <1>2, <1>3, <2>1, <2>3, <2>4, <2>5 DEF Whole, OnlyTaken
<1>4. CASE Split(c, d, f, s)
  <2>1. PICK a \in Nat :
          /\ c.sq[s][1].kind = "data" /\ a < c.sq[s][1].n /\ a <= c.window
          /\ f = [c.sq[s][1] EXCEPT !.n = a, !.end = FALSE, !.waits = FALSE]
          /\ d = [c EXCEPT !.window = c.window - a,
                    !.sq[s] = [c.sq[s] EXCEPT ![1] = [c.sq[s][1] EXCEPT !.n = c.sq[s][1].n - a]]]
    BY <1>1, <1>4 DEF Split
  <2> DEFINE m == c.sq[s][1].n - a
             b == [c.sq[s] EXCEPT ![1] = [c.sq[s][1] EXCEPT !.n = m]]
  <2>2. m \in 0..c.sq[s][1].n
    BY <1>1, <2>1, SizesAssumption
  <2>3. b \in Seq(StreamFrames) /\ \A i \in DOMAIN b : b[i].stream = s
    BY <1>1, <1>2, <2>1, <2>2, ShortenedHead
  <2>4. c.sq[s][1] \in DataFrames
    BY <1>1, <2>1 DEF StreamFrames, HeaderFrames
  <2>5. f \in DataFrames /\ f.stream = s
    <3>1. a \in 0..MaxData
      BY <2>1, <2>4, SizesAssumption DEF DataFrames
    <3> QED BY <1>2, <2>1, <2>4, <3>1 DEF DataFrames
  <2>6. c.window - a \in Nat
    BY <1>1, <2>1
  <2> HIDE DEF b
  <2>7. d = [c EXCEPT !.window = c.window - a, !.sq[s] = b]
    BY <2>1 DEF b
  <2>8. d.sq[s] = b /\ d.window = c.window - a
    BY <1>1, <2>7 DEF ServeType
  <2>9. d \in ServeType
    BY <1>1, <2>3, <2>6, <2>7 DEF ServeType
  <2>10. /\ d.state = c.state /\ d.reset = c.reset /\ d.writers = c.writers
         /\ d.serve = c.serve /\ d.wrote = c.wrote /\ d.writing = c.writing
         /\ d.skipped = c.skipped
         /\ \A t \in Streams \ {s} : d.sq[t] = c.sq[t]
    BY <2>7 DEF ServeType
  <2> QED BY <2>3, <2>5, <2>8, <2>9, <2>10 DEF StreamFrames, OnlyTaken
<1> QED BY <1>3, <1>4

\* The frames that stay behind the one taken
Leaves(c, d, f, q, s) ==
  /\ Head(c.sq[s]) \in Queued(c, q, s)
  /\ f.end => Head(c.sq[s]).end
  /\ f.waits => Head(c.sq[s]).waits
  /\ \A g \in Queued(d, q, s) : \E e \in Queued(c, q, s) :
       e.end = g.end /\ e.waits = g.waits
  /\ LastOnly(c, q, s) => LastOnly(d, q, s)
  /\ LastOnly(c, q, s) /\ ~Plain(f) => Queued(d, q, s) = {}

LEMMA TakenLeaves ==
  ASSUME NEW c \in ServeType, NEW s \in Streams, c.sq[s] # <<>>, NEW d, NEW f,
         NEW q \in Seq(StreamFrames),
         Whole(c, d, f, s) \/ Split(c, d, f, s)
  PROVE  Leaves(c, d, f, q, s)
<1> DEFINE a == c.sq[s]
           b == d.sq[s]
<1>1. /\ c.sq \in [Streams -> Seq(StreamFrames)] /\ a \in Seq(StreamFrames)
      /\ Head(a) = a[1] /\ Head(a) \in StreamFrames /\ Head(a).n \in 0..MaxData
      /\ Len(a) \in Nat \ {0} /\ DOMAIN a = 1..Len(a)
      /\ Head(a) \in Queued(c, q, s)
  BY FirstFrame
<1>2. CASE Whole(c, d, f, s)
  <2>1. f = a[1] /\ b = Tail(a)
    BY <1>1, <1>2 DEF Whole, ServeType
  <2>2. DOMAIN b = 1..Len(a) - 1 /\ \A i \in 1..Len(a) - 1 : b[i] = a[i + 1]
    BY <1>1, <2>1, TailOf
  <2> HIDE DEF a, b
  <2>3. ASSUME NEW g \in Queued(d, q, s) PROVE g \in Queued(c, q, s)
    <3>1. CASE \E i \in DOMAIN b : g = b[i]
      <4>1. PICK i \in 1..Len(a) - 1 : g = a[i + 1]
        BY <2>2, <3>1
      <4>2. i + 1 \in DOMAIN a
        BY <1>1
      <4> QED BY <4>1, <4>2 DEF Queued, a
    <3> QED BY <2>3, <3>1 DEF Queued, b
  <2>4. ASSUME LastOnly(c, q, s) PROVE LastOnly(d, q, s)
    <3>1. ASSUME NEW i \in DOMAIN b, NEW j \in DOMAIN b, i < j PROVE Plain(b[i])
      <4>1. i + 1 \in DOMAIN a /\ j + 1 \in DOMAIN a /\ i + 1 < j + 1 /\ b[i] = a[i + 1]
        BY <1>1, <2>2, <3>1
      <4> QED BY <2>4, <4>1 DEF LastOnly, a
    <3>2. ASSUME NEW i \in DOMAIN b, NEW j \in Of(q, s) PROVE Plain(b[i])
      <4>1. i + 1 \in DOMAIN a /\ b[i] = a[i + 1]
        BY <1>1, <2>2, <3>2
      <4> QED BY <2>4, <4>1 DEF LastOnly, a
    <3> QED BY <2>4, <3>1, <3>2 DEF LastOnly, b
  <2>5. ASSUME LastOnly(c, q, s), ~Plain(f) PROVE Queued(d, q, s) = {}
    <3>1. DOMAIN b = {}
      <4>1. ASSUME NEW i \in DOMAIN b PROVE FALSE
        <5>1. 1 \in DOMAIN a /\ i + 1 \in DOMAIN a /\ 1 < i + 1
          BY <1>1, <2>2, <4>1
        <5> QED BY <2>1, <2>5, <5>1 DEF LastOnly, a
      <4> QED BY <4>1
    <3>2. Of(q, s) = {}
      <4>1. 1 \in DOMAIN a
        BY <1>1
      <4> QED BY <2>1, <2>5, <4>1 DEF LastOnly, a
    <3> QED BY <3>1, <3>2 DEF Queued, b
  <2> QED BY <1>1, <2>1, <2>3, <2>4, <2>5 DEF a, Leaves
<1>3. CASE Split(c, d, f, s)
  <2>1. PICK m \in Nat :
          /\ a[1].kind = "data" /\ m < a[1].n /\ m <= c.window
          /\ f = [a[1] EXCEPT !.n = m, !.end = FALSE, !.waits = FALSE]
          /\ d = [c EXCEPT !.window = c.window - m,
                    !.sq[s] = [a EXCEPT ![1] = [a[1] EXCEPT !.n = a[1].n - m]]]
    BY <1>1, <1>3 DEF Split
  <2>2. a[1].n - m \in 0..a[1].n
    <3>1. a[1].n \in 0..MaxData /\ m < a[1].n
      BY <1>1, <2>1
    <3>2. a[1].n \in Nat
      BY <3>1, SizesAssumption
    <3>3. \A j, k \in Nat : j < k => k - j \in 0..k
      OBVIOUS
    <3> QED BY <3>1, <3>2, <3>3
  <2>3. b = [a EXCEPT ![1] = [a[1] EXCEPT !.n = a[1].n - m]]
    BY <1>1, <2>1 DEF ServeType
  <2>4. /\ DOMAIN b = DOMAIN a
        /\ \A i \in DOMAIN a : b[i].end = a[i].end /\ b[i].waits = a[i].waits
    BY <1>1, <2>1, <2>2, <2>3, ShortenedHead
  <2>5. Plain(f)
    BY <1>1, <2>1 DEF Plain, StreamFrames, HeaderFrames, DataFrames
  <2> HIDE DEF a, b
  <2>6. \A g \in Queued(d, q, s) : \E e \in Queued(c, q, s) :
              e.end = g.end /\ e.waits = g.waits
    BY <2>4 DEF Queued, a, b
  <2>7. LastOnly(c, q, s) => LastOnly(d, q, s)
    BY <2>4 DEF LastOnly, Plain, a, b
  <2> QED BY <1>1, <2>5, <2>6, <2>7 DEF Plain, Leaves, a
<1> QED BY <1>2, <1>3

---------------------------------------------------------------------------
(* What serve does to its streams *)

\* A stream's invariant depends on these only.
SameStream(c, d, s) ==
  /\ d.sq[s] = c.sq[s] /\ d.state[s] = c.state[s]
  /\ Answering(c, s) = {} => Answering(d, s) = {}
  /\ (\A i, j \in Answering(c, s) : i = j) => \A i, j \in Answering(d, s) : i = j
  /\ s \in c.reset => s \in d.reset
  /\ d.serve = c.serve \/ d.serve # "loop"

LEMMA Unmoved ==
  ASSUME NEW c, NEW d, NEW x, NEW q, NEW s,
         StreamInv(c, x, q, s), SameStream(c, d, s)
  PROVE  StreamInv(d, x, q, s)
<1> USE DEF SameStream
<1>1. Queued(d, q, s) = Queued(c, q, s) /\ (LastOnly(c, q, s) <=> LastOnly(d, q, s))
  BY DEF Queued, LastOnly
<1>2. Live(d, s) <=> Live(c, s)
  BY DEF Live
<1>3. OneAnswer(d, x, s)
  BY DEF OneAnswer, StreamInv
<1>4. IdleInv(d, x, q, s)
  BY <1>1 DEF IdleInv, StreamInv
<1>5. LiveInv(d, x, q, s)
  BY <1>1, <1>2 DEF LiveInv, StreamInv
<1>6. ClosedInv(d, x, q, s)
  BY <1>1 DEF ClosedInv, StreamInv
<1> QED BY <1>3, <1>4, <1>5, <1>6 DEF StreamInv

LEMMA SameStreams ==
  ASSUME NEW c, NEW d, d.sq = c.sq, d.state = c.state, d.reset = c.reset,
         d.writers = c.writers, d.serve = c.serve \/ d.serve # "loop", NEW s
  PROVE  SameStream(c, d, s)
  BY DEF SameStream, Answering

\* A frame is given to a writer of its own.
Started(c, f) ==
  [c EXCEPT !.writing = TRUE, !.flush = TRUE,
            !.writers = Append(@, [frame |-> f, at |-> "write"])]

\* ... and nothing else but the flags of serve is changed.
OneWriterMore(c, d, f) ==
  /\ d \in ServeType
  /\ d.sq = c.sq /\ d.state = c.state /\ d.reset = c.reset /\ d.serve = c.serve
  /\ d.zero = c.zero /\ d.wrote = c.wrote /\ d.writing /\ d.skipped = c.skipped
  /\ Len(d.writers) = Len(c.writers) + 1
  /\ \A i \in DOMAIN c.writers : i \in DOMAIN d.writers /\ d.writers[i] = c.writers[i]
  /\ DOMAIN d.writers = 1..Len(c.writers) + 1
  /\ d.writers[Len(c.writers) + 1] = [frame |-> f, at |-> "write"]

LEMMA StartedDoes ==
  ASSUME NEW c \in ServeType, NEW f \in StreamFrames \cup ConnFrames
  PROVE  OneWriterMore(c, Started(c, f), f)
<1> DEFINE d == Started(c, f)
           e == [frame |-> f, at |-> "write"]
           W == [frame : StreamFrames \cup ConnFrames, at : {"write", "wake"}]
<1>1. e \in W
  OBVIOUS
<1> HIDE DEF e, W
<1>2. c.writers \in Seq(W)
  BY DEF ServeType, W
<1>3. /\ Append(c.writers, e) \in Seq(W)
      /\ Len(Append(c.writers, e)) = Len(c.writers) + 1
      /\ DOMAIN c.writers = 1..Len(c.writers) /\ Len(c.writers) \in Nat
      /\ DOMAIN Append(c.writers, e) = 1..Len(c.writers) + 1
      /\ \A i \in 1..Len(c.writers) : Append(c.writers, e)[i] = c.writers[i]
      /\ Append(c.writers, e)[Len(c.writers) + 1] = e
  BY <1>1, <1>2, AppendProperties, LenProperties
<1>4. d = [c EXCEPT !.writing = TRUE, !.flush = TRUE, !.writers = Append(c.writers, e)]
  BY DEF Started, e, ServeType
<1>5. /\ d.sq = c.sq /\ d.state = c.state /\ d.reset = c.reset /\ d.serve = c.serve
      /\ d.zero = c.zero /\ d.wrote = c.wrote /\ d.writing /\ d.skipped = c.skipped
      /\ d.writers = Append(c.writers, e)
  BY <1>4 DEF ServeType
<1>6. d \in ServeType
  BY <1>3, <1>4 DEF ServeType, W
<1> QED BY <1>3, <1>5, <1>6 DEF e, OneWriterMore

LEMMA StartedAnswers ==
  ASSUME NEW c \in ServeType, NEW f, NEW d, OneWriterMore(c, d, f), NEW s \in Streams
  PROVE  /\ f.waits /\ f.stream = s =>
              Answering(d, s) = Answering(c, s) \cup {Len(c.writers) + 1}
         /\ ~f.waits \/ f.stream # s => Answering(d, s) = Answering(c, s)
<1>1. /\ \A i \in DOMAIN c.writers : i \in DOMAIN d.writers /\ d.writers[i] = c.writers[i]
      /\ DOMAIN d.writers = 1..Len(c.writers) + 1
      /\ d.writers[Len(c.writers) + 1] = [frame |-> f, at |-> "write"]
  BY DEF OneWriterMore
<1>2. DOMAIN c.writers = 1..Len(c.writers) /\ Len(c.writers) \in Nat
  BY LenProperties DEF ServeType
<1> QED BY <1>1, <1>2 DEF Answering

\* ... one of no stream: nobody is answered.
LEMMA StartedConn ==
  ASSUME NEW c \in ServeType, NEW f \in ConnFrames, NEW s \in Streams
  PROVE  SameStream(c, Started(c, f), s)
<1> DEFINE d == Started(c, f)
<1>1. f \in StreamFrames \cup ConnFrames /\ ~f.waits
  BY DEF ConnFrames
<1>2. OneWriterMore(c, d, f)
  BY <1>1, StartedDoes
<1>3. Answering(d, s) = Answering(c, s)
  BY <1>1, <1>2, StartedAnswers
<1> QED BY <1>2, <1>3 DEF OneWriterMore, SameStream

\* ConnFrames have no stream, so that startFrameWrite writes them.
LEMMA StartsConn ==
  ASSUME NEW c \in ServeType, NEW f \in ConnFrames
  PROVE  StartFrameWrite(c, f) = Started(c, f)
  BY DEF StartFrameWrite, Started, ConnFrames
\* What a stream does not change of the connection
SameConn(c, d) ==
  /\ d \in ServeType /\ d.writers = c.writers /\ d.serve = c.serve
  /\ d.wrote = c.wrote /\ d.writing = c.writing /\ d.skipped = c.skipped

\* closeStream and what calls it at the end of a response
Closes(c, d, s) ==
  /\ SameConn(c, d)
  /\ d.state = [c.state EXCEPT ![s] = "closed"] /\ d.sq = [c.sq EXCEPT ![s] = <<>>]
  /\ d.reset \in {c.reset, c.reset \cup {s}}

LEMMA CloseStreamDoes ==
  ASSUME NEW c \in ServeType, NEW s \in Streams
  PROVE  Closes(c, CloseStream(c, s), s) /\ CloseStream(c, s).reset = c.reset
<1> DEFINE d == CloseStream(c, s)
<1>1. d = [c EXCEPT !.state = [c.state EXCEPT ![s] = "closed"],
                    !.sq = [c.sq EXCEPT ![s] = <<>>]]
  BY DEF CloseStream, ServeType
<1>2. <<>> \in Seq(StreamFrames)
  BY EmptySeq
<1>3. /\ [c.state EXCEPT ![s] = "closed"]
           \in [Streams -> {"idle", "open", "halfClosedRemote", "closed"}]
      /\ [c.sq EXCEPT ![s] = <<>>] \in [Streams -> Seq(StreamFrames)]
  BY <1>2 DEF ServeType
<1> QED BY <1>1, <1>3 DEF ServeType, Closes, SameConn

\* The frames serve makes itself
LEMMA OfConnTyped ==
  ASSUME NEW kind \in Kinds
  PROVE  OfConn(kind) \in ConnFrames
  BY DEF OfConn, Frame, ConnFrames

LEMMA AddConnDoes ==
  ASSUME NEW c \in ServeType, NEW kind \in Kinds
  PROVE  /\ SameConn(c, Add(c, OfConn(kind)))
         /\ Add(c, OfConn(kind)).state = c.state
         /\ Add(c, OfConn(kind)).sq = c.sq
         /\ Add(c, OfConn(kind)).reset = c.reset
<1> DEFINE d == Add(c, OfConn(kind))
<1>1. d = [c EXCEPT !.zero = Append(c.zero, OfConn(kind))]
  BY DEF Add, OfConn, Frame, ServeType
<1>2. Append(c.zero, OfConn(kind)) \in Seq(ConnFrames)
  BY OfConnTyped, AppendProperties DEF ServeType
<1> QED BY <1>1, <1>2 DEF ServeType, SameConn

LEMMA EndStreamDoes ==
  ASSUME NEW c \in ServeType, NEW s \in Streams
  PROVE  Closes(c, EndStream(c, s), s)
<1>1. CASE c.state[s] = "open"
  <2> DEFINE a == Add(c, OfConn("rst"))
             b == [a EXCEPT !.reset = a.reset \cup {s}]
             d == CloseStream(b, s)
  <2>1. EndStream(c, s) = d
    BY <1>1 DEF EndStream
  <2>2. SameConn(c, a) /\ a.state = c.state /\ a.sq = c.sq /\ a.reset = c.reset
    BY AddConnDoes DEF Kinds
  <2> HIDE DEF a
  <2>3. SameConn(c, b) /\ b.state = c.state /\ b.sq = c.sq /\ b.reset = c.reset \cup {s}
    BY <2>2 DEF ServeType, SameConn
  <2> HIDE DEF b
  <2>4. Closes(b, d, s) /\ d.reset = b.reset
    BY <2>3, CloseStreamDoes DEF SameConn
  <2> QED BY <2>1, <2>3, <2>4 DEF Closes, SameConn
<1>2. CASE c.state[s] # "open"
  BY <1>2, CloseStreamDoes DEF EndStream
<1> QED BY <1>1, <1>2

Ready(c) == c.serve = "loop" /\ ~c.writing

LEMMA CountOf ==
  ASSUME NEW b
  PROVE  (b => Count(b) = 1) /\ (~b => Count(b) = 0)
  BY DEF Count

LEMMA OneFlies ==
  ASSUME NEW c, ServeInv(c), Steady, c.serve = "loop"
  PROVE  Flying(c)
<1>1. Excess(c) \in 0..0
  BY DEF ServeInv, Accounted
<1>2. Len(c.writers) \in Nat
  BY LenProperties DEF ServeInv, ServeType
<1>3. Len(c.writers) + Count(c.wrote) - Count(c.writing) = 0
  BY <1>1 DEF Excess
<1>4. CASE c.writing /\ c.wrote
  <2>1. Count(c.wrote) = 1 /\ Count(c.writing) = 1
    BY <1>4, CountOf
  <2>2. Len(c.writers) = 0
    BY <1>2, <1>3, <2>1
  <2> QED BY <1>4, <2>2 DEF Flying
<1>5. CASE c.writing /\ ~c.wrote
  <2>1. Count(c.wrote) = 0 /\ Count(c.writing) = 1
    BY <1>5, CountOf
  <2>2. Len(c.writers) = 1
    BY <1>2, <1>3, <2>1
  <2> QED BY <1>5, <2>2 DEF Flying
<1>6. CASE ~c.writing
  <2>1. Count(c.wrote) \in {0, 1} /\ Count(c.writing) = 0
    BY <1>6, CountOf
  <2>2. Len(c.writers) = 0 /\ Count(c.wrote) = 0
    BY <1>2, <1>3, <2>1
  <2> QED BY <1>6, <2>2, CountOf DEF Flying
<1> QED BY <1>4, <1>5, <1>6

LEMMA NothingFlies ==
  ASSUME NEW c, ServeInv(c), Steady, Ready(c)
  PROVE  Len(c.writers) = 0 /\ ~c.wrote
  BY OneFlies DEF Flying, Ready

\* The frame of a writer is one more that is being written, and writingFrame tells of it.
LEMMA StartedAccounted ==
  ASSUME NEW c \in ServeType, Accounted(c), ~c.writing, NEW f, NEW d, OneWriterMore(c, d, f)
  PROVE  Accounted(d)
<1>1. Len(c.writers) \in Nat
  BY LenProperties DEF ServeType
<1>2. /\ d.wrote = c.wrote /\ d.writing
      /\ Len(d.writers) = Len(c.writers) + 1 /\ d.skipped = c.skipped
  BY DEF OneWriterMore
<1>3. Count(c.writing) = 0 /\ Count(d.writing) = 1
  BY <1>2, CountOf
<1>4. Excess(d) = Excess(c)
  <2>1. PICK m \in {0, 1} : Count(c.wrote) = m /\ Count(d.wrote) = m
    BY <1>2, CountOf
  <2>2. Len(d.writers) = Len(c.writers) + 1
    BY <1>2
  <2>3. Excess(c) = Len(c.writers) + m - 0 /\ Excess(d) = Len(d.writers) + m - 1
    BY <1>3, <2>1 DEF Excess
  <2> QED BY <1>1, <2>1, <2>2, <2>3
<1> QED BY <1>2, <1>4 DEF Accounted

\* startFrameWrite of what was taken from the queue of a stream
LEMMA StartsStream ==
  ASSUME NEW c, NEW hs, NEW q \in Seq(StreamFrames), Inv(c, hs, q), Ready(c),
         NEW s \in Streams, c.sq[s] # <<>>, NEW e, NEW f,
         Whole(c, e, f, s) \/ Split(c, e, f, s),
         NEW d, d = StartFrameWrite(e, f)
  PROVE  Inv(d, hs, q)
<1>1. /\ c \in ServeType /\ \A t \in Streams : StreamInv(c, hs[t], q, t)
      /\ \A t \in Streams : \A i \in DOMAIN c.sq[t] : c.sq[t][i].stream = t
  BY DEF Inv, ServeInv
<1>2. OnlyTaken(c, e, f, s)
  <2>1. c \in ServeType /\ \A i \in DOMAIN c.sq[s] : c.sq[s][i].stream = s
    BY <1>1
  <2> QED BY <2>1, TakenTyped
<1>3. /\ e.state = c.state /\ e.reset = c.reset /\ e.writers = c.writers
      /\ e.serve = "loop" /\ e.wrote = c.wrote /\ e.writing = c.writing
      /\ e.skipped = c.skipped
      /\ \A t \in Streams : t # s => e.sq[t] = c.sq[t]
  BY <1>2 DEF OnlyTaken, Ready
<1>4. Leaves(c, e, f, q, s)
  BY <1>1, TakenLeaves
<1>5. \A t \in Streams : Answering(e, t) = Answering(c, t)
  BY <1>3 DEF Answering
<1>6. /\ Accounted(e) /\ ~e.writing /\ e \in ServeType
      /\ Steady => c.skipped = 0
  BY <1>2, <1>3 DEF Inv, ServeInv, Ready, Accounted, Excess, OnlyTaken
<1>7. f.stream # None
  BY <1>2, NoneAssumption DEF OnlyTaken
<1>8. c.state[s] \in {"idle", "open", "halfClosedRemote", "closed"}
  BY <1>1 DEF ServeType
<1>9. c.state[s] # "idle"
  BY <1>1, <1>4 DEF StreamInv, IdleInv, Leaves
<1>10. CASE c.state[s] = "closed"
  <2>1. s \in c.reset /\ ~Steady
    BY <1>1, <1>4, <1>10 DEF StreamInv, ClosedInv, Leaves, Ready
  <2>2. \/ d = [e EXCEPT !.serve = "stuck"]
        \/ ~e.wrote /\ d = [e EXCEPT !.wrote = TRUE, !.skipped = e.skipped + 1]
    BY <1>2, <1>3, <1>7, <1>10, <2>1 DEF StartFrameWrite, OnlyTaken, ServeType
  <2>8. d.serve = "loop" => Accounted(d)
    <3>1. ASSUME d.serve = "loop"
          PROVE  /\ ~e.wrote /\ d.wrote /\ d.skipped = e.skipped + 1
                 /\ d.writers = e.writers /\ d.writing = e.writing
      BY <1>6, <2>2, <3>1 DEF ServeType
    <3>2. Len(e.writers) \in Nat /\ e.skipped \in Nat
      BY <1>6, LenProperties DEF ServeType
    <3>3. d.serve = "loop" => Excess(d) = Excess(e) + 1
      <4>1. d.serve = "loop" =>
              Count(e.wrote) = 0 /\ Count(d.wrote) = 1 /\ Count(d.writing) = Count(e.writing)
        BY <3>1, CountOf
      <4>2. Count(e.writing) = 0
        BY <1>6, CountOf
      <4> QED BY <3>1, <3>2, <4>1, <4>2 DEF Excess
    <3>4. Excess(e) \in 0..e.skipped
      BY <1>6 DEF Accounted
    <3> QED BY <3>1, <3>2, <3>3, <3>4 DEF Accounted
  <2>3. /\ d \in ServeType /\ d.sq = e.sq /\ d.state = c.state /\ d.reset = c.reset
        /\ d.writers = c.writers /\ d.serve \in {"loop", "stuck"}
    <3>1. e.skipped + 1 \in Nat
      BY <1>6 DEF ServeType
    <3>2. CASE d = [e EXCEPT !.serve = "stuck"]
      BY <1>3, <1>6, <3>2 DEF ServeType
    <3>3. CASE d = [e EXCEPT !.wrote = TRUE, !.skipped = e.skipped + 1]
      BY <1>3, <1>6, <3>1, <3>3 DEF ServeType
    <3> QED BY <2>2, <3>2, <3>3
  <2>4. \A t \in Streams : Answering(d, t) = Answering(c, t)
    BY <2>3 DEF Answering
  <2>5. ASSUME NEW t \in Streams, t # s PROVE StreamInv(d, hs[t], q, t)
    <3>1. SameStream(c, d, t)
      BY <1>1, <1>3, <2>3, <2>4, <2>5 DEF SameStream, Ready
    <3> QED BY <1>1, <3>1, Unmoved
  <2>6. StreamInv(d, hs[s], q, s)
    BY <1>1, <1>10, <2>1, <2>3, <2>4 DEF StreamInv, OneAnswer, IdleInv, LiveInv, ClosedInv, Live
  <2>7. \A t \in Streams : \A i \in DOMAIN d.sq[t] : d.sq[t][i].stream = t
    BY <1>1, <1>2, <1>3, <2>3 DEF OnlyTaken
  <2> QED BY <2>1, <2>3, <2>5, <2>6, <2>7, <2>8 DEF Inv, ServeInv
<1>11. CASE Live(c, s)
  <2> DEFINE b == Started(e, f)
             x == hs[s]
  <2>1. OneWriterMore(e, b, f)
    BY <1>2, StartedDoes DEF OnlyTaken
  <2>0. /\ b \in ServeType /\ b.sq = e.sq
        /\ b.state = c.state /\ b.reset = c.reset /\ b.serve = "loop"
    BY <1>3, <2>1 DEF OneWriterMore
  <2>2. /\ f.waits => Answering(b, s) = Answering(c, s) \cup {Len(e.writers) + 1}
        /\ ~f.waits => Answering(b, s) = Answering(c, s)
        /\ \A t \in Streams : t # s => Answering(b, t) = Answering(c, t)
    BY <1>2, <1>5, <2>1, StartedAnswers DEF OnlyTaken
  <2>3. d = IF f.end THEN EndStream(b, s) ELSE b
    BY <1>2, <1>3, <1>7, <1>11 DEF StartFrameWrite, Started, Live, OnlyTaken
  <2> HIDE DEF b
  <2>4. LiveInv(c, x, q, s) /\ OneAnswer(c, x, s) /\ Live(c, s)
    BY <1>1, <1>11 DEF StreamInv
  <2>5. f.waits => Waits(x) /\ ~x.reply /\ Answering(c, s) = {}
    BY <1>4, <2>4 DEF LiveInv, Leaves
  <2>6. f.end => Finished(x)
    BY <1>4, <2>4 DEF LiveInv, Leaves
  <2>7. OneAnswer(b, x, s)
    BY <2>2, <2>4, <2>5 DEF OneAnswer
  <2>8. Queued(b, q, s) = Queued(e, q, s) /\ (LastOnly(b, q, s) <=> LastOnly(e, q, s))
    BY <2>0 DEF Queued, LastOnly
  <2>9. Accounted(b) /\ (Steady => b.skipped = 0)
    <3>1. Accounted(b)
      BY <1>6, <2>1, StartedAccounted
    <3> QED BY <1>3, <1>6, <2>1, <3>1 DEF OneWriterMore
  <2>10. CASE ~f.end
    <3>1. d = b
      BY <2>3, <2>10
    <3>2. ASSUME NEW t \in Streams, t # s PROVE StreamInv(d, hs[t], q, t)
      <4>1. SameStream(c, d, t)
        BY <1>3, <2>0, <2>2, <3>1, <3>2 DEF SameStream, Ready
      <4> QED BY <1>1, <4>1, Unmoved
    <3>3. LiveInv(d, x, q, s)
      <4>1. ASSUME NEW g \in Queued(b, q, s)
            PROVE  /\ g.end => Finished(x)
                   /\ g.waits => Waits(x) /\ ~x.reply /\ Answering(b, s) = {}
        <5>1. PICK g0 \in Queued(c, q, s) : g0.end = g.end /\ g0.waits = g.waits
          BY <1>4, <2>8 DEF Leaves
        <5>2. ~f.waits
          BY <1>4, <2>4, <2>8, <4>1 DEF LiveInv, Plain, Leaves
        <5>3. Answering(b, s) = Answering(c, s)
          BY <2>2, <5>2
        <5> QED BY <2>4, <5>1, <5>3 DEF LiveInv
      <4>2. x.reply \/ Answering(b, s) # {} => Waits(x)
        BY <2>2, <2>4, <2>5 DEF LiveInv
      <4>3. x.pc # "none" /\ ~x.broken /\ LastOnly(b, q, s)
        BY <1>4, <2>4, <2>8 DEF LiveInv, Leaves
      <4> QED BY <3>1, <4>1, <4>2, <4>3 DEF LiveInv
    <3>4. StreamInv(d, x, q, s)
      BY <1>11, <2>0, <2>7, <3>1, <3>3 DEF StreamInv, IdleInv, ClosedInv, Live
    <3>5. \A t \in Streams : \A i \in DOMAIN d.sq[t] : d.sq[t][i].stream = t
      BY <1>1, <1>2, <1>3, <2>0, <3>1 DEF OnlyTaken
    <3> QED BY <2>0, <2>9, <3>1, <3>2, <3>4, <3>5 DEF Inv, ServeInv
  <2>11. CASE f.end
    <3>1. Closes(b, d, s)
      BY <2>0, <2>3, <2>11, EndStreamDoes
    <3>2. /\ d.state[s] = "closed" /\ d.sq[s] = <<>>
          /\ \A t \in Streams : t # s => d.state[t] = c.state[t] /\ d.sq[t] = c.sq[t]
      BY <1>1, <1>3, <2>0, <3>1 DEF Closes, ServeType
    <3>3. \A t \in Streams : Answering(d, t) = Answering(b, t)
      BY <3>1 DEF Answering, Closes, SameConn
    <3>4. ASSUME NEW t \in Streams, t # s PROVE StreamInv(d, hs[t], q, t)
      <4>1. SameStream(c, d, t)
        BY <2>0, <2>2, <3>1, <3>2, <3>3, <3>4 DEF SameStream, Ready, Closes, SameConn
      <4> QED BY <1>1, <4>1, Unmoved
    <3>5. Queued(d, q, s) = {}
      <4>1. Queued(e, q, s) = {}
        BY <1>4, <2>4, <2>11 DEF LiveInv, Plain, Leaves
      <4>2. DOMAIN d.sq[s] = {}
        BY <3>2
      <4> QED BY <4>1, <4>2 DEF Queued
    <3>6. OneAnswer(d, x, s)
      BY <2>7, <3>3 DEF OneAnswer
    <3>7. StreamInv(d, x, q, s)
      BY <2>6, <2>11, <3>2, <3>5, <3>6 DEF StreamInv, IdleInv, LiveInv, ClosedInv, Live
    <3>8. \A t \in Streams : \A i \in DOMAIN d.sq[t] : d.sq[t][i].stream = t
      BY <1>1, <3>2
    <3>9. Accounted(d) /\ (Steady => d.skipped = 0)
      BY <2>9, <3>1 DEF Accounted, Excess, Closes, SameConn
    <3> QED BY <2>0, <3>1, <3>4, <3>7, <3>8, <3>9 DEF Inv, ServeInv, Closes, SameConn
  <2> QED BY <2>10, <2>11
<1> QED BY <1>8, <1>9, <1>10, <1>11 DEF Live
---------------------------------------------------------------------------
(* scheduleFrameWrite *)

\* The queue of frames of no stream and the flags of serve
Beside(c, d) ==
  /\ SameConn(c, d)
  /\ d.state = c.state /\ d.sq = c.sq /\ d.reset = c.reset

LEMMA BesideKeeps ==
  ASSUME NEW c, NEW hs, NEW q, Inv(c, hs, q), NEW d, Beside(c, d)
  PROVE  Inv(d, hs, q)
<1>1. /\ d \in ServeType /\ d.writers = c.writers /\ d.serve = c.serve
      /\ d.wrote = c.wrote /\ d.writing = c.writing /\ d.skipped = c.skipped
      /\ d.state = c.state /\ d.sq = c.sq /\ d.reset = c.reset
  BY DEF Beside, SameConn
<1>2. Accounted(d) <=> Accounted(c)
  BY <1>1 DEF Accounted, Excess
<1>3. \A s \in Streams : Live(d, s) <=> Live(c, s)
  BY <1>1 DEF Live
<1>4. \A s \in Streams : SameStream(c, d, s)
  BY <1>1, SameStreams
<1>5. \A s \in Streams : StreamInv(d, hs[s], q, s)
  BY <1>4, Unmoved DEF Inv
<1> QED BY <1>1, <1>2, <1>3, <1>5 DEF Inv, ServeInv

LEMMA ConnKeeps ==
  ASSUME NEW c, NEW hs, NEW q, Inv(c, hs, q), Ready(c), NEW e, Beside(c, e),
         NEW f \in ConnFrames
  PROVE  Inv(StartFrameWrite(e, f), hs, q)
<1> DEFINE d == Started(e, f)
<1>1. Inv(e, hs, q) /\ e \in ServeType
  BY BesideKeeps DEF Beside, SameConn
<1>2. Ready(e)
  BY DEF Ready, Beside, SameConn
<1>3. StartFrameWrite(e, f) = d
  BY <1>1, StartsConn
<1>4. f \in StreamFrames \cup ConnFrames
  OBVIOUS
<1>5. OneWriterMore(e, d, f)
  BY <1>1, <1>4, StartedDoes
<1>6. \A s \in Streams : StreamInv(d, hs[s], q, s)
  BY <1>1, StartedConn, Unmoved DEF Inv
<1> HIDE DEF d
<1>7. Accounted(d) /\ (Steady => d.skipped = 0)
  <2>1. Accounted(e) /\ ~e.writing /\ (Steady => e.skipped = 0)
    BY <1>1, <1>2 DEF Inv, ServeInv, Ready
  <2>2. Accounted(d)
    BY <1>1, <1>5, <2>1, StartedAccounted
  <2> QED BY <1>5, <2>1, <2>2 DEF OneWriterMore
<1>8. d \in ServeType /\ d.sq = e.sq /\ d.serve = "loop"
  BY <1>2, <1>5 DEF OneWriterMore, Ready
<1> QED BY <1>1, <1>3, <1>6, <1>7, <1>8 DEF Inv, ServeInv

LEMMA TakeKeeps ==
  ASSUME NEW c, NEW hs, NEW q \in Seq(StreamFrames), Inv(c, hs, q), Ready(c),
         NEW t \in Take(c)
  PROVE  Inv(StartFrameWrite(t.rest, t.frame), hs, q)
<1>1. c \in ServeType
  BY DEF Inv, ServeInv
<1>2. CASE c.zero # <<>>
  <2> DEFINE f == Head(c.zero)
             e == [c EXCEPT !.zero = Tail(c.zero)]
  <2>1. t.frame = f /\ t.rest = e
    BY <1>2 DEF Take, Taken
  <2>2. f \in ConnFrames /\ Tail(c.zero) \in Seq(ConnFrames)
    BY <1>1, <1>2, HeadTailProperties DEF ServeType
  <2>3. Beside(c, e)
    BY <1>1, <2>2 DEF ServeType, Beside, SameConn
  <2> QED BY <2>1, <2>2, <2>3, ConnKeeps
<1>3. CASE \E s \in Streams : c.sq[s] # <<>> /\ t = TakeFrom(c, s)
  <2>1. PICK s \in Streams : c.sq[s] # <<>> /\ t = TakeFrom(c, s)
    BY <1>3
  <2>2. Whole(c, t.rest, t.frame, s) \/ Split(c, t.rest, t.frame, s)
    BY <1>1, <2>1, TakesFrom
  <2> QED BY <2>1, <2>2, StartsStream
<1> QED BY <1>2, <1>3 DEF Take

LEMMA ScheduleKeeps ==
  ASSUME NEW c, NEW hs, NEW q \in Seq(StreamFrames), Inv(c, hs, q), c.serve = "loop",
         NEW d \in Schedule(c)
  PROVE  Inv(d, hs, q)
<1>1. c \in ServeType
  BY DEF Inv, ServeInv
<1>2. \A kind \in {"goaway", "settingsAck", "flush"} : OfConn(kind) \in ConnFrames
  BY OfConnTyped DEF Kinds
<1>3. Beside(c, c) /\ Beside(c, [c EXCEPT !.needGoAway = FALSE])
      /\ Beside(c, [c EXCEPT !.needAck = FALSE])
  BY <1>1 DEF ServeType, Beside, SameConn
<1>4. CASE d = c
  BY <1>4
<1>5. CASE Ready(c)
  <2>1. CASE d = StartFrameWrite([c EXCEPT !.needGoAway = FALSE], OfConn("goaway"))
    BY <1>2, <1>3, <1>5, <2>1, ConnKeeps
  <2>2. CASE d = StartFrameWrite([c EXCEPT !.needAck = FALSE], OfConn("settingsAck"))
    BY <1>2, <1>3, <1>5, <2>2, ConnKeeps
  <2>3. CASE \E t \in Take(c) : d = StartFrameWrite(t.rest, t.frame)
    BY <1>5, <2>3, TakeKeeps
  <2>4. CASE d = [StartFrameWrite(c, OfConn("flush")) EXCEPT !.flush = FALSE]
    <3> DEFINE b == StartFrameWrite(c, OfConn("flush"))
    <3>1. Inv(b, hs, q)
      BY <1>2, <1>3, <1>5, ConnKeeps
    <3>2. d = [b EXCEPT !.flush = FALSE]
      BY <2>4
    <3> HIDE DEF b
    <3>3. Beside(b, d)
      BY <3>1, <3>2 DEF Inv, ServeInv, ServeType, Beside, SameConn
    <3> QED BY <3>1, <3>3, BesideKeeps
  <2> QED BY <1>4, <2>1, <2>2, <2>3, <2>4 DEF Schedule
<1> QED BY <1>4, <1>5 DEF Schedule, Ready
---------------------------------------------------------------------------
(* What a handler does to the invariant of its stream *)

\* A handler that has nothing under way
Resting(c, x, q, s) ==
  /\ c.state[s] # "idle" /\ OneAnswer(c, x, s)
  /\ ~(c.state[s] = "closed" /\ c.serve = "loop" /\ (Steady \/ s \notin c.reset))
  /\ Live(c, s) => /\ ~x.broken /\ ~x.reply /\ Answering(c, s) = {}
                   /\ LastOnly(c, q, s) /\ \A f \in Queued(c, q, s) : Plain(f)

LEMMA HandlerRests ==
  ASSUME NEW c, NEW x, NEW q, NEW s, StreamInv(c, x, q, s),
         x.pc \in {"run", "sendHeader", "sendData"}
  PROVE  Resting(c, x, q, s)
<1>1. c.state[s] # "idle"
  BY DEF StreamInv, IdleInv, Idle
<1>2. ~Waits(x) /\ ~Finished(x)
  BY DEF Waits, Finished
<1> QED BY <1>1, <1>2 DEF Resting, StreamInv, LiveInv, ClosedInv, Plain

LEMMA GoesOn ==
  ASSUME NEW c, NEW x, NEW q, NEW s, Resting(c, x, q, s),
         NEW y, y.pc # "none", y.reply = x.reply, y.broken = x.broken
  PROVE  StreamInv(c, y, q, s)
<1>1. OneAnswer(c, y, s)
  BY DEF Resting, OneAnswer
<1>2. LiveInv(c, y, q, s)
  BY DEF Resting, LiveInv, Plain
<1> QED BY <1>1, <1>2 DEF Resting, StreamInv, IdleInv, ClosedInv

\* It gives a frame to serve.
LEMMA Sends ==
  ASSUME NEW c \in ServeType, NEW q \in Seq(StreamFrames), NEW f \in StreamFrames,
         f.stream \in Streams, NEW x, Resting(c, x, q, f.stream),
         NEW y, y.pc # "none", y.reply = x.reply, y.broken = x.broken,
         f.end => Finished(y), f.waits => Waits(y)
  PROVE  StreamInv(c, y, Append(q, f), f.stream)
<1> DEFINE s == f.stream
           p == Append(q, f)
<1>1. OneAnswer(c, y, s)
  BY DEF Resting, OneAnswer
<1>2. /\ Queued(c, p, s) = Queued(c, q, s) \cup {f}
      /\ (\A g \in Queued(c, q, s) : Plain(g)) => LastOnly(c, p, s)
  BY Appended DEF Given
<1> HIDE DEF p, s
<1>3. ASSUME Live(c, s) PROVE LiveInv(c, y, p, s)
  <2>1. /\ ~x.broken /\ ~x.reply /\ Answering(c, s) = {}
        /\ LastOnly(c, p, s) /\ \A g \in Queued(c, q, s) : Plain(g)
    BY <1>2, <1>3 DEF Resting, s
  <2>2. \A g \in Queued(c, p, s) : (g.end => Finished(y)) /\ (g.waits => Waits(y))
    BY <1>2, <2>1 DEF Plain
  <2> QED BY <2>1, <2>2 DEF LiveInv
<1>4. LiveInv(c, y, p, s)
  BY <1>3 DEF LiveInv
<1>5. Resting(c, x, q, s)
  BY DEF s
<1> QED BY <1>1, <1>4, <1>5 DEF Resting, StreamInv, IdleInv, ClosedInv, p, s

\* Frames of other streams do not matter.
LEMMA Carried ==
  ASSUME NEW c, NEW x, NEW q, NEW s, StreamInv(c, x, q, s), NEW d, NEW p,
         Queued(d, p, s) = Queued(c, q, s), LastOnly(c, q, s) => LastOnly(d, p, s),
         d.state = c.state, d.reset = c.reset, d.serve = c.serve,
         Answering(d, s) = Answering(c, s)
  PROVE  StreamInv(d, x, p, s)
<1>1. Live(d, s) <=> Live(c, s)
  BY DEF Live
<1>2. OneAnswer(d, x, s)
  BY DEF StreamInv, OneAnswer
<1>3. IdleInv(d, x, p, s)
  BY DEF StreamInv, IdleInv
<1>4. LiveInv(d, x, p, s)
  BY <1>1 DEF StreamInv, LiveInv
<1>5. ClosedInv(d, x, p, s)
  BY DEF StreamInv, ClosedInv
<1> QED BY <1>2, <1>3, <1>4, <1>5 DEF StreamInv

\* It gets the answer it waits for.
LEMMA Answered ==
  ASSUME NEW c, NEW x, NEW q, NEW s, StreamInv(c, x, q, s), Waits(x), x.reply,
         NEW y, y.pc # "none", ~y.reply, y.broken = x.broken, Finished(x) => Finished(y)
  PROVE  StreamInv(c, y, q, s)
<1>1. c.state[s] # "idle"
  BY DEF StreamInv, IdleInv, Idle, Waits
<1>2. Answering(c, s) = {}
  BY DEF StreamInv, OneAnswer
<1>3. OneAnswer(c, y, s)
  BY <1>2 DEF OneAnswer
<1>4. LiveInv(c, y, q, s)
  BY <1>2 DEF StreamInv, LiveInv
<1> QED BY <1>1, <1>3, <1>4 DEF StreamInv, IdleInv, ClosedInv

\* It waits no longer, for its stream is closed.
LEMMA GivesUp ==
  ASSUME NEW c, NEW x, NEW q, NEW s, StreamInv(c, x, q, s), Waits(x), ~Live(c, s),
         NEW y, y.reply = x.reply, Finished(x) => Finished(y)
  PROVE  StreamInv(c, y, q, s)
<1>1. c.state[s] # "idle"
  BY DEF StreamInv, IdleInv, Idle, Waits
<1>2. OneAnswer(c, y, s)
  BY DEF StreamInv, OneAnswer
<1> QED BY <1>1, <1>2 DEF StreamInv, IdleInv, LiveInv, ClosedInv

\* The steps of a handler concern its stream.
LEMMA OneHandler ==
  ASSUME NEW s \in Streams, IInv, NEW y \in HandlerType, h' = [h EXCEPT ![s] = y],
         want' = want, sc' = sc, gone' = gone, control' = control,
         StreamInv(sc, y, want, s)
  PROVE  IInv'
<1>1. h' \in [Streams -> HandlerType] /\ h'[s] = y /\ \A t \in Streams \ {s} : h'[t] = h[t]
  BY DEF IInv, Others
<1>2. \A t \in Streams : StreamInv(sc, h'[t], want, t)
  BY <1>1 DEF IInv, Inv
<1>3. Inv(sc, h', want)
  BY <1>2 DEF IInv, Inv
<1>4. Others'
  BY <1>1 DEF IInv, Others
<1> QED BY <1>3, <1>4 DEF IInv

\* ... when it sends a frame too.
LEMMA OneSender ==
  ASSUME NEW s \in Streams, IInv, NEW y \in HandlerType, h' = [h EXCEPT ![s] = y],
         NEW f \in StreamFrames, f.stream = s, FromHandler(f),
         sc' = sc, gone' = gone, control' = control,
         Resting(sc, h[s], want, s), y.pc # "none",
         y.reply = h[s].reply, y.broken = h[s].broken,
         f.end => Finished(y), f.waits => Waits(y)
  PROVE  IInv'
<1>1. h' \in [Streams -> HandlerType] /\ h'[s] = y /\ \A t \in Streams \ {s} : h'[t] = h[t]
  BY DEF IInv, Others
<1>2. sc \in ServeType /\ want \in Seq(StreamFrames) /\ Len(want) \in Nat
  BY LenProperties DEF IInv, Others, Inv, ServeInv
<1>3. CASE want' = want
  BY <1>3, GoesOn, OneHandler
<1>4. CASE Len(want) < WantCap /\ want' = Append(want, f)
  <2>1. StreamInv(sc, y, Append(want, f), s)
    BY <1>2, Sends
  <2>2. ASSUME NEW t \in Streams, t # s PROVE StreamInv(sc, h[t], Append(want, f), t)
    <3>1. /\ Queued(sc, Append(want, f), t) = Queued(sc, want, t)
          /\ LastOnly(sc, want, t) => LastOnly(sc, Append(want, f), t)
      BY <1>2, <2>2, Appended DEF Given
    <3>2. StreamInv(sc, h[t], want, t)
      BY DEF IInv, Inv
    <3> QED BY <3>1, <3>2, Carried
  <2>3. Inv(sc, h', want')
    BY <1>1, <1>4, <2>1, <2>2 DEF IInv, Inv
  <2>4. want' \in Seq(StreamFrames) /\ Len(want') <= WantCap
    BY <1>2, <1>4, AppendProperties, SizesAssumption
  <2>5. Others'
    BY <1>1, <2>4 DEF IInv, Others
  <2> QED BY <2>3, <2>5 DEF IInv
<1> QED BY <1>3, <1>4 DEF FromHandler
---------------------------------------------------------------------------
(* The steps of the handlers *)

LEMMA HandlerOf ==
  ASSUME IInv, NEW s \in Streams
  PROVE  h[s] \in HandlerType /\ StreamInv(sc, h[s], want, s) /\ sc \in ServeType
  BY DEF IInv, Others, Inv, ServeInv

\* AfterHeader leaves a handler that has sent the end of its response.
LEMMA AfterHeaderDoes ==
  ASSUME NEW s \in Streams
  PROVE  /\ AfterHeader(s) \in {"exited", "run", "sendData"}
         /\ h[s].done /\ h[s].n = 0 => AfterHeader(s) = "exited"
  BY DEF AfterHeader

LEMMA WriteChunkStep ==
  ASSUME IInv, NEW s \in Streams, NEW n \in 0..MaxData, WriteChunk(s, n)
  PROVE  IInv'
<1> DEFINE x == h[s]
           y == [x EXCEPT !.pc = IF x.sentHeader THEN "sendData" ELSE "sendHeader",
                          !.n = n, !.writes = x.writes + 1]
<1>1. x \in HandlerType /\ Resting(sc, x, want, s)
  BY HandlerOf, HandlerRests DEF WriteChunk
<1>2. x.writes + 1 \in 0..MaxWrites
  BY <1>1, SizesAssumption DEF WriteChunk, HandlerType
<1>3. y \in HandlerType /\ y.pc # "none" /\ y.reply = x.reply /\ y.broken = x.broken
  BY <1>1, <1>2 DEF HandlerType
<1>4. h' = [h EXCEPT ![s] = y]
  BY <1>1 DEF WriteChunk, IInv, Others, HandlerType
<1> HIDE DEF x, y
<1>5. StreamInv(sc, y, want, s)
  BY <1>1, <1>3, GoesOn
<1> QED BY <1>3, <1>4, <1>5, OneHandler DEF WriteChunk

LEMMA HandlerDoneStep ==
  ASSUME IInv, NEW s \in Streams, NEW n \in 0..MaxData, HandlerDone(s, n)
  PROVE  IInv'
<1> DEFINE x == h[s]
           y == [x EXCEPT !.pc = IF x.broken /\ n > 0 THEN "exited"
                                 ELSE IF x.sentHeader THEN "sendData" ELSE "sendHeader",
                          !.n = n, !.done = TRUE]
<1>1. x \in HandlerType /\ Resting(sc, x, want, s)
  BY HandlerOf, HandlerRests DEF HandlerDone
<1>2. y \in HandlerType /\ y.pc # "none" /\ y.reply = x.reply /\ y.broken = x.broken
  BY <1>1 DEF HandlerType
<1>3. h' = [h EXCEPT ![s] = y]
  BY <1>1 DEF HandlerDone, IInv, Others, HandlerType
<1> HIDE DEF x, y
<1>4. StreamInv(sc, y, want, s)
  BY <1>1, <1>2, GoesOn
<1> QED BY <1>2, <1>3, <1>4, OneHandler DEF HandlerDone

LEMMA SendHeaderStep ==
  ASSUME IInv, NEW s \in Streams, SendHeader(s)
  PROVE  IInv'
<1> DEFINE x == h[s]
           y == [x EXCEPT !.sentHeader = TRUE,
                          !.pc = IF x.typed THEN "waitHeader" ELSE AfterHeader(s)]
           f == Frame("header", s, 0, x.done /\ x.n = 0, x.typed)
<1>1. x \in HandlerType /\ Resting(sc, x, want, s)
  BY HandlerOf, HandlerRests DEF SendHeader
<1>2. /\ AfterHeader(s) \in {"exited", "run", "sendData"}
      /\ x.done /\ x.n = 0 => AfterHeader(s) = "exited"
  BY AfterHeaderDoes
<1>3. y \in HandlerType /\ y.pc # "none" /\ y.reply = x.reply /\ y.broken = x.broken
  BY <1>1, <1>2 DEF HandlerType
<1>4. h' = [h EXCEPT ![s] = y] /\ FromHandler(f)
  BY <1>1 DEF SendHeader, IInv, Others, HandlerType
<1>5. f \in StreamFrames /\ f.stream = s
  BY <1>1 DEF Frame, HandlerType, StreamFrames, HeaderFrames
<1>6. f.end => Finished(y)
  BY <1>1, <1>2 DEF Frame, Finished, HandlerType
<1>7. f.waits => Waits(y)
  BY <1>1 DEF Frame, Waits, HandlerType
<1>8. sc' = sc /\ gone' = gone /\ control' = control
  BY DEF SendHeader
<1> HIDE DEF x, y, f
<1> QED BY <1>1, <1>3, <1>4, <1>5, <1>6, <1>7, <1>8, OneSender DEF x

LEMMA SendDataStep ==
  ASSUME IInv, NEW s \in Streams, SendData(s)
  PROVE  IInv'
<1> DEFINE x == h[s]
           y == [x EXCEPT !.pc = "waitData"]
           f == Frame("data", s, x.n, x.done, TRUE)
<1>1. x \in HandlerType /\ Resting(sc, x, want, s)
  BY HandlerOf, HandlerRests DEF SendData
<1>2. y \in HandlerType /\ y.pc # "none" /\ y.reply = x.reply /\ y.broken = x.broken
  BY <1>1 DEF HandlerType
<1>3. h' = [h EXCEPT ![s] = y] /\ FromHandler(f)
  BY <1>1 DEF SendData, Goto, IInv, Others, HandlerType
<1>4. f \in StreamFrames /\ f.stream = s
  BY <1>1 DEF Frame, HandlerType, StreamFrames, DataFrames
<1>5. f.end => Finished(y)
  BY <1>1 DEF Frame, Finished, HandlerType
<1>6. f.waits => Waits(y)
  BY <1>1 DEF Frame, Waits, HandlerType
<1>7. sc' = sc /\ gone' = gone /\ control' = control
  BY DEF SendData
<1> HIDE DEF x, y, f
<1> QED BY <1>1, <1>2, <1>3, <1>4, <1>5, <1>6, <1>7, OneSender DEF x

\* Once serve is done, no stream is open.
LEMMA DoneCloses ==
  ASSUME IInv, NEW s \in Streams, sc.serve = "done" \/ sc.state[s] = "closed"
  PROVE  ~Live(sc, s)
  BY DEF IInv, Inv, ServeInv, Live

LEMMA HeaderWrittenStep ==
  ASSUME IInv, NEW s \in Streams, HeaderWritten(s)
  PROVE  IInv'
<1> DEFINE x == h[s]
<1>1. x \in HandlerType /\ StreamInv(sc, x, want, s) /\ Waits(x)
  BY HandlerOf DEF HeaderWritten, Waits
<1>2. /\ AfterHeader(s) \in {"exited", "run", "sendData"}
      /\ x.done /\ x.n = 0 => AfterHeader(s) = "exited"
  BY AfterHeaderDoes
<1>3. sc' = sc /\ want' = want /\ gone' = gone /\ control' = control
  BY DEF HeaderWritten
<1>4. CASE x.reply /\ h' = [h EXCEPT ![s].pc = AfterHeader(s), ![s].reply = FALSE]
  <2> DEFINE y == [x EXCEPT !.pc = AfterHeader(s), !.reply = FALSE]
  <2>1. y \in HandlerType /\ y.pc # "none" /\ ~y.reply /\ y.broken = x.broken
    BY <1>1, <1>2 DEF HandlerType
  <2>2. Finished(x) => Finished(y)
    BY <1>1, <1>2 DEF Finished, HandlerType, HeaderWritten
  <2>3. h' = [h EXCEPT ![s] = y]
    BY <1>1, <1>4 DEF IInv, Others, HandlerType
  <2> HIDE DEF x, y
  <2>4. StreamInv(sc, y, want, s)
    BY <1>1, <1>4, <2>1, <2>2, Answered
  <2> QED BY <1>3, <2>1, <2>3, <2>4, OneHandler
<1>5. CASE sc.serve = "done" /\ Goto(s, AfterHeader(s))
  <2> DEFINE y == [x EXCEPT !.pc = AfterHeader(s)]
  <2>1. y \in HandlerType /\ y.reply = x.reply
    BY <1>1, <1>2 DEF HandlerType
  <2>2. Finished(x) => Finished(y)
    BY <1>1, <1>2 DEF Finished, HandlerType, HeaderWritten
  <2>3. h' = [h EXCEPT ![s] = y]
    BY <1>1, <1>5 DEF IInv, Others, HandlerType, Goto
  <2> HIDE DEF x, y
  <2>4. StreamInv(sc, y, want, s)
    BY <1>1, <1>5, <2>1, <2>2, DoneCloses, GivesUp
  <2> QED BY <1>3, <2>1, <2>3, <2>4, OneHandler
<1> QED BY <1>4, <1>5 DEF HeaderWritten

LEMMA DataWrittenStep ==
  ASSUME IInv, NEW s \in Streams, DataWritten(s)
  PROVE  IInv'
<1> DEFINE x == h[s]
           next == IF x.done THEN "exited" ELSE "run"
<1>1. x \in HandlerType /\ StreamInv(sc, x, want, s) /\ Waits(x)
  BY HandlerOf DEF DataWritten, Waits
<1>2. next \in {"exited", "run"} /\ (x.done => next = "exited")
  OBVIOUS
<1>3. sc' = sc /\ want' = want /\ gone' = gone /\ control' = control
  BY DEF DataWritten
<1>4. \/ x.reply /\ h' = [h EXCEPT ![s].pc = next, ![s].reply = FALSE]
      \/ /\ sc.serve = "done" \/ sc.state[s] = "closed"
         /\ h' = [h EXCEPT ![s].pc = next, ![s].broken = TRUE]
  BY DEF DataWritten
<1> HIDE DEF next
<1>5. CASE x.reply /\ h' = [h EXCEPT ![s].pc = next, ![s].reply = FALSE]
  <2> DEFINE y == [x EXCEPT !.pc = next, !.reply = FALSE]
  <2>1. y \in HandlerType /\ y.pc # "none" /\ ~y.reply /\ y.broken = x.broken
    BY <1>1, <1>2 DEF HandlerType
  <2>2. Finished(x) => Finished(y)
    BY <1>1, <1>2 DEF Finished, HandlerType
  <2>3. h' = [h EXCEPT ![s] = y]
    BY <1>1, <1>5 DEF IInv, Others, HandlerType
  <2> HIDE DEF x, y
  <2>4. StreamInv(sc, y, want, s)
    BY <1>1, <1>5, <2>1, <2>2, Answered
  <2> QED BY <1>3, <2>1, <2>3, <2>4, OneHandler
<1>6. CASE /\ sc.serve = "done" \/ sc.state[s] = "closed"
           /\ h' = [h EXCEPT ![s].pc = next, ![s].broken = TRUE]
  <2> DEFINE y == [x EXCEPT !.pc = next, !.broken = TRUE]
  <2>1. y \in HandlerType /\ y.reply = x.reply
    BY <1>1, <1>2 DEF HandlerType
  <2>2. Finished(x) => Finished(y)
    BY <1>1, <1>2 DEF Finished, HandlerType
  <2>3. h' = [h EXCEPT ![s] = y]
    BY <1>1, <1>6 DEF IInv, Others, HandlerType
  <2> HIDE DEF x, y
  <2>4. StreamInv(sc, y, want, s)
    BY <1>1, <1>6, <2>1, <2>2, DoneCloses, GivesUp
  <2> QED BY <1>3, <2>1, <2>3, <2>4, OneHandler
<1> QED BY <1>4, <1>5, <1>6
---------------------------------------------------------------------------
(* The steps of serve *)

LEMMA TypesOfInv ==
  ASSUME IInv
  PROVE  sc \in ServeType /\ want \in Seq(StreamFrames) /\ Inv(sc, h, want)
  BY DEF IInv, Others, Inv, ServeInv

\* Serve changes no handler, and the channel only by taking from it.
LEMMA ServeStep ==
  ASSUME IInv, Inv(sc', h, want), h' = h, want' = want,
         gone' \in BOOLEAN, control' \in 0..MaxControl
  PROVE  IInv'
<1>1. Inv(sc', h', want')
  OBVIOUS
<1>2. Others'
  BY DEF IInv, Others
<1> QED BY <1>1, <1>2 DEF IInv

LEMMA SchedulesBeside ==
  ASSUME IInv, Loop, NEW c, Beside(sc, c), sc' \in Schedule(c)
  PROVE  Inv(sc', h, want)
<1>1. Inv(c, h, want) /\ want \in Seq(StreamFrames)
  BY TypesOfInv, BesideKeeps
<1>2. c.serve = "loop"
  BY DEF Beside, SameConn, Loop
<1> QED BY <1>1, <1>2, ScheduleKeeps

\* Frames move from the channel to the queue of their stream.
LEMMA AddKeeps ==
  ASSUME IInv, want # <<>>
  PROVE  Inv(Add(sc, Head(want)), h, Tail(want))
<1> DEFINE d == Add(sc, Head(want))
           f == Head(want)
<1>1. /\ sc \in ServeType /\ want \in Seq(StreamFrames) /\ Inv(sc, h, want)
      /\ f \in StreamFrames
  BY TypesOfInv, HeadTailProperties
<1>2. f.stream \in Streams
  BY <1>1 DEF StreamFrames, HeaderFrames, DataFrames
<1>3. Append(sc.sq[f.stream], f) \in Seq(StreamFrames)
  BY <1>1, <1>2, AppendProperties DEF ServeType
<1>4. d = [sc EXCEPT !.sq = [sc.sq EXCEPT ![f.stream] = Append(sc.sq[f.stream], f)]]
  BY <1>1, <1>2, NoneAssumption DEF Add, ServeType
<1>5. [sc.sq EXCEPT ![f.stream] = Append(sc.sq[f.stream], f)] \in [Streams -> Seq(StreamFrames)]
  BY <1>1, <1>3 DEF ServeType
<1>6. /\ d \in ServeType /\ d.state = sc.state /\ d.reset = sc.reset /\ d.serve = sc.serve
      /\ d.writers = sc.writers /\ d.writing = sc.writing /\ d.wrote = sc.wrote
      /\ d.skipped = sc.skipped
  BY <1>1, <1>4, <1>5 DEF ServeType
<1>7. ASSUME NEW s \in Streams
      PROVE  /\ d.sq[s] = IF s = f.stream THEN Append(sc.sq[s], f) ELSE sc.sq[s]
             /\ Queued(d, Tail(want), s) = Queued(sc, want, s)
             /\ LastOnly(sc, want, s) => LastOnly(d, Tail(want), s)
  BY <1>1, Delivered
<1> HIDE DEF d, f
<1>8. ASSUME NEW s \in Streams PROVE StreamInv(d, h[s], Tail(want), s)
  <2>1. Answering(d, s) = Answering(sc, s)
    BY <1>6 DEF Answering
  <2>2. StreamInv(sc, h[s], want, s)
    BY <1>1 DEF Inv
  <2> QED BY <1>6, <1>7, <2>1, <2>2, Carried
<1>9. ASSUME NEW s \in Streams, NEW i \in DOMAIN d.sq[s] PROVE d.sq[s][i].stream = s
  <2>1. sc.sq[s] \in Seq(StreamFrames) /\ \A j \in DOMAIN sc.sq[s] : sc.sq[s][j].stream = s
    BY <1>1 DEF ServeType, Inv, ServeInv
  <2>2. /\ DOMAIN sc.sq[s] = 1..Len(sc.sq[s]) /\ Len(sc.sq[s]) \in Nat
        /\ DOMAIN Append(sc.sq[s], f) = 1..Len(sc.sq[s]) + 1
        /\ \A j \in 1..Len(sc.sq[s]) : Append(sc.sq[s], f)[j] = sc.sq[s][j]
        /\ Append(sc.sq[s], f)[Len(sc.sq[s]) + 1] = f
    BY <1>1, <2>1, AppendProperties, LenProperties
  <2>3. CASE s # f.stream
    BY <1>7, <1>9, <2>1, <2>3
  <2>4. CASE s = f.stream
    <3>1. i \in 1..Len(sc.sq[s]) + 1 /\ d.sq[s] = Append(sc.sq[s], f)
      BY <1>7, <1>9, <2>2, <2>4
    <3> QED BY <2>1, <2>2, <2>4, <3>1
  <2> QED BY <2>3, <2>4
<1>10. /\ d.serve = "loop" => Accounted(d)
       /\ Steady => d.serve # "stuck" /\ d.skipped = 0
  BY <1>1, <1>6 DEF Inv, ServeInv, Accounted, Excess
<1>11. d.serve = "done" => \A s \in Streams : ~Live(d, s)
  BY <1>1, <1>6 DEF Inv, ServeInv, Live
<1>12. d.serve # "panic"
  BY <1>1, <1>6 DEF Inv, ServeInv
<1> QED BY <1>6, <1>8, <1>9, <1>10, <1>11, <1>12 DEF Inv, ServeInv, d

LEMMA WantWriteStep == IInv /\ WantWrite => IInv'
<1> SUFFICES ASSUME IInv, WantWrite PROVE IInv'
  OBVIOUS
<1>1. want \in Seq(StreamFrames) /\ want # <<>> /\ want' = Tail(want)
  BY TypesOfInv DEF WantWrite
<1>2. Tail(want) \in Seq(StreamFrames) /\ Len(Tail(want)) = Len(want) - 1 /\ Len(want) \in Nat
  BY <1>1, HeadTailProperties, LenProperties
<1>3. Inv(Add(sc, Head(want)), h, Tail(want))
  BY <1>1, AddKeeps
<1>4. Add(sc, Head(want)).serve = "loop"
  <2>1. Head(want).stream \in Streams
    BY <1>1, HeadTailProperties DEF StreamFrames, HeaderFrames, DataFrames
  <2>2. sc \in ServeType /\ sc.serve = "loop"
    BY TypesOfInv DEF WantWrite, Loop
  <2> QED BY <2>1, <2>2, NoneAssumption DEF Add, ServeType
<1>5. Inv(sc', h, Tail(want))
  BY <1>2, <1>3, <1>4, ScheduleKeeps DEF WantWrite
<1>6. Others'
  <2>1. h' = h /\ gone' = gone /\ control' = control
    BY DEF WantWrite
  <2> QED BY <1>1, <1>2, <2>1, SizesAssumption DEF IInv, Others
<1> QED BY <1>1, <1>5, <1>6 DEF IInv, WantWrite

\* serve hears of a frame that was written, or skipped.
LEMMA WokenKeeps ==
  ASSUME IInv, Wrote
  PROVE  Inv([sc EXCEPT !.wrote = FALSE, !.writing = FALSE], h, want)
<1> DEFINE d == [sc EXCEPT !.wrote = FALSE, !.writing = FALSE]
<1>1. sc \in ServeType /\ want \in Seq(StreamFrames) /\ Inv(sc, h, want)
  BY TypesOfInv
<1>2. /\ d \in ServeType /\ d.state = sc.state /\ d.sq = sc.sq /\ d.reset = sc.reset
      /\ d.serve = sc.serve /\ d.writers = sc.writers
      /\ d.wrote = FALSE /\ d.writing = FALSE /\ sc.serve = "loop"
      /\ d.skipped = sc.skipped
  BY <1>1 DEF ServeType, Wrote, Loop
\* A wakeup that writingFrame does not know of is one of those in excess.
<1>3. Accounted(d) /\ (Steady => d.skipped = 0)
  <2>1. Accounted(sc) /\ (Steady => sc.skipped = 0)
    BY <1>1, <1>2 DEF Inv, ServeInv
  <2>2. Len(sc.writers) \in Nat /\ sc.skipped \in Nat /\ sc.writing \in BOOLEAN /\ sc.wrote
    BY <1>1, LenProperties DEF ServeType, Wrote
  <2>3. Excess(sc) = Len(sc.writers) + 1 - Count(sc.writing) /\ Excess(sc) \in 0..sc.skipped
    <3>1. Count(sc.wrote) = 1
      BY <2>2, CountOf
    <3> QED BY <2>1, <3>1 DEF Accounted, Excess
  <2> HIDE DEF d
  <2>4. Excess(d) = Len(sc.writers)
    <3>1. Count(d.wrote) = 0 /\ Count(d.writing) = 0
      BY <1>2, CountOf
    <3> QED BY <1>2, <2>2, <3>1 DEF Excess
  <2>5. Len(sc.writers) <= sc.skipped
    <3>1. Count(sc.writing) \in {0, 1}
      BY CountOf
    <3> QED BY <2>2, <2>3, <3>1
  <2> QED BY <1>2, <2>1, <2>2, <2>4, <2>5 DEF Accounted
<1> HIDE DEF d
<1>4. \A s \in Streams : StreamInv(d, h[s], want, s)
  <2>1. \A s \in Streams : SameStream(sc, d, s)
    BY <1>2, SameStreams
  <2> QED BY <1>1, <2>1, Unmoved DEF Inv
<1>5. Inv(d, h, want)
  BY <1>1, <1>2, <1>3, <1>4 DEF Inv, ServeInv
<1> QED BY <1>5 DEF d

LEMMA WroteStep == IInv /\ Wrote => IInv'
<1> SUFFICES ASSUME IInv, Wrote PROVE IInv'
  OBVIOUS
<1> DEFINE d == [sc EXCEPT !.wrote = FALSE, !.writing = FALSE]
<1>1. sc \in ServeType /\ want \in Seq(StreamFrames) /\ Inv(d, h, want)
  BY TypesOfInv, WokenKeeps
<1>2. d.serve = "loop"
  BY <1>1 DEF ServeType, Wrote, Loop
<1>3. Inv(sc', h, want)
  BY <1>1, <1>2, ScheduleKeeps DEF Wrote
<1> QED BY <1>3, ServeStep DEF Wrote, IInv, Others

LEMMA ProcessHeadersStep ==
  ASSUME IInv, NEW s \in Streams, ProcessHeaders(s)
  PROVE  IInv'
<1>1. sc \in ServeType /\ want \in Seq(StreamFrames) /\ Inv(sc, h, want)
  BY TypesOfInv
<1>2. PICK st \in {"open", "halfClosedRemote"} : sc' = [sc EXCEPT !.state[s] = st]
  BY DEF ProcessHeaders
<1>3. PICK typed \in BOOLEAN : h' = [h EXCEPT ![s].pc = "run", ![s].typed = typed]
  BY DEF ProcessHeaders
<1>4. /\ h[s] = Idle /\ Queued(sc, want, s) = {} /\ Answering(sc, s) = {}
  BY <1>1 DEF ProcessHeaders, Inv, StreamInv, IdleInv
<1>5. /\ sc' \in ServeType /\ sc'.sq = sc.sq /\ sc'.writers = sc.writers
      /\ sc'.reset = sc.reset /\ sc'.serve = "loop"
      /\ sc'.wrote = sc.wrote /\ sc'.writing = sc.writing /\ sc'.skipped = sc.skipped
      /\ sc'.state[s] = st /\ \A t \in Streams : t # s => sc'.state[t] = sc.state[t]
  BY <1>1, <1>2 DEF ServeType, ProcessHeaders, Loop
<1> DEFINE y == [Idle EXCEPT !.pc = "run", !.typed = typed]
<1>6. y \in HandlerType /\ y.pc = "run" /\ ~y.broken /\ ~y.reply
  <2>1. 0 \in 0..MaxData /\ 0 \in 0..MaxWrites
    BY SizesAssumption
  <2> QED BY <2>1 DEF HandlerType, Idle
<1>7. h' = [h EXCEPT ![s] = y]
  <2>1. h \in [Streams -> HandlerType]
    BY DEF IInv, Others
  <2>2. h' = [h EXCEPT ![s] = [h[s] EXCEPT !.pc = "run", !.typed = typed]]
    BY <1>3, <2>1 DEF HandlerType
  <2> QED BY <1>4, <2>2
<1>8. h' \in [Streams -> HandlerType] /\ h'[s] = y /\ \A t \in Streams \ {s} : h'[t] = h[t]
  BY <1>6, <1>7 DEF IInv, Others
<1> HIDE DEF y
<1>9. \A t \in Streams : Answering(sc', t) = Answering(sc, t)
  BY <1>5 DEF Answering
<1>10. StreamInv(sc', h'[s], want, s)
  <2>1. Queued(sc', want, s) = {}
    BY <1>4, <1>5 DEF Queued
  <2>2. LastOnly(sc', want, s)
    BY <2>1 DEF LastOnly, Queued
  <2>3. OneAnswer(sc', y, s)
    BY <1>4, <1>9 DEF OneAnswer
  <2>4. LiveInv(sc', y, want, s)
    BY <1>4, <1>6, <1>9, <2>1, <2>2 DEF LiveInv
  <2>5. sc'.state[s] \notin {"idle", "closed"}
    BY <1>5
  <2> QED BY <1>8, <2>3, <2>4, <2>5 DEF StreamInv, IdleInv, ClosedInv
<1>11. ASSUME NEW t \in Streams, t # s PROVE StreamInv(sc', h'[t], want, t)
  <2>1. SameStream(sc, sc', t)
    BY <1>5, <1>9, <1>11 DEF SameStream, ProcessHeaders, Loop
  <2> QED BY <1>1, <1>8, <1>11, <2>1, Unmoved DEF Inv
<1>12. Accounted(sc') /\ (Steady => sc'.skipped = 0)
  <2>1. Accounted(sc) /\ (Steady => sc.skipped = 0)
    BY <1>1 DEF Inv, ServeInv, ProcessHeaders, Loop
  <2> QED BY <1>5, <2>1 DEF Accounted, Excess
<1>13. Inv(sc', h', want)
  BY <1>1, <1>5, <1>10, <1>11, <1>12 DEF Inv, ServeInv
<1>14. want' = want /\ gone' = gone /\ control' = control
  BY DEF ProcessHeaders
<1> QED BY <1>8, <1>13, <1>14 DEF IInv, Others

LEMMA ProcessDataEndStep ==
  ASSUME IInv, NEW s \in Streams, ProcessDataEnd(s)
  PROVE  IInv'
<1>1. sc \in ServeType /\ Inv(sc, h, want)
  BY TypesOfInv
<1>2. /\ sc' \in ServeType /\ sc'.sq = sc.sq /\ sc'.writers = sc.writers
      /\ sc'.reset = sc.reset /\ sc'.serve = "loop" /\ sc.serve = "loop"
      /\ sc'.wrote = sc.wrote /\ sc'.writing = sc.writing /\ sc'.skipped = sc.skipped
      /\ sc'.state[s] = "halfClosedRemote" /\ sc.state[s] = "open"
      /\ \A t \in Streams : t # s => sc'.state[t] = sc.state[t]
  BY <1>1 DEF ServeType, ProcessDataEnd, Loop
<1>3. \A t \in Streams : Answering(sc', t) = Answering(sc, t)
  BY <1>2 DEF Answering
<1>4. StreamInv(sc', h[s], want, s)
  <2>1. StreamInv(sc, h[s], want, s) /\ Live(sc, s)
    BY <1>1, <1>2 DEF Inv, Live
  <2>2. Queued(sc', want, s) = Queued(sc, want, s) /\ (LastOnly(sc, want, s) => LastOnly(sc', want, s))
    BY <1>2 DEF Queued, LastOnly
  <2>3. OneAnswer(sc', h[s], s)
    BY <1>3, <2>1 DEF StreamInv, OneAnswer
  <2>4. LiveInv(sc', h[s], want, s)
    BY <1>3, <2>1, <2>2 DEF StreamInv, LiveInv
  <2> QED BY <1>2, <2>3, <2>4 DEF StreamInv, IdleInv, ClosedInv
<1>5. ASSUME NEW t \in Streams, t # s PROVE StreamInv(sc', h[t], want, t)
  <2>1. SameStream(sc, sc', t)
    BY <1>2, <1>3, <1>5 DEF SameStream
  <2> QED BY <1>1, <2>1, Unmoved DEF Inv
<1>6. Accounted(sc') /\ (Steady => sc'.skipped = 0)
  <2>1. Accounted(sc) /\ (Steady => sc.skipped = 0)
    BY <1>1, <1>2 DEF Inv, ServeInv
  <2> QED BY <1>2, <2>1 DEF Accounted, Excess
<1>7. Inv(sc', h, want)
  BY <1>1, <1>2, <1>4, <1>5, <1>6 DEF Inv, ServeInv
<1> QED BY <1>7, ServeStep DEF ProcessDataEnd, IInv, Others

\* A stream is reset: nothing of it is left but the frames its handler sends on.
LEMMA ResetKeeps ==
  ASSUME ~Steady, NEW c, NEW hs, NEW q, Inv(c, hs, q), NEW s \in Streams,
         NEW d, d = CloseStream([c EXCEPT !.reset = @ \cup {s}], s)
  PROVE  Inv(d, hs, q)
<1> DEFINE b == [c EXCEPT !.reset = c.reset \cup {s}]
<1>1. c \in ServeType
  BY DEF Inv, ServeInv
<1>2. /\ b \in ServeType /\ b.state = c.state /\ b.sq = c.sq
      /\ b.reset = c.reset \cup {s} /\ SameConn(c, b)
  BY <1>1 DEF ServeType, SameConn
<1>3. d = CloseStream(b, s)
  OBVIOUS
<1> HIDE DEF b
<1>4. Closes(b, d, s) /\ d.reset = b.reset
  BY <1>2, <1>3, CloseStreamDoes
<1>5. /\ SameConn(c, d)
      /\ d.reset = c.reset \cup {s}
      /\ d.state[s] = "closed" /\ d.sq[s] = <<>>
      /\ \A t \in Streams : t # s => d.state[t] = c.state[t] /\ d.sq[t] = c.sq[t]
  <2>1. c.state \in [Streams -> {"idle", "open", "halfClosedRemote", "closed"}]
        /\ c.sq \in [Streams -> Seq(StreamFrames)]
    BY <1>1 DEF ServeType
  <2>2. d.state = [c.state EXCEPT ![s] = "closed"] /\ d.sq = [c.sq EXCEPT ![s] = <<>>]
    BY <1>2, <1>4 DEF Closes
  <2> QED BY <1>2, <1>4, <2>1, <2>2 DEF Closes, SameConn
<1>6. \A t \in Streams : Answering(d, t) = Answering(c, t)
  BY <1>5 DEF Answering, SameConn
<1>7. StreamInv(d, hs[s], q, s)
  <2>1. OneAnswer(d, hs[s], s)
    BY <1>6 DEF Inv, StreamInv, OneAnswer
  <2> QED BY <1>5, <2>1 DEF StreamInv, IdleInv, LiveInv, ClosedInv, Live
<1>8. ASSUME NEW t \in Streams, t # s PROVE StreamInv(d, hs[t], q, t)
  <2>1. SameStream(c, d, t)
    BY <1>5, <1>6, <1>8 DEF SameStream, SameConn
  <2> QED BY <2>1, Unmoved DEF Inv
<1>9. d.serve = "done" => \A t \in Streams : ~Live(d, t)
  BY <1>5 DEF Inv, ServeInv, Live, SameConn
<1>10. \A t \in Streams : \A i \in DOMAIN d.sq[t] : d.sq[t][i].stream = t
  <2>1. DOMAIN d.sq[s] = {}
    BY <1>5
  <2> QED BY <1>5, <2>1 DEF Inv, ServeInv
<1>11. d.serve = "loop" => Accounted(d)
  BY <1>5 DEF Inv, ServeInv, SameConn, Accounted, Excess
<1> QED BY <1>5, <1>7, <1>8, <1>9, <1>10, <1>11 DEF Inv, ServeInv, SameConn

LEMMA ProcessResetStreamStep ==
  ASSUME IInv, NEW s \in Streams, ProcessResetStream(s)
  PROVE  IInv'
<1>1. ~Steady
  BY DEF Steady, ProcessResetStream
<1>2. Inv(sc, h, want)
  BY TypesOfInv
<1>3. Inv(sc', h, want)
  BY <1>1, <1>2, ResetKeeps DEF ProcessResetStream
<1> QED BY <1>3, ServeStep DEF ProcessResetStream, IInv, Others

LEMMA BesideAdd ==
  ASSUME IInv, NEW kind \in Kinds
  PROVE  Beside(sc, Add(sc, OfConn(kind)))
  BY TypesOfInv, AddConnDoes DEF Beside

LEMMA ResetStreamStep ==
  ASSUME IInv, NEW s \in Streams, ResetStream(s)
  PROVE  IInv'
<1>1. ~Steady
  BY DEF Steady, ResetStream
<1>2. PICK c \in Schedule(Add(sc, OfConn("rst"))) :
        sc' = CloseStream([c EXCEPT !.reset = @ \cup {s}], s)
  BY DEF ResetStream
<1> DEFINE a == Add(sc, OfConn("rst"))
<1>3. Beside(sc, a)
  BY BesideAdd DEF Kinds
<1>4. Inv(a, h, want) /\ want \in Seq(StreamFrames)
  BY <1>3, TypesOfInv, BesideKeeps
<1>5. a.serve = "loop"
  BY <1>3 DEF Beside, SameConn, ResetStream, Loop
<1> HIDE DEF a
<1>6. Inv(c, h, want)
  BY <1>2, <1>4, <1>5, ScheduleKeeps DEF a
<1>7. Inv(sc', h, want)
  BY <1>1, <1>2, <1>6, ResetKeeps
<1> QED BY <1>7, ServeStep DEF ResetStream, IInv, Others

LEMMA ProcessWindowUpdateStep == IInv /\ ProcessWindowUpdate => IInv'
<1> SUFFICES ASSUME IInv, ProcessWindowUpdate PROVE IInv'
  OBVIOUS
<1>1. Beside(sc, [sc EXCEPT !.window = sc.window + 1])
  <2>1. sc \in ServeType /\ sc.window + 1 \in Nat
    BY TypesOfInv DEF ServeType
  <2> QED BY <2>1 DEF ServeType, Beside, SameConn
<1>2. Inv(sc', h, want)
  BY <1>1, SchedulesBeside DEF ProcessWindowUpdate
<1> QED BY <1>2, ServeStep DEF ProcessWindowUpdate, IInv, Others

LEMMA ProcessSettingsStep == IInv /\ ProcessSettings => IInv'
<1> SUFFICES ASSUME IInv, ProcessSettings PROVE IInv'
  OBVIOUS
<1>1. Beside(sc, [sc EXCEPT !.needAck = TRUE])
  BY TypesOfInv DEF ServeType, Beside, SameConn
<1>2. Inv(sc', h, want)
  BY <1>1, SchedulesBeside DEF ProcessSettings
<1>3. control' \in 0..MaxControl
  BY SizesAssumption DEF ProcessSettings, IInv, Others
<1> QED BY <1>2, <1>3, ServeStep DEF ProcessSettings, IInv, Others

LEMMA ProcessPingStep == IInv /\ ProcessPing => IInv'
<1> SUFFICES ASSUME IInv, ProcessPing PROVE IInv'
  OBVIOUS
<1>1. Beside(sc, Add(sc, OfConn("ping")))
  BY BesideAdd DEF Kinds
<1>2. Inv(sc', h, want)
  BY <1>1, SchedulesBeside DEF ProcessPing
<1>3. control' \in 0..MaxControl
  BY SizesAssumption DEF ProcessPing, IInv, Others
<1> QED BY <1>2, <1>3, ServeStep DEF ProcessPing, IInv, Others

LEMMA GoAwayStep == IInv /\ GoAway => IInv'
<1> SUFFICES ASSUME IInv, GoAway PROVE IInv'
  OBVIOUS
<1>1. Beside(sc, [sc EXCEPT !.inGoAway = TRUE, !.needGoAway = TRUE])
  BY TypesOfInv DEF ServeType, Beside, SameConn
<1>2. Inv(sc', h, want)
  BY <1>1, SchedulesBeside DEF GoAway
<1> QED BY <1>2, ServeStep DEF GoAway, IInv, Others

\* The deferred calls close every stream that is open.
LEMMA ServeEndsStep == IInv /\ ServeEnds => IInv'
<1> SUFFICES ASSUME IInv, ServeEnds PROVE IInv'
  OBVIOUS
<1> DEFINE open == {s \in Streams : sc.state[s] \notin {"idle", "closed"}}
           st   == [s \in Streams |-> IF s \in open THEN "closed" ELSE sc.state[s]]
           sq   == [s \in Streams |-> IF s \in open THEN <<>> ELSE sc.sq[s]]
<1>1. sc \in ServeType /\ Inv(sc, h, want)
  BY TypesOfInv
<1>2. sc' = [sc EXCEPT !.serve = "done", !.state = st, !.sq = sq]
  BY <1>1 DEF ServeEnds, Stop, ServeType
<1>3. st \in [Streams -> {"idle", "open", "halfClosedRemote", "closed"}]
  BY <1>1 DEF ServeType
<1>4. sq \in [Streams -> Seq(StreamFrames)]
  BY <1>1, EmptySeq DEF ServeType
<1>5. /\ sc' \in ServeType /\ sc'.serve = "done" /\ sc'.writers = sc.writers
      /\ sc'.state = st /\ sc'.sq = sq /\ sc'.skipped = sc.skipped
  BY <1>1, <1>2, <1>3, <1>4 DEF ServeType
<1>6. \A s \in Streams :
        /\ sc'.state[s] \in {"idle", "closed"}
        /\ sc'.state[s] = "idle" => sc.state[s] = "idle" /\ sc'.sq[s] = sc.sq[s]
  BY <1>1, <1>5 DEF ServeType
<1>7. ASSUME NEW s \in Streams, NEW i \in DOMAIN sc'.sq[s] PROVE sc'.sq[s][i].stream = s
  BY <1>1, <1>5, <1>7 DEF Inv, ServeInv
<1> HIDE DEF st, sq, open
<1>8. ASSUME NEW s \in Streams PROVE StreamInv(sc', h[s], want, s)
  <2>1. StreamInv(sc, h[s], want, s)
    BY <1>1 DEF Inv
  <2>2. Answering(sc', s) = Answering(sc, s)
    BY <1>5 DEF Answering
  <2>3. OneAnswer(sc', h[s], s)
    BY <2>1, <2>2 DEF StreamInv, OneAnswer
  <2>4. IdleInv(sc', h[s], want, s)
    BY <1>6, <2>1, <2>2 DEF StreamInv, IdleInv, Queued
  <2>5. ~Live(sc', s)
    BY <1>6 DEF Live
  <2> QED BY <1>5, <2>3, <2>4, <2>5 DEF StreamInv, LiveInv, ClosedInv
<1>9. \A s \in Streams : ~Live(sc', s)
  BY <1>6 DEF Live
<1>10. Inv(sc', h, want)
  <2>1. /\ sc'.serve # "panic" /\ sc'.serve # "loop" /\ sc'.serve # "stuck"
        /\ Steady => sc'.skipped = 0
    BY <1>1, <1>5 DEF Inv, ServeInv
  <2> QED BY <1>5, <1>7, <1>8, <1>9, <2>1 DEF Inv, ServeInv
<1> QED BY <1>10, ServeStep DEF ServeEnds, Stop, IInv, Others
---------------------------------------------------------------------------
(* The steps of the writing goroutines *)

Writers == [frame : StreamFrames \cup ConnFrames, at : {"write", "wake"}]

LEMMA WritersOf ==
  ASSUME IInv
  PROVE  /\ sc.writers \in Seq(Writers) /\ Len(sc.writers) \in Nat
         /\ DOMAIN sc.writers = 1..Len(sc.writers)
         /\ \A i \in DOMAIN sc.writers : sc.writers[i] \in Writers
<1>1. sc.writers \in Seq(Writers)
  BY TypesOfInv DEF ServeType, Writers
<1> QED BY <1>1, LenProperties

LEMMA WriteFrameStep ==
  ASSUME IInv, NEW i \in DOMAIN sc.writers, WriteFrame(i)
  PROVE  IInv'
<1> DEFINE f == sc.writers[i].frame
           s == f.stream
           W == [sc.writers EXCEPT ![i] = [sc.writers[i] EXCEPT !.at = "wake"]]
           d == [sc EXCEPT !.writers = W]
<1>1. sc \in ServeType /\ Inv(sc, h, want) /\ h \in [Streams -> HandlerType]
  BY TypesOfInv DEF IInv, Others
<1>2. /\ sc.writers \in Seq(Writers) /\ Len(sc.writers) \in Nat
      /\ DOMAIN sc.writers = 1..Len(sc.writers)
      /\ sc.writers[i] \in Writers /\ sc.writers[i].at = "write"
  BY WritersOf DEF WriteFrame
<1>3. f \in StreamFrames \cup ConnFrames
  BY <1>2 DEF Writers
<1>4. f.waits => s \in Streams
  BY <1>3 DEF StreamFrames, HeaderFrames, DataFrames, ConnFrames
<1>5. [sc.writers[i] EXCEPT !.at = "wake"] \in Writers
  BY <1>2 DEF Writers
<1>6. /\ W \in Seq(Writers) /\ Len(W) = Len(sc.writers) /\ DOMAIN W = DOMAIN sc.writers
      /\ W[i] = [sc.writers[i] EXCEPT !.at = "wake"]
      /\ \A j \in DOMAIN sc.writers : j # i => W[j] = sc.writers[j]
  BY <1>2, <1>5, ExceptSeq
<1>7. W[i].at = "wake"
  BY <1>2, <1>6 DEF Writers
<1> HIDE DEF W
<1>8. /\ d \in ServeType /\ d.writers = W /\ d.sq = sc.sq /\ d.state = sc.state
      /\ d.reset = sc.reset /\ d.serve = sc.serve
      /\ d.wrote = sc.wrote /\ d.writing = sc.writing /\ d.skipped = sc.skipped
  BY <1>1, <1>6 DEF ServeType, Writers
<1>9. ASSUME f.waits PROVE i \in Answering(sc, s) /\ ~h[s].reply
  <2>1. i \in Answering(sc, s)
    BY <1>2, <1>9 DEF Answering
  <2>2. OneAnswer(sc, h[s], s)
    BY <1>1, <1>4, <1>9 DEF Inv, StreamInv
  <2> QED BY <2>1, <2>2 DEF OneAnswer
<1>10. sc' = d
  <2>1. sc' = [sc EXCEPT !.writers[i].at = "wake"]
    BY <1>9 DEF WriteFrame
  <2> QED BY <1>1, <2>1 DEF ServeType, W
<1>11. h' = IF f.waits THEN [h EXCEPT ![s].reply = TRUE] ELSE h
  BY DEF WriteFrame
<1> HIDE DEF d, f, s
<1>12. ASSUME NEW t \in Streams PROVE Answering(d, t) = Answering(sc, t) \ {i}
  <2>1. i \notin Answering(d, t)
    BY <1>7, <1>8 DEF Answering
  <2>2. ASSUME NEW j \in DOMAIN sc.writers, j # i
        PROVE  j \in Answering(d, t) <=> j \in Answering(sc, t)
    BY <1>6, <1>8, <2>2 DEF Answering
  <2>3. Answering(d, t) \subseteq DOMAIN sc.writers /\ Answering(sc, t) \subseteq DOMAIN sc.writers
    BY <1>6, <1>8 DEF Answering
  <2> QED BY <2>1, <2>2, <2>3
<1>13. ASSUME NEW t \in Streams, h'[t] = h[t] PROVE StreamInv(d, h'[t], want, t)
  <2>1. SameStream(sc, d, t)
    BY <1>8, <1>12 DEF SameStream
  <2> QED BY <1>1, <1>13, <2>1, Unmoved DEF Inv
<1>14. /\ h' \in [Streams -> HandlerType]
       /\ \A t \in Streams : StreamInv(d, h'[t], want, t)
  <2>1. CASE ~f.waits
    <3>1. h' = h
      BY <1>11, <2>1
    <3> QED BY <1>1, <1>13, <3>1
  <2>2. CASE f.waits
    <3> DEFINE x == h[s]
               y == [x EXCEPT !.reply = TRUE]
    <3>1. s \in Streams /\ i \in Answering(sc, s) /\ ~x.reply /\ x \in HandlerType
      BY <1>1, <1>4, <1>9, <2>2
    <3>2. /\ y \in HandlerType /\ y.reply /\ y.broken = x.broken /\ y.pc = x.pc
          /\ y.done = x.done /\ y.n = x.n
      BY <3>1 DEF HandlerType
    <3>3. h' = [h EXCEPT ![s] = y]
      BY <1>1, <1>11, <2>2, <3>1
    <3>4. StreamInv(sc, x, want, s)
      BY <1>1, <3>1 DEF Inv
    <3> HIDE DEF x, y
    <3>5. Answering(d, s) = {}
      BY <1>12, <3>1, <3>4 DEF StreamInv, OneAnswer
    <3>6. sc.state[s] # "idle"
      BY <3>1, <3>4 DEF StreamInv, IdleInv
    <3>7. (Finished(y) <=> Finished(x)) /\ (Waits(y) <=> Waits(x))
      BY <3>2 DEF Finished, Waits
    <3>8. /\ Queued(d, want, s) = Queued(sc, want, s)
          /\ LastOnly(sc, want, s) => LastOnly(d, want, s)
          /\ Live(d, s) <=> Live(sc, s)
      BY <1>8 DEF Queued, LastOnly, Live
    <3>9. LiveInv(d, y, want, s)
      BY <3>1, <3>2, <3>4, <3>5, <3>7, <3>8 DEF StreamInv, LiveInv
    <3>10. ClosedInv(d, y, want, s)
      BY <1>8, <3>4, <3>7, <3>8 DEF StreamInv, ClosedInv
    <3>11. StreamInv(d, y, want, s)
      BY <1>8, <3>5, <3>6, <3>9, <3>10 DEF StreamInv, OneAnswer, IdleInv
    <3>12. /\ h' \in [Streams -> HandlerType] /\ h'[s] = y
           /\ \A t \in Streams : t # s => h'[t] = h[t]
      BY <1>1, <3>1, <3>2, <3>3
    <3> QED BY <1>13, <3>11, <3>12
  <2> QED BY <2>1, <2>2
<1>15. Inv(d, h', want)
  <2>1. /\ d.serve = "loop" => Accounted(d)
        /\ Steady => d.serve # "stuck" /\ d.skipped = 0
    BY <1>1, <1>6, <1>8 DEF Inv, ServeInv, Accounted, Excess
  <2>2. d.serve = "done" => \A t \in Streams : ~Live(d, t)
    BY <1>1, <1>8 DEF Inv, ServeInv, Live
  <2>3. d.serve # "panic" /\ \A t \in Streams : \A j \in DOMAIN d.sq[t] : d.sq[t][j].stream = t
    BY <1>1, <1>8 DEF Inv, ServeInv
  <2> QED BY <1>8, <1>14, <2>1, <2>2, <2>3 DEF Inv, ServeInv
<1>16. want' = want /\ control' = control /\ gone' \in BOOLEAN
  BY DEF WriteFrame, IInv, Others
<1> QED BY <1>10, <1>14, <1>15, <1>16 DEF IInv, Others

\* A sequence without its i-th element
Lacks(a, b, i) ==
  /\ Len(b) = Len(a) - 1 /\ DOMAIN b = 1..Len(a) - 1
  /\ \A j \in 1..Len(a) - 1 : j < i => b[j] = a[j]
  /\ \A j \in 1..Len(a) - 1 : ~(j < i) => b[j] = a[j + 1]

LEMMA Without ==
  ASSUME NEW S, NEW a \in Seq(S), NEW i \in 1..Len(a)
  PROVE  LET b == SubSeq(a, 1, i - 1) \o SubSeq(a, i + 1, Len(a))
         IN  b \in Seq(S) /\ Lacks(a, b, i)
<1> DEFINE u == SubSeq(a, 1, i - 1)
           v == SubSeq(a, i + 1, Len(a))
           b == u \o v
<1>1. Len(a) \in Nat /\ i \in Nat /\ 1 <= i /\ i <= Len(a)
  BY LenProperties
<1>2. \A j \in 1..Len(a) : a[j] \in S
  BY LenProperties
<1>3. /\ u \in Seq(S) /\ Len(u) = i - 1
      /\ \A j \in 1..i - 1 : u[j] = a[j]
  <2>1. \A j \in 1..i - 1 : a[j] \in S
    BY <1>1, <1>2
  <2> QED BY <1>1, <2>1, SubSeqProperties
<1>4. /\ v \in Seq(S) /\ Len(v) = Len(a) - i
      /\ \A j \in 1..Len(a) - i : v[j] = a[i + j]
  <2>1. \A j \in i + 1..Len(a) : a[j] \in S
    BY <1>1, <1>2
  <2>2. /\ v \in Seq(S) /\ Len(v) = IF i + 1 <= Len(a) THEN Len(a) - (i + 1) + 1 ELSE 0
        /\ \A j \in 1..Len(a) - (i + 1) + 1 : v[j] = a[i + 1 + j - 1]
    BY <1>1, <2>1, SubSeqProperties
  <2> QED BY <1>1, <2>2
<1> HIDE DEF u, v
<1>5. b \in Seq(S) /\ Len(b) = Len(u) + Len(v)
  BY <1>3, <1>4, ConcatProperties
<1>6. \A j \in 1..Len(u) + Len(v) : b[j] = IF j <= Len(u) THEN u[j] ELSE v[j - Len(u)]
  BY <1>3, <1>4, ConcatProperties
<1> HIDE DEF b
<1>7. Len(b) = Len(a) - 1 /\ DOMAIN b = 1..Len(a) - 1
  BY <1>1, <1>3, <1>4, <1>5, LenProperties
<1>8. ASSUME NEW j \in 1..Len(a) - 1, j < i PROVE b[j] = a[j]
  <2>1. j \in 1..Len(u) + Len(v) /\ j <= Len(u) /\ j \in 1..i - 1
    BY <1>1, <1>3, <1>4, <1>8
  <2> QED BY <1>3, <1>6, <2>1
<1>9. ASSUME NEW j \in 1..Len(a) - 1, ~(j < i) PROVE b[j] = a[j + 1]
  <2>1. /\ j \in 1..Len(u) + Len(v) /\ ~(j <= Len(u)) /\ j - Len(u) \in 1..Len(a) - i
        /\ i + (j - Len(u)) = j + 1
    BY <1>1, <1>3, <1>4, <1>9
  <2>2. b[j] = v[j - Len(u)]
    BY <1>6, <2>1
  <2> QED BY <1>4, <2>1, <2>2
<1> QED BY <1>5, <1>7, <1>8, <1>9 DEF Lacks, b, u, v

LEMMA WakeStep ==
  ASSUME IInv, NEW i \in DOMAIN sc.writers, Wake(i)
  PROVE  IInv'
<1> DEFINE a == sc.writers
           b == SubSeq(a, 1, i - 1) \o SubSeq(a, i + 1, Len(a))
<1>1. sc \in ServeType /\ Inv(sc, h, want)
  BY TypesOfInv
<1>2. a \in Seq(Writers) /\ Len(a) \in Nat /\ DOMAIN a = 1..Len(a) /\ i \in 1..Len(a)
  BY WritersOf
<1>3. b \in Seq(Writers) /\ Lacks(a, b, i)
  BY <1>2, Without
<1>4. sc' = [sc EXCEPT !.wrote = TRUE, !.writers = b]
  BY <1>1 DEF Wake, ServeType
<1> HIDE DEF b
<1>5. /\ sc' \in ServeType /\ sc'.writers = b /\ sc'.sq = sc.sq /\ sc'.state = sc.state
      /\ sc'.reset = sc.reset /\ sc'.serve = sc.serve
      /\ sc'.wrote = TRUE /\ sc'.writing = sc.writing /\ sc'.skipped = sc.skipped
  BY <1>1, <1>3, <1>4 DEF ServeType, Writers
<1>6. ASSUME NEW s \in Streams PROVE SameStream(sc, sc', s)
  <2> DEFINE at(j) == IF j < i THEN j ELSE j + 1
  <2>1. \A j \in Answering(sc', s) : j \in 1..Len(a) - 1 /\ at(j) \in Answering(sc, s)
    BY <1>2, <1>3, <1>5 DEF Answering, Lacks
  <2>2. \A j, k \in 1..Len(a) - 1 : at(j) = at(k) => j = k
    BY <1>2
  <2> HIDE DEF at
  <2>3. Answering(sc, s) = {} => Answering(sc', s) = {}
    BY <2>1
  <2>4. (\A j, k \in Answering(sc, s) : j = k) => \A j, k \in Answering(sc', s) : j = k
    BY <2>1, <2>2
  <2> QED BY <1>5, <2>3, <2>4 DEF SameStream
<1>7. \A s \in Streams : StreamInv(sc', h[s], want, s)
  BY <1>1, <1>6, Unmoved DEF Inv
<1>8. /\ sc'.serve = "loop" => Accounted(sc')
      /\ Steady => sc'.serve # "stuck" /\ sc'.skipped = 0
  <2>1. ~sc.wrote /\ sc.wrote \in BOOLEAN /\ sc.writing \in BOOLEAN
    BY <1>1 DEF Wake, ServeType
  <2>2. Len(b) = Len(a) - 1
    BY <1>3 DEF Lacks
  <2>3. Excess(sc') = Excess(sc)
    <3>1. Count(sc.wrote) = 0 /\ Count(sc'.wrote) = 1 /\ Count(sc'.writing) = Count(sc.writing)
      BY <1>5, <2>1, CountOf
    <3>2. Count(sc.writing) \in {0, 1}
      BY CountOf
    <3> QED BY <1>2, <1>5, <2>2, <3>1, <3>2 DEF Excess
  <2> QED BY <1>1, <1>5, <2>3 DEF Inv, ServeInv, Accounted
<1>9. sc'.serve = "done" => \A s \in Streams : ~Live(sc', s)
  BY <1>1, <1>5 DEF Inv, ServeInv, Live
<1>10. Inv(sc', h, want)
  BY <1>1, <1>5, <1>7, <1>8, <1>9 DEF Inv, ServeInv
<1> QED BY <1>10, ServeStep DEF Wake, IInv, Others

---------------------------------------------------------------------------

LEMMA InitHolds == Init => IInv
<1> SUFFICES ASSUME Init PROVE IInv
  OBVIOUS
<1> DEFINE c == NewConn
<1>1. c \in ServeType
  BY EmptySeq, SizesAssumption DEF NewConn, ServeType
<1>2. /\ c.serve = "loop" /\ c.writers = <<>> /\ c.wrote = FALSE /\ c.writing = FALSE
      /\ c.skipped = 0
      /\ \A s \in Streams : c.sq[s] = <<>> /\ c.state[s] = "idle"
      /\ h = [s \in Streams |-> Idle] /\ want = <<>>
  BY DEF NewConn, Init
<1>3. ASSUME NEW s \in Streams PROVE StreamInv(c, h[s], want, s)
  <2>1. Answering(c, s) = {}
    BY <1>2 DEF Answering
  <2>2. Queued(c, want, s) = {}
    BY <1>2 DEF Queued, Of
  <2>3. h[s] = Idle /\ c.state[s] = "idle"
    BY <1>2
  <2> QED BY <2>1, <2>2, <2>3 DEF StreamInv, OneAnswer, IdleInv, LiveInv, ClosedInv, Live
<1> HIDE DEF c
<1>4. Accounted(c)
  <2>1. Len(c.writers) = 0
    BY <1>2
  <2> QED BY <1>2, <2>1 DEF Accounted, Excess, Count
<1>5. Inv(c, h, want)
  BY <1>1, <1>2, <1>3, <1>4 DEF Inv, ServeInv
<1>6. Ready(c) /\ Beside(c, c)
  BY <1>1, <1>2 DEF Ready, Beside, SameConn
<1>7. OfConn("settings") \in ConnFrames
  BY OfConnTyped DEF Kinds
<1>8. Inv(sc, h, want)
  BY <1>5, <1>6, <1>7, ConnKeeps DEF Init, c
<1>9. Idle \in HandlerType
  <2>1. 0 \in 0..MaxData /\ 0 \in 0..MaxWrites
    BY SizesAssumption
  <2> QED BY <2>1 DEF Idle, HandlerType
<1>10. Others
  <2>1. want \in Seq(StreamFrames) /\ Len(want) <= WantCap
    BY <1>2, SizesAssumption, EmptySeq
  <2>2. h \in [Streams -> HandlerType]
    BY <1>2, <1>9
  <2>3. gone \in BOOLEAN /\ control \in 0..MaxControl
    <3>1. gone = FALSE /\ control = 0
      BY DEF Init
    <3>2. gone \in BOOLEAN
      BY <3>1
    <3>3. 0 \in 0..MaxControl
      BY SizesAssumption
    <3> QED BY <3>1, <3>2, <3>3
  <2> QED BY <2>1, <2>2, <2>3 DEF Others
<1> QED BY <1>8, <1>10 DEF IInv

LEMMA StepHolds == IInv /\ [Next]_vars => IInv'
<1> SUFFICES ASSUME IInv, [Next]_vars PROVE IInv'
  OBVIOUS
<1>1. CASE Serve
  BY <1>1, WantWriteStep, WroteStep, ServeEndsStep DEF Serve
<1>2. CASE Client
  <2>1. CASE ClientGone
    BY <2>1, TypesOfInv, ServeStep DEF ClientGone, IInv, Others
  <2> QED BY <1>2, <2>1, ProcessHeadersStep, ProcessDataEndStep, ProcessResetStreamStep,
             ResetStreamStep, ProcessWindowUpdateStep, ProcessSettingsStep, ProcessPingStep,
             GoAwayStep DEF Client
<1>3. CASE \E s \in Streams : Handler(s)
  BY <1>3, WriteChunkStep, HandlerDoneStep, SendHeaderStep, HeaderWrittenStep, SendDataStep,
     DataWrittenStep DEF Handler
<1>4. CASE \E i \in DOMAIN sc.writers : Writer(i)
  BY <1>4, WriteFrameStep, WakeStep DEF Writer
<1>5. CASE UNCHANGED vars
  BY <1>5 DEF vars, IInv, Others
<1> QED BY <1>1, <1>2, <1>3, <1>4, <1>5 DEF Next

\* Handlers, queues and writers of a connection, at each point
THEOREM Invariant == Spec => []IInv
  BY InitHolds, StepHolds, PTL DEF Spec

\* No window is overdrawn, no channel overfull, and what is queued for a stream
\* belongs to it, whatever the client does and when.
THEOREM TypeCorrect == Spec => []TypeOK
<1>1. IInv => TypeOK
  BY DEF IInv, Others, Inv, ServeInv, TypeOK
<1> QED BY Invariant, <1>1, PTL

\* No frame of a handler is for a stream that was closed without a reset, and no
\* handler has a second answer waiting: serve never panics over its handlers, for
\* any number of streams and in any order of resets, errors and writes.
THEOREM NeverPanics == Spec => []NoPanic
<1>1. IInv => NoPanic
  BY DEF IInv, Inv, ServeInv, NoPanic
<1> QED BY Invariant, <1>1, PTL

\* Whatever the client resets and when: serve's writingFrame is set only while a
\* write or a wakeup is under way that is going to clear it, and at most one more
\* frame is being written for each frame that was skipped.  What server.go:551 says
\* of one writer at a time is so until a first frame is skipped.
THEOREM WritesAreAccounted == Spec => []WritesAccounted
<1>1. IInv => WritesAccounted
  BY DEF IInv, Inv, ServeInv, Accounted, WritesAccounted
<1> QED BY Invariant, <1>1, PTL

---------------------------------------------------------------------------
(***************************************************************************)
(* Where no stream is reset, what a client sees of each response is what   *)
(* Responses promises: ServerConn implements it, for any number of         *)
(* streams, any buffers and any window.                                    *)
(*                                                                         *)
(* As long as the connection is there, the invariant knows where each part *)
(* of a response is.  Its header is first of all that is queued and is     *)
(* written before anything else is taken (HeaderInv).  What the handler    *)
(* gave was delivered, is with the handler, is queued or is being written  *)
(* (BytesInv).  The end comes last (EndInv).  A writer is the only one, as *)
(* OneFlies has it, so that   frames are written in the order they are     *)
(* taken.                                                                  *)
(***************************************************************************)

\* The bytes a handler has taken over and not yet given to serve
InHandler(x) == IF x.pc \in {"sendHeader", "waitHeader", "sendData"} THEN x.n ELSE 0

DataOf(F) == {f \in F : f.kind = "data"}

HeadersOf(F) == {f \in F : f.kind = "header"}

\* The bytes of a set of frames with one DATA frame at most
Bytes(F) == IF DataOf(F) = {} THEN 0 ELSE (CHOOSE f \in DataOf(F) : TRUE).n

\* The frames of a stream that are being written
Written(c, s) ==
  {c.writers[i].frame : i \in {j \in DOMAIN c.writers : /\ c.writers[j].at = "write"
                                                        /\ c.writers[j].frame.stream = s}}

\* Of the frames of a stream that are not taken yet, only the first is a header.
HeaderFirst(c, q, s) ==
  /\ \A i \in DOMAIN c.sq[s] : c.sq[s][i].kind = "header" => i = 1
  /\ \A j \in Of(q, s) : q[j].kind = "header" =>
       DOMAIN c.sq[s] = {} /\ \A k \in Of(q, s) : j <= k

\* Where the header of a response is
HeaderInv(Q, F, x, w) ==
  /\ ~x.sentHeader => w.phase = "silent" /\ Q = {} /\ F = {}
  /\ x.sentHeader => (w.phase = "silent" <=> HeadersOf(Q) \cup HeadersOf(F) # {})
  /\ w.phase = "silent" => w.delivered = 0
  /\ HeadersOf(Q) # {} => F = {}

\* Where its bytes are
BytesInv(Q, F, x, w) ==
  w.given = w.delivered + InHandler(x) + Bytes(Q) + Bytes(F)

\* Where its end is
EndInv(Q, F, closed, w) ==
  /\ w.phase = "ended" => closed /\ F = {}
  /\ \A f \in F : f.end => closed
  /\ \A f \in DataOf(Q) : f.waits

\* The frames that are queued, those being written, the handler and the client
Tracks(Q, F, closed, x, w) ==
  HeaderInv(Q, F, x, w) /\ BytesInv(Q, F, x, w) /\ EndInv(Q, F, closed, w)

Tracked(c, x, q, s, w) ==
  /\ Tracks(Queued(c, q, s), Written(c, s), c.state[s] = "closed", x, w)
  /\ HeaderFirst(c, q, s)

AllTracked(c, hs, q, ws) ==
  c.serve # "done" /\ \A s \in Streams : Tracked(c, hs[s], q, s, ws[s])

WireType == [phase : {"silent", "header", "ended"}, given : Nat, delivered : Nat]

\* A handler, and what the client has of its response
HandlerInv(x, w) ==
  /\ x.pc = "sendHeader" => ~x.sentHeader
  /\ x.pc \in {"waitHeader", "sendData", "waitData"} => x.sentHeader
  /\ x.done => x.pc \notin {"none", "run"}
  /\ w.phase = "ended" => x.done

Tracking ==
  /\ wire \in [Streams -> WireType]
  /\ \A s \in Streams : HandlerInv(h[s], wire[s])
  /\ ~gone => AllTracked(sc, h, want, wire)

---------------------------------------------------------------------------
(* Sets of frames *)

LEMMA BytesOfOne ==
  ASSUME NEW F, NEW f, DataOf(F) = {f}
  PROVE  Bytes(F) = f.n
  BY DEF Bytes

LEMMA BytesOfNone ==
  ASSUME NEW F, DataOf(F) = {}
  PROVE  Bytes(F) = 0
  BY DEF Bytes

LEMMA BytesAreNat ==
  ASSUME NEW F, F \subseteq StreamFrames
  PROVE  Bytes(F) \in Nat
<1>1. CASE DataOf(F) = {}
  BY <1>1, BytesOfNone
<1>2. CASE DataOf(F) # {}
  <2>1. PICK f : f = CHOOSE g \in DataOf(F) : TRUE
    OBVIOUS
  <2>2. f \in DataOf(F)
    BY <1>2, <2>1
  <2>3. f \in StreamFrames
    BY <2>2 DEF DataOf
  <2>4. f.n \in 0..MaxData
    <3>1. 0 \in 0..MaxData
      BY SizesAssumption
    <3> QED BY <2>3, <3>1 DEF StreamFrames, HeaderFrames, DataFrames
  <2>5. Bytes(F) = f.n
    BY <1>2, <2>1 DEF Bytes
  <2> QED BY <2>4, <2>5, SizesAssumption
<1> QED BY <1>1, <1>2

\* One frame
LEMMA Single ==
  ASSUME NEW f
  PROVE  /\ f.kind = "data" => Bytes({f}) = f.n /\ DataOf({f}) = {f} /\ HeadersOf({f}) = {}
         /\ f.kind = "header" => Bytes({f}) = 0 /\ DataOf({f}) = {} /\ HeadersOf({f}) = {f}
<1>1. CASE f.kind = "data"
  <2>1. DataOf({f}) = {f} /\ HeadersOf({f}) = {}
    BY <1>1 DEF DataOf, HeadersOf
  <2> QED BY <1>1, <2>1, BytesOfOne
<1>2. CASE f.kind = "header"
  <2>1. DataOf({f}) = {} /\ HeadersOf({f}) = {f}
    BY <1>2 DEF DataOf, HeadersOf
  <2> QED BY <1>2, <2>1, BytesOfNone
<1> QED BY <1>1, <1>2

LEMMA None0 == Bytes({}) = 0 /\ DataOf({}) = {} /\ HeadersOf({}) = {}
<1>1. DataOf({}) = {} /\ HeadersOf({}) = {}
  BY DEF DataOf, HeadersOf
<1> QED BY <1>1, BytesOfNone

LEMMA KindOf ==
  ASSUME NEW f \in StreamFrames
  PROVE  /\ f.kind \in {"header", "data"} /\ f.n \in Nat /\ f.n \in 0..MaxData
         /\ f.stream \in Streams /\ f.stream # None
<1>1. 0 \in 0..MaxData /\ 0..MaxData \subseteq Nat
  BY SizesAssumption
<1> QED BY <1>1, NoneAssumption DEF StreamFrames, HeaderFrames, DataFrames

LEMMA QueuedTyped ==
  ASSUME NEW c \in ServeType, NEW q \in Seq(StreamFrames), NEW s \in Streams
  PROVE  Queued(c, q, s) \subseteq StreamFrames
<1>1. c.sq[s] \in Seq(StreamFrames)
  BY DEF ServeType
<1>2. \A i \in DOMAIN c.sq[s] : c.sq[s][i] \in StreamFrames
  BY <1>1, LenProperties
<1>3. \A i \in DOMAIN q : q[i] \in StreamFrames
  BY LenProperties
<1> QED BY <1>2, <1>3 DEF Queued, Of

\* In a steady run, what is not taken yet of a stream is in order.
LEMMA InOrder ==
  ASSUME Steady, NEW c, NEW hs, NEW q, Inv(c, hs, q), c.serve = "loop", NEW s \in Streams
  PROVE  /\ LastOnly(c, q, s)
         /\ ~Live(c, s) => Queued(c, q, s) = {}
<1>1. c.state[s] \in {"idle", "open", "halfClosedRemote", "closed"}
  BY DEF Inv, ServeInv, ServeType
<1>2. StreamInv(c, hs[s], q, s)
  BY DEF Inv
<1>3. ~Live(c, s) => Queued(c, q, s) = {}
  BY <1>1, <1>2 DEF Live, StreamInv, IdleInv, ClosedInv
<1>4. Queued(c, q, s) = {} => LastOnly(c, q, s)
  BY DEF Queued, LastOnly
<1>5. Live(c, s) => LastOnly(c, q, s)
  BY <1>2 DEF StreamInv, LiveInv
<1> QED BY <1>3, <1>4, <1>5

---------------------------------------------------------------------------
(* scheduleFrameWrite *)

\* A stream is tracked as before when its frames, its writer and its state are
\* the same.
LEMMA StillTracked ==
  ASSUME NEW c, NEW d, NEW s, NEW q, NEW x, NEW w, Tracked(c, x, q, s, w),
         d.sq[s] = c.sq[s], Written(d, s) = Written(c, s),
         d.state[s] = "closed" <=> c.state[s] = "closed"
  PROVE  Tracked(d, x, q, s, w)
<1>1. Queued(d, q, s) = Queued(c, q, s)
  BY DEF Queued
<1>2. HeaderFirst(d, q, s)
  BY DEF HeaderFirst, Tracked
<1>3. (d.state[s] = "closed") = (c.state[s] = "closed")
  OBVIOUS
<1> QED BY <1>1, <1>2, <1>3 DEF Tracked

\* What takeFrom moves from the queue to the writer
Moves(Q, P, f) ==
  /\ HeadersOf(P) = {}
  /\ f.kind = "header" => HeadersOf(Q) # {}
  /\ f.kind = "data" => HeadersOf(Q) = {}
  /\ Bytes(Q) = Bytes(P) + Bytes({f})
  /\ \A g \in DataOf(P) : g.waits
  /\ f.end => P = {}
  /\ Q # {}

LEMMA TakeMoves ==
  ASSUME NEW c \in ServeType, NEW s \in Streams, c.sq[s] # <<>>, NEW d, NEW f,
         NEW q \in Seq(StreamFrames),
         Whole(c, d, f, s) \/ Split(c, d, f, s),
         LastOnly(c, q, s), HeaderFirst(c, q, s),
         \A g \in DataOf(Queued(c, q, s)) : g.waits
  PROVE  Moves(Queued(c, q, s), Queued(d, q, s), f)
<1> DEFINE a == c.sq[s]
           b == d.sq[s]
           Q == Queued(c, q, s)
           P == Queued(d, q, s)
<1>1. /\ c.sq \in [Streams -> Seq(StreamFrames)] /\ a \in Seq(StreamFrames)
      /\ Head(a) = a[1] /\ Head(a) \in StreamFrames
      /\ Len(a) \in Nat \ {0} /\ DOMAIN a = 1..Len(a) /\ Head(a) \in Q
  BY FirstFrame
<1>2. a[1].kind \in {"header", "data"} /\ a[1].n \in Nat
  BY <1>1, KindOf
<1>3. Leaves(c, d, f, q, s)
  BY TakenLeaves
<1>4. 1 \in DOMAIN a
  BY <1>1
<1>5. ~Plain(f) => P = {}
  BY <1>3 DEF Leaves
<1>6. a[1].kind = "data" => DOMAIN a = {1} /\ Of(q, s) = {} /\ Q = {a[1]}
  <2> SUFFICES ASSUME a[1].kind = "data" PROVE DOMAIN a = {1} /\ Of(q, s) = {} /\ Q = {a[1]}
    OBVIOUS
  <2>1. ~Plain(a[1])
    BY <1>1 DEF Plain, DataOf
  <2>2. DOMAIN a = {1}
    <3>1. ASSUME NEW i \in DOMAIN a, i # 1 PROVE FALSE
      <4>1. 1 < i
        BY <1>1, <3>1
      <4> QED BY <1>4, <2>1, <4>1 DEF LastOnly
    <3> QED BY <1>4, <3>1
  <2>3. Of(q, s) = {}
    BY <1>4, <2>1 DEF LastOnly
  <2> QED BY <2>2, <2>3 DEF Queued
<1>7. CASE Whole(c, d, f, s)
  <2>1. f = a[1] /\ b = Tail(a)
    BY <1>1, <1>7 DEF Whole, ServeType
  <2>2. DOMAIN b = 1..Len(a) - 1 /\ \A i \in 1..Len(a) - 1 : b[i] = a[i + 1]
    BY <1>1, <2>1, TailOf
  <2>3. CASE f.kind = "data"
    <3>1. P = {} /\ Q = {f}
      BY <1>1, <1>5, <1>6, <2>1, <2>3 DEF Plain, DataOf
    <3>2. Bytes(Q) = f.n /\ HeadersOf(Q) = {} /\ Bytes({f}) = f.n
      BY <2>3, <3>1, Single
    <3>3. Bytes(P) = 0 /\ HeadersOf(P) = {} /\ DataOf(P) = {}
      BY <3>1, None0
    <3>4. f.n \in Nat
      BY <1>2, <2>1
    <3> HIDE DEF P, Q
    <3>5. Bytes(Q) = Bytes(P) + Bytes({f})
      BY <3>2, <3>3, <3>4
    <3>6. Q # {} /\ f.kind # "header" /\ P = {}
      BY <2>3, <3>1
    <3>7. Moves(Q, P, f)
      BY <3>2, <3>3, <3>5, <3>6 DEF Moves
    <3> QED BY <3>7 DEF P, Q
  <2>4. CASE f.kind = "header"
    <3> HIDE DEF a, b
    <3>1. ASSUME NEW i \in DOMAIN b PROVE b[i] \in Q /\ b[i].kind # "header"
      <4>1. i + 1 \in DOMAIN a /\ b[i] = a[i + 1] /\ i + 1 # 1
        BY <1>1, <2>2, <3>1
      <4> QED BY <4>1 DEF HeaderFirst, Queued, a
    <3>2. ASSUME NEW j \in Of(q, s) PROVE q[j] \in Q /\ q[j].kind # "header"
      BY <1>4, <3>2 DEF HeaderFirst, Queued, a
    <3>3. ASSUME NEW i \in DOMAIN a, i # 1 PROVE a[i] \in P
      <4>1. i - 1 \in DOMAIN b /\ b[i - 1] = a[i]
        BY <1>1, <2>2, <3>3
      <4> QED BY <4>1 DEF Queued, b
    <3>4. P \subseteq Q /\ HeadersOf(P) = {}
      BY <3>1, <3>2 DEF Queued, HeadersOf, b
    <3>5. Q \subseteq P \cup {f}
      BY <2>1, <3>3 DEF Queued, a, b
    <3>6. DataOf(P) = DataOf(Q)
      BY <2>4, <3>4, <3>5 DEF DataOf
    <3>7. Bytes(P) = Bytes(Q)
      BY <3>6 DEF Bytes
    <3>8. Bytes({f}) = 0
      BY <2>4, Single
    <3>9. Bytes(P) \in Nat
      <4>1. P \subseteq StreamFrames
        BY <3>4, QueuedTyped
      <4> QED BY <4>1, BytesAreNat
    <3>10. f.end => P = {}
      BY <1>5 DEF Plain
    <3>11. HeadersOf(Q) # {} /\ Q # {}
      BY <1>1, <2>1, <2>4 DEF HeadersOf, a
    <3> HIDE DEF P, Q
    <3>12. Bytes(Q) = Bytes(P) + Bytes({f})
      BY <3>7, <3>8, <3>9
    <3>13. \A g \in DataOf(P) : g.waits
      BY <3>6 DEF Q
    <3>14. f.kind # "data"
      BY <2>4
    <3>15. Moves(Q, P, f)
      BY <3>4, <3>10, <3>11, <3>12, <3>13, <3>14 DEF Moves
    <3> QED BY <3>15 DEF P, Q
  <2> QED BY <1>2, <2>1, <2>3, <2>4
<1>8. CASE Split(c, d, f, s)
  <2>1. PICK m \in Nat :
          /\ a[1].kind = "data" /\ m < a[1].n /\ m <= c.window
          /\ f = [a[1] EXCEPT !.n = m, !.end = FALSE, !.waits = FALSE]
          /\ d = [c EXCEPT !.window = c.window - m,
                    !.sq[s] = [a EXCEPT ![1] = [a[1] EXCEPT !.n = a[1].n - m]]]
    BY <1>1, <1>8 DEF Split
  <2> DEFINE g == [a[1] EXCEPT !.n = a[1].n - m]
  <2>2. b = [a EXCEPT ![1] = g]
    BY <1>1, <2>1 DEF ServeType
  <2>3. DOMAIN b = {1} /\ b[1] = g /\ Of(q, s) = {} /\ Q = {a[1]}
    BY <1>4, <1>6, <2>1, <2>2
  <2>4. P = {g}
    BY <2>3 DEF Queued
  <2>5. a[1] \in DataFrames
    BY <1>1, <2>1 DEF StreamFrames, HeaderFrames
  <2>6. /\ g.kind = "data" /\ g.n = a[1].n - m /\ g.waits = a[1].waits
        /\ f.kind = "data" /\ f.n = m /\ f.end = FALSE
    BY <2>1, <2>5 DEF DataFrames
  <2>7. a[1].waits
    BY <1>1, <2>1 DEF DataOf
  <2>8. Bytes(Q) = a[1].n /\ HeadersOf(Q) = {}
    BY <2>1, <2>3, Single
  <2>9. Bytes(P) = a[1].n - m /\ HeadersOf(P) = {} /\ DataOf(P) = {g}
    BY <2>4, <2>6, Single
  <2>10. Bytes({f}) = m
    BY <2>6, Single
  <2> HIDE DEF g, P, Q, a
  <2>11. Bytes(Q) = Bytes(P) + Bytes({f})
    BY <1>2, <2>8, <2>9, <2>10
  <2>12. Moves(Q, P, f)
    BY <1>1, <2>6, <2>7, <2>8, <2>9, <2>11 DEF Moves
  <2> QED BY <2>12 DEF P, Q
<1> QED BY <1>7, <1>8

\* ... keeps the response tracked.
LEMMA MovesTracked ==
  ASSUME NEW Q, NEW P, NEW f, Moves(Q, P, f),
         Q \subseteq StreamFrames, P \subseteq StreamFrames, f \in StreamFrames,
         NEW x \in HandlerType, NEW w \in WireType, NEW was, ~was, NEW closed, f.end => closed,
         Tracks(Q, {}, was, x, w)
  PROVE  Tracks(P, {f}, closed, x, w)
<1>1. f.kind \in {"header", "data"} /\ f.n \in Nat
  BY KindOf
<1>2. Bytes({f}) \in Nat /\ Bytes(P) \in Nat /\ Bytes(Q) = Bytes(P) + Bytes({f}) /\ Bytes({}) = 0
  BY BytesAreNat, None0 DEF Moves
<1>3. x.sentHeader /\ w.phase # "ended"
  BY DEF Tracks, HeaderInv, EndInv, Moves, WireType
<1>4. w.phase = "silent" <=> HeadersOf(P) \cup HeadersOf({f}) # {}
  <2>1. w.phase = "silent" <=> HeadersOf(Q) # {}
    BY <1>3, None0 DEF Tracks, HeaderInv
  <2>2. CASE f.kind = "header"
    BY <2>1, <2>2, Single DEF Moves
  <2>3. CASE f.kind = "data"
    BY <2>1, <2>3, Single DEF Moves
  <2> QED BY <1>1, <2>2, <2>3
<1>5. HeaderInv(P, {f}, x, w)
  BY <1>3, <1>4 DEF Tracks, HeaderInv, Moves
<1>6. BytesInv(P, {f}, x, w)
  <2>1. InHandler(x) \in Nat /\ w.given \in Nat /\ w.delivered \in Nat
    <3>1. x.n \in Nat
      BY SizesAssumption DEF HandlerType
    <3> QED BY <3>1 DEF InHandler, WireType
  <2>2. w.given = w.delivered + InHandler(x) + Bytes(Q) + Bytes({})
    BY DEF Tracks, BytesInv
  <2> QED BY <1>2, <2>1, <2>2 DEF BytesInv
<1>7. EndInv(P, {f}, closed, w)
  BY <1>3 DEF EndInv, Moves
<1> QED BY <1>5, <1>6, <1>7 DEF Tracks

\* Nothing is being written of a stream.
LEMMA NoWriter ==
  ASSUME NEW c, Len(c.writers) = 0, c \in ServeType, NEW s
  PROVE  Written(c, s) = {}
<1>1. DOMAIN c.writers = {}
  BY LenProperties DEF ServeType
<1> QED BY <1>1 DEF Written

LEMMA FirstWriter ==
  ASSUME NEW c \in ServeType, Len(c.writers) = 0, NEW f, NEW d, OneWriterMore(c, d, f),
         NEW s
  PROVE  Written(d, s) = IF f.stream = s THEN {f} ELSE {}
<1>1. DOMAIN d.writers = {1} /\ d.writers[1] = [frame |-> f, at |-> "write"]
  BY DEF OneWriterMore
<1>2. d.writers[1].frame = f /\ d.writers[1].at = "write"
  BY <1>1
<1> QED BY <1>1, <1>2 DEF Written

Typed(hs, ws) == hs \in [Streams -> HandlerType] /\ ws \in [Streams -> WireType]

\* startFrameWrite of what was taken from the queue of a stream
LEMMA StreamTracked ==
  ASSUME Steady, NEW c, NEW hs, NEW q \in Seq(StreamFrames), Inv(c, hs, q), Ready(c),
         NEW ws, Typed(hs, ws), AllTracked(c, hs, q, ws),
         NEW s \in Streams, c.sq[s] # <<>>, NEW e, NEW f,
         Whole(c, e, f, s) \/ Split(c, e, f, s),
         NEW d, d = StartFrameWrite(e, f)
  PROVE  AllTracked(d, hs, q, ws)
<1>1. /\ c \in ServeType /\ c.serve = "loop"
      /\ \A i \in DOMAIN c.sq[s] : c.sq[s][i].stream = s
  BY DEF Inv, ServeInv, Ready
<1>2. OnlyTaken(c, e, f, s)
  BY <1>1, TakenTyped
<1>3. /\ e.state = c.state /\ e.writers = c.writers /\ e.serve = "loop" /\ e \in ServeType
      /\ f \in StreamFrames /\ f.stream = s /\ f.stream # None
      /\ \A t \in Streams : t # s => e.sq[t] = c.sq[t]
  BY <1>1, <1>2, NoneAssumption DEF OnlyTaken
<1>4. Len(c.writers) = 0 /\ \A t : Written(c, t) = {}
  BY <1>1, NothingFlies, NoWriter DEF Inv, ServeInv
<1> DEFINE Q == Queued(c, q, s)
           P == Queued(e, q, s)
<1>5. Tracked(c, hs[s], q, s, ws[s])
  BY DEF AllTracked
<1>6. Moves(Q, P, f)
  <2>1. LastOnly(c, q, s)
    BY <1>1, InOrder
  <2>2. HeaderFirst(c, q, s) /\ \A g \in DataOf(Queued(c, q, s)) : g.waits
    BY <1>5 DEF Tracked, Tracks, EndInv
  <2> QED BY <1>1, <2>1, <2>2, TakeMoves
<1>7. Live(c, s)
  BY <1>1, <1>6, InOrder DEF Moves
<1>8. HeaderFirst(e, q, s)
  <2>1. ASSUME NEW i \in DOMAIN e.sq[s], e.sq[s][i].kind = "header" PROVE FALSE
    BY <1>6, <2>1 DEF Moves, HeadersOf, Queued
  <2>2. ASSUME NEW j \in Of(q, s), q[j].kind = "header" PROVE FALSE
    BY <1>6, <2>2 DEF Moves, HeadersOf, Queued
  <2> QED BY <2>1, <2>2 DEF HeaderFirst
<1> DEFINE b == Started(e, f)
<1>9. OneWriterMore(e, b, f)
  BY <1>3, StartedDoes
<1>10. /\ b \in ServeType /\ b.sq = e.sq /\ b.state = c.state /\ b.serve = "loop"
  BY <1>3, <1>9 DEF OneWriterMore
<1>11. Written(b, s) = {f} /\ \A t : t # s => Written(b, t) = {}
  BY <1>3, <1>4, <1>9, FirstWriter
<1>12. d = IF f.end THEN EndStream(b, s) ELSE b
  BY <1>3, <1>7 DEF StartFrameWrite, Started, Live
<1> HIDE DEF b
<1>13. /\ d.writers = b.writers /\ d.serve = "loop" /\ d \in ServeType
       /\ \A t \in Streams : t # s => d.state[t] = c.state[t] /\ d.sq[t] = c.sq[t]
       /\ Queued(d, q, s) = P /\ HeaderFirst(d, q, s)
       /\ f.end => d.state[s] = "closed"
  <2>1. CASE ~f.end
    <3>1. d = b
      BY <1>12, <2>1
    <3>2. Queued(b, q, s) = P
      BY <1>10 DEF Queued
    <3>3. HeaderFirst(b, q, s)
      BY <1>8, <1>10 DEF HeaderFirst
    <3> QED BY <1>3, <1>10, <2>1, <3>1, <3>2, <3>3
  <2>2. CASE f.end
    <3>1. Closes(b, d, s)
      BY <1>10, <1>12, <2>2, EndStreamDoes
    <3>2. /\ d.state[s] = "closed" /\ d.sq[s] = <<>>
          /\ \A t \in Streams : t # s => d.state[t] = c.state[t] /\ d.sq[t] = e.sq[t]
      BY <1>3, <1>10, <3>1 DEF Closes, ServeType
    <3>3. P = {}
      BY <1>6, <2>2 DEF Moves
    <3>4. Of(q, s) = {} /\ DOMAIN d.sq[s] = {}
      <4>1. Of(q, s) = {}
        BY <3>3 DEF Queued
      <4>2. DOMAIN d.sq[s] = {}
        BY <3>2
      <4> QED BY <4>1, <4>2
    <3>5. Queued(d, q, s) = {} /\ HeaderFirst(d, q, s)
      BY <3>4 DEF Queued, HeaderFirst
    <3> QED BY <1>3, <1>10, <3>1, <3>2, <3>3, <3>5 DEF Closes, SameConn
  <2> QED BY <2>1, <2>2
<1>14. \A t : Written(d, t) = Written(b, t)
  BY <1>13 DEF Written
<1>15. ASSUME NEW t \in Streams, t # s PROVE Tracked(d, hs[t], q, t, ws[t])
  <2>1. Tracked(c, hs[t], q, t, ws[t])
    BY DEF AllTracked
  <2> QED BY <1>4, <1>11, <1>13, <1>14, <1>15, <2>1, StillTracked
<1>16. Tracked(d, hs[s], q, s, ws[s])
  <2>1. Q \subseteq StreamFrames /\ P \subseteq StreamFrames
    BY <1>1, <1>3, QueuedTyped
  <2>2. Tracks(Q, {}, c.state[s] = "closed", hs[s], ws[s])
    BY <1>4, <1>5 DEF Tracked
  <2>3. hs[s] \in HandlerType /\ ws[s] \in WireType
    BY DEF Typed
  <2>4. ~(c.state[s] = "closed")
    BY <1>7 DEF Live
  <2> HIDE DEF P, Q
  <2>5. Tracks(P, {f}, d.state[s] = "closed", hs[s], ws[s])
    BY <1>3, <1>6, <1>13, <2>1, <2>2, <2>3, <2>4, MovesTracked
  <2> QED BY <1>11, <1>13, <1>14, <2>5 DEF Tracked
<1> QED BY <1>13, <1>15, <1>16 DEF AllTracked

\* ... of a frame of no stream
LEMMA ConnTracked ==
  ASSUME NEW c, NEW hs, NEW q, Inv(c, hs, q), Ready(c), Steady,
         NEW ws, AllTracked(c, hs, q, ws), NEW e, Beside(c, e),
         NEW f \in ConnFrames, NEW d, d = StartFrameWrite(e, f)
  PROVE  AllTracked(d, hs, q, ws)
<1>1. /\ e \in ServeType /\ e.writers = c.writers /\ e.state = c.state /\ e.sq = c.sq
      /\ e.serve = "loop" /\ c \in ServeType
  BY DEF Beside, SameConn, Ready, Inv, ServeInv
<1>2. Len(c.writers) = 0 /\ \A t : Written(c, t) = {}
  BY <1>1, NothingFlies, NoWriter DEF Inv, ServeInv, Ready
<1>3. f \in StreamFrames \cup ConnFrames /\ f.stream = None
  BY DEF ConnFrames
<1>4. d = Started(e, f)
  BY <1>1, StartsConn
<1>5. OneWriterMore(e, d, f)
  BY <1>1, <1>3, <1>4, StartedDoes
<1>6. \A t \in Streams : Written(d, t) = {}
  BY <1>1, <1>2, <1>3, <1>5, FirstWriter, NoneAssumption
<1>7. d.sq = c.sq /\ d.state = c.state /\ d.serve = "loop"
  BY <1>1, <1>5 DEF OneWriterMore
<1>8. \A t \in Streams : Tracked(d, hs[t], q, t, ws[t])
  BY <1>2, <1>6, <1>7, StillTracked DEF AllTracked
<1> QED BY <1>7, <1>8 DEF AllTracked

\* What is tracked depends on these only.
LEMMA BesideTracked ==
  ASSUME NEW c, NEW d, NEW hs, NEW q, NEW ws, AllTracked(c, hs, q, ws),
         d.sq = c.sq, d.state = c.state, d.writers = c.writers, d.serve = c.serve
  PROVE  AllTracked(d, hs, q, ws)
<1>1. \A t : Written(d, t) = Written(c, t)
  BY DEF Written
<1> QED BY <1>1, StillTracked DEF AllTracked

LEMMA TakeTracked ==
  ASSUME Steady, NEW c, NEW hs, NEW q \in Seq(StreamFrames), Inv(c, hs, q), Ready(c),
         NEW ws, Typed(hs, ws), AllTracked(c, hs, q, ws),
         NEW t \in Take(c)
  PROVE  AllTracked(StartFrameWrite(t.rest, t.frame), hs, q, ws)
<1>1. c \in ServeType
  BY DEF Inv, ServeInv
<1>2. CASE c.zero # <<>>
  <2> DEFINE f == Head(c.zero)
             e == [c EXCEPT !.zero = Tail(c.zero)]
  <2>1. t.frame = f /\ t.rest = e
    BY <1>2 DEF Take, Taken
  <2>2. f \in ConnFrames /\ Tail(c.zero) \in Seq(ConnFrames)
    BY <1>1, <1>2, HeadTailProperties DEF ServeType
  <2>3. Beside(c, e)
    BY <1>1, <2>2 DEF ServeType, Beside, SameConn
  <2> HIDE DEF e, f
  <2> QED BY <2>1, <2>2, <2>3, ConnTracked
<1>3. CASE \E s \in Streams : c.sq[s] # <<>> /\ t = TakeFrom(c, s)
  <2>1. PICK s \in Streams : c.sq[s] # <<>> /\ t = TakeFrom(c, s)
    BY <1>3
  <2>2. Whole(c, t.rest, t.frame, s) \/ Split(c, t.rest, t.frame, s)
    BY <1>1, <2>1, TakesFrom
  <2> QED BY <2>1, <2>2, StreamTracked
<1> QED BY <1>2, <1>3 DEF Take

LEMMA ScheduleTracked ==
  ASSUME Steady, NEW c, NEW hs, NEW q \in Seq(StreamFrames), Inv(c, hs, q), c.serve = "loop",
         NEW ws, Typed(hs, ws), AllTracked(c, hs, q, ws),
         NEW d \in Schedule(c)
  PROVE  AllTracked(d, hs, q, ws)
<1>1. c \in ServeType
  BY DEF Inv, ServeInv
<1>2. \A kind \in {"goaway", "settingsAck", "flush"} : OfConn(kind) \in ConnFrames
  BY OfConnTyped DEF Kinds
<1>3. Beside(c, c) /\ Beside(c, [c EXCEPT !.needGoAway = FALSE])
      /\ Beside(c, [c EXCEPT !.needAck = FALSE])
  BY <1>1 DEF ServeType, Beside, SameConn
<1>4. CASE d = c
  BY <1>4
<1>5. CASE Ready(c)
  <2>1. CASE d = StartFrameWrite([c EXCEPT !.needGoAway = FALSE], OfConn("goaway"))
    BY <1>2, <1>3, <1>5, <2>1, ConnTracked
  <2>2. CASE d = StartFrameWrite([c EXCEPT !.needAck = FALSE], OfConn("settingsAck"))
    BY <1>2, <1>3, <1>5, <2>2, ConnTracked
  <2>3. CASE \E t \in Take(c) : d = StartFrameWrite(t.rest, t.frame)
    BY <1>5, <2>3, TakeTracked
  <2>4. CASE d = [StartFrameWrite(c, OfConn("flush")) EXCEPT !.flush = FALSE]
    <3> DEFINE b == StartFrameWrite(c, OfConn("flush"))
    <3>1. AllTracked(b, hs, q, ws) /\ b \in ServeType
      <4>1. Inv(b, hs, q)
        BY <1>2, <1>3, <1>5, ConnKeeps
      <4>2. AllTracked(b, hs, q, ws)
        BY <1>2, <1>3, <1>5, ConnTracked
      <4> QED BY <4>1, <4>2 DEF Inv, ServeInv
    <3>2. d = [b EXCEPT !.flush = FALSE]
      BY <2>4
    <3> HIDE DEF b
    <3>3. d.sq = b.sq /\ d.state = b.state /\ d.writers = b.writers /\ d.serve = b.serve
      BY <3>1, <3>2 DEF ServeType
    <3> QED BY <3>1, <3>3, BesideTracked
  <2> QED BY <1>4, <2>1, <2>2, <2>3, <2>4 DEF Schedule
<1> QED BY <1>4, <1>5 DEF Schedule, Ready

---------------------------------------------------------------------------
(* The steps of the handlers *)

\* As long as the connection is there, serve runs.
LEMMA Connected ==
  ASSUME Steady, IInv, Tracking, ~gone
  PROVE  sc.serve = "loop" /\ AllTracked(sc, h, want, wire)
<1>1. AllTracked(sc, h, want, wire)
  BY DEF Tracking
<1>2. sc.serve \in {"loop", "stuck", "panic", "done"} /\ sc.serve # "panic" /\ sc.serve # "stuck"
  BY DEF IInv, Inv, ServeInv, ServeType
<1> QED BY <1>1, <1>2 DEF AllTracked

LEMMA TypedOf ==
  ASSUME IInv, Tracking
  PROVE  Typed(h, wire)
  BY DEF IInv, Others, Tracking, Typed

LEMMA WrittenTyped ==
  ASSUME NEW c \in ServeType, NEW s \in Streams
  PROVE  Written(c, s) \subseteq StreamFrames
<1>1. \A i \in DOMAIN c.writers : c.writers[i] \in Writers
  <2>1. c.writers \in Seq(Writers)
    BY DEF ServeType, Writers
  <2> QED BY <2>1, LenProperties
<1>2. \A f \in StreamFrames \cup ConnFrames : f.stream = s => f \in StreamFrames
  BY NoneAssumption DEF ConnFrames
<1> QED BY <1>1, <1>2 DEF Written, Writers

LEMMA InHandlerIsNat ==
  ASSUME NEW x \in HandlerType
  PROVE  InHandler(x) \in Nat
<1>1. x.n \in Nat
  BY SizesAssumption DEF HandlerType
<1> QED BY <1>1 DEF InHandler

\* A handler goes on and takes over bytes, or not.
LEMMA TakesOver ==
  ASSUME NEW c \in ServeType, NEW q \in Seq(StreamFrames), NEW s \in Streams,
         NEW x \in HandlerType, NEW w \in WireType, Tracked(c, x, q, s, w),
         NEW y \in HandlerType, NEW v \in WireType,
         y.sentHeader = x.sentHeader, v.phase = w.phase, v.delivered = w.delivered,
         v.given + InHandler(x) = w.given + InHandler(y)
  PROVE  Tracked(c, y, q, s, v)
<1> DEFINE Q == Queued(c, q, s)
           F == Written(c, s)
<1>1. Bytes(Q) \in Nat /\ Bytes(F) \in Nat
  BY QueuedTyped, WrittenTyped, BytesAreNat
<1>2. InHandler(x) \in Nat /\ InHandler(y) \in Nat
  BY InHandlerIsNat
<1>3. HeaderInv(Q, F, x, w) /\ BytesInv(Q, F, x, w) /\ EndInv(Q, F, c.state[s] = "closed", w)
  BY DEF Tracked, Tracks
<1> HIDE DEF Q, F
<1>4. HeaderInv(Q, F, y, v)
  BY <1>3 DEF HeaderInv
<1>5. BytesInv(Q, F, y, v)
  <2> DEFINE g == w.given
             d == w.delivered
             i == InHandler(x)
             j == InHandler(y)
             m == Bytes(Q)
             k == Bytes(F)
  <2>1. g \in Nat /\ d \in Nat /\ i \in Nat /\ j \in Nat /\ m \in Nat /\ k \in Nat
    BY <1>1, <1>2 DEF WireType
  <2>2. g = d + i + m + k
    BY <1>3 DEF BytesInv
  <2>3. v.given \in Nat /\ v.given + i = g + j
    BY DEF WireType
  <2> HIDE DEF g, d, i, j, m, k
  <2>4. v.given = d + j + m + k
    BY <2>1, <2>2, <2>3
  <2> QED BY <2>4 DEF BytesInv, d, j, m, k
<1>6. EndInv(Q, F, c.state[s] = "closed", v)
  BY <1>3 DEF EndInv
<1> QED BY <1>4, <1>5, <1>6 DEF Tracked, Tracks, Q, F

LEMMA HandlerTracks ==
  ASSUME Tracking, h \in [Streams -> HandlerType],
         NEW s \in Streams, NEW y, h' = [h EXCEPT ![s] = y],
         NEW v \in WireType, wire' = [wire EXCEPT ![s] = v], HandlerInv(y, v),
         sc' = sc, gone' = gone,
         ~gone => /\ sc.serve = "loop" /\ Tracked(sc, y, want', s, v)
                  /\ \A t \in Streams : t # s => Tracked(sc, h[t], want', t, wire[t])
  PROVE  Tracking'
<1>1. wire \in [Streams -> WireType]
  BY DEF Tracking
<1>2. /\ h'[s] = y /\ wire'[s] = v /\ wire' \in [Streams -> WireType]
      /\ \A t \in Streams : t # s => h'[t] = h[t] /\ wire'[t] = wire[t]
  BY <1>1
<1>3. \A t \in Streams : HandlerInv(h'[t], wire'[t])
  BY <1>2 DEF Tracking
<1>4. ~gone' => AllTracked(sc, h', want', wire')
  BY <1>2 DEF AllTracked
<1> QED BY <1>2, <1>3, <1>4 DEF Tracking

\* ... while the channel stays as it is
LEMMA HandlerAlone ==
  ASSUME Steady, IInv, Tracking, NEW s \in Streams,
         NEW y \in HandlerType, h' = [h EXCEPT ![s] = y],
         NEW v \in WireType, wire' = [wire EXCEPT ![s] = v], HandlerInv(y, v),
         sc' = sc, gone' = gone, want' = want,
         ~gone => /\ y.sentHeader = h[s].sentHeader
                  /\ v.phase = wire[s].phase /\ v.delivered = wire[s].delivered
                  /\ v.given + InHandler(h[s]) = wire[s].given + InHandler(y)
  PROVE  Tracking'
<1>1. /\ h \in [Streams -> HandlerType] /\ wire \in [Streams -> WireType]
      /\ sc \in ServeType /\ want \in Seq(StreamFrames)
  BY TypesOfInv, TypedOf DEF Typed
<1>2. ~gone => /\ sc.serve = "loop" /\ Tracked(sc, y, want', s, v)
               /\ \A t \in Streams : t # s => Tracked(sc, h[t], want', t, wire[t])
  <2> SUFFICES ASSUME ~gone
               PROVE  /\ sc.serve = "loop" /\ Tracked(sc, y, want', s, v)
                      /\ \A t \in Streams : t # s => Tracked(sc, h[t], want', t, wire[t])
    OBVIOUS
  <2>1. sc.serve = "loop" /\ \A t \in Streams : Tracked(sc, h[t], want, t, wire[t])
    BY Connected DEF AllTracked
  <2>2. h[s] \in HandlerType /\ wire[s] \in WireType
    BY <1>1
  <2>3. Tracked(sc, y, want, s, v)
    BY <1>1, <2>1, <2>2, TakesOver
  <2> QED BY <2>1, <2>3
<1> QED BY <1>1, <1>2, HandlerTracks

\* The handler gives bytes.
LEMMA GiveStep ==
  ASSUME NEW s \in Streams, NEW n \in 0..MaxData, wire \in [Streams -> WireType],
         wire[s].phase # "ended", wire' = [wire EXCEPT ![s].given = @ + n]
  PROVE  [Responding!Next]_wire
<1>1. CASE n = 0
  <2>1. wire[s] = [wire[s] EXCEPT !.given = wire[s].given + n]
    BY <1>1 DEF WireType
  <2>2. wire' = [wire EXCEPT ![s] = [wire[s] EXCEPT !.given = wire[s].given + n]]
    BY DEF WireType
  <2>3. wire' = wire
    BY <2>1, <2>2
  <2> QED BY <2>3
<1>2. CASE n # 0
  <2>1. n \in 1..MaxData
    BY <1>2, SizesAssumption
  <2>2. Responding!Give(s, n)
    BY DEF Responding!Give
  <2> QED BY <2>1, <2>2 DEF Responding!Next
<1> QED BY <1>1, <1>2

Simulates == Tracking' /\ [Responding!Next]_wire

LEMMA WriteChunkTracks ==
  ASSUME Steady, IInv, Tracking, NEW s \in Streams, NEW n \in 0..MaxData, WriteChunk(s, n)
  PROVE  Simulates
<1> DEFINE x == h[s]
           w == wire[s]
           y == [x EXCEPT !.pc = IF x.sentHeader THEN "sendData" ELSE "sendHeader",
                          !.n = n, !.writes = x.writes + 1]
           v == [w EXCEPT !.given = w.given + n]
<1>1. /\ h \in [Streams -> HandlerType] /\ wire \in [Streams -> WireType]
      /\ x \in HandlerType /\ w \in WireType /\ x.pc = "run" /\ HandlerInv(x, w)
  BY TypedOf DEF Typed, Tracking, WriteChunk
<1>2. x.writes + 1 \in 0..MaxWrites /\ n \in Nat
  BY <1>1, SizesAssumption DEF WriteChunk, HandlerType
<1>3. /\ y \in HandlerType /\ y.sentHeader = x.sentHeader /\ y.done = x.done /\ y.n = n
      /\ y.pc = IF x.sentHeader THEN "sendData" ELSE "sendHeader"
  BY <1>1, <1>2 DEF HandlerType
<1>4. /\ v \in WireType /\ v.phase = w.phase /\ v.delivered = w.delivered
      /\ v.given = w.given + n /\ w.given \in Nat
  BY <1>1, <1>2 DEF WireType
<1>5. h' = [h EXCEPT ![s] = y] /\ wire' = [wire EXCEPT ![s] = v]
  BY <1>1 DEF WriteChunk, HandlerType, WireType
<1>6. InHandler(x) = 0
  BY <1>1 DEF InHandler
<1>7. sc' = sc /\ gone' = gone /\ want' = want
  BY DEF WriteChunk
<1>8. w.phase # "ended"
  BY <1>1 DEF HandlerInv
<1>9. [Responding!Next]_wire
  BY <1>1, <1>8, GiveStep DEF WriteChunk
<1> HIDE DEF x, w, y, v
<1>10. InHandler(y) = n /\ HandlerInv(y, v)
  BY <1>1, <1>3, <1>4 DEF InHandler, HandlerInv
<1>11. v.given + InHandler(x) = w.given + InHandler(y)
  BY <1>2, <1>4, <1>6, <1>10
<1>12. Tracking'
  BY <1>3, <1>4, <1>5, <1>7, <1>10, <1>11, HandlerAlone DEF x, w
<1> QED BY <1>9, <1>12 DEF Simulates

LEMMA HandlerDoneTracks ==
  ASSUME Steady, IInv, Tracking, NEW s \in Streams, NEW n \in 0..MaxData, HandlerDone(s, n)
  PROVE  Simulates
<1> DEFINE x == h[s]
           w == wire[s]
           y == [x EXCEPT !.pc = IF x.broken /\ n > 0 THEN "exited"
                                 ELSE IF x.sentHeader THEN "sendData" ELSE "sendHeader",
                          !.n = n, !.done = TRUE]
           v == [w EXCEPT !.given = w.given + n]
<1>1. /\ h \in [Streams -> HandlerType] /\ wire \in [Streams -> WireType]
      /\ x \in HandlerType /\ w \in WireType /\ x.pc = "run" /\ HandlerInv(x, w)
  BY TypedOf DEF Typed, Tracking, HandlerDone
<1>2. n \in Nat
  BY SizesAssumption
<1>3. /\ y \in HandlerType /\ y.sentHeader = x.sentHeader /\ y.done /\ y.n = n
      /\ y.pc \in {"exited", "sendData", "sendHeader"}
      /\ y.pc = "sendData" => x.sentHeader
      /\ y.pc = "sendHeader" => ~x.sentHeader
      /\ ~x.broken => y.pc # "exited"
  BY <1>1 DEF HandlerType
<1>4. /\ v \in WireType /\ v.phase = w.phase /\ v.delivered = w.delivered
      /\ v.given = w.given + n /\ w.given \in Nat
  BY <1>1, <1>2 DEF WireType
<1>5. h' = [h EXCEPT ![s] = y] /\ wire' = [wire EXCEPT ![s] = v]
  BY <1>1 DEF HandlerDone, HandlerType, WireType
<1>6. InHandler(x) = 0
  BY <1>1 DEF InHandler
<1>7. sc' = sc /\ gone' = gone /\ want' = want
  BY DEF HandlerDone
<1>8. w.phase # "ended"
  BY <1>1 DEF HandlerInv
<1>9. [Responding!Next]_wire
  BY <1>1, <1>8, GiveStep DEF HandlerDone
<1>10. ~gone => ~x.broken
  <2> SUFFICES ASSUME ~gone PROVE ~x.broken
    OBVIOUS
  <2>1. sc.serve = "loop" /\ sc.state[s] \in {"idle", "open", "halfClosedRemote", "closed"}
    BY Connected, TypesOfInv DEF ServeType
  <2>2. Resting(sc, x, want, s)
    BY <1>1, HandlerOf, HandlerRests
  <2> QED BY <2>1, <2>2 DEF Resting, Live
<1> HIDE DEF x, w, y, v
<1>11. HandlerInv(y, v)
  BY <1>3, <1>4, <1>8 DEF HandlerInv
<1>12. ~gone => v.given + InHandler(x) = w.given + InHandler(y)
  <2> SUFFICES ASSUME ~gone PROVE v.given + InHandler(x) = w.given + InHandler(y)
    OBVIOUS
  <2>1. InHandler(y) = n
    BY <1>3, <1>10 DEF InHandler
  <2> QED BY <1>2, <1>4, <1>6, <2>1
<1>13. Tracking'
  BY <1>3, <1>4, <1>5, <1>7, <1>11, <1>12, HandlerAlone DEF x, w
<1> QED BY <1>9, <1>13 DEF Simulates

\* A step that the client does not see
LEMMA Unseen ==
  ASSUME Tracking', wire' = wire
  PROVE  Simulates
  BY DEF Simulates

\* A frame is appended to the channel: it is a header only when it is the first.
LEMMA StillFirst ==
  ASSUME NEW c \in ServeType, NEW q \in Seq(StreamFrames), NEW f \in StreamFrames,
         NEW s \in Streams, HeaderFirst(c, q, s),
         f.stream = s /\ f.kind = "header" => Queued(c, q, s) = {}
  PROVE  HeaderFirst(c, Append(q, f), s)
<1> DEFINE p == Append(q, f)
<1>1. /\ Len(q) \in Nat /\ DOMAIN q = 1..Len(q) /\ DOMAIN p = 1..Len(q) + 1
      /\ \A i \in 1..Len(q) : p[i] = q[i]
      /\ p[Len(q) + 1] = f
  BY AppendProperties, LenProperties
<1> HIDE DEF p
<1>2. Of(p, s) = Of(q, s) \cup (IF s = f.stream THEN {Len(q) + 1} ELSE {})
  BY <1>1 DEF Of
<1>3. \A i \in Of(q, s) : p[i] = q[i] /\ i \in 1..Len(q)
  BY <1>1 DEF Of
<1>4. ASSUME NEW j \in Of(p, s), p[j].kind = "header"
      PROVE  DOMAIN c.sq[s] = {} /\ \A k \in Of(p, s) : j <= k
  <2>1. CASE j \in Of(q, s)
    <3>1. DOMAIN c.sq[s] = {} /\ \A k \in Of(q, s) : j <= k
      BY <1>3, <1>4, <2>1 DEF HeaderFirst
    <3>2. j <= Len(q) + 1
      BY <1>1, <1>3, <2>1
    <3> QED BY <1>2, <3>1, <3>2
  <2>2. CASE j \notin Of(q, s)
    <3>1. j = Len(q) + 1 /\ s = f.stream /\ f.kind = "header"
      BY <1>1, <1>2, <1>4, <2>2
    <3>2. DOMAIN c.sq[s] = {} /\ Of(q, s) = {}
      BY <3>1 DEF Queued
    <3> QED BY <1>1, <1>2, <3>1, <3>2
  <2> QED BY <2>1, <2>2
<1> QED BY <1>4 DEF HeaderFirst, p

\* A handler sends a frame.
LEMMA HandlerSends ==
  ASSUME Steady, IInv, Tracking, NEW s \in Streams, NEW f \in StreamFrames, f.stream = s,
         NEW y \in HandlerType, h' = [h EXCEPT ![s] = y], HandlerInv(y, wire[s]),
         FromHandler(f), sc' = sc, gone' = gone, wire' = wire,
         ~gone => /\ f.kind = "header" => Queued(sc, want, s) = {}
                  /\ Tracks(Queued(sc, want, s) \cup {f}, Written(sc, s),
                            sc.state[s] = "closed", y, wire[s])
  PROVE  Simulates
<1>1. /\ h \in [Streams -> HandlerType] /\ wire \in [Streams -> WireType]
      /\ sc \in ServeType /\ want \in Seq(StreamFrames)
  BY TypesOfInv, TypedOf DEF Typed
<1>2. wire' = [wire EXCEPT ![s] = wire[s]] /\ wire[s] \in WireType
  BY <1>1
<1>3. ~gone => /\ sc.serve = "loop" /\ Tracked(sc, y, want', s, wire[s])
               /\ \A t \in Streams : t # s => Tracked(sc, h[t], want', t, wire[t])
  <2> SUFFICES ASSUME ~gone
               PROVE  /\ sc.serve = "loop" /\ Tracked(sc, y, want', s, wire[s])
                      /\ \A t \in Streams : t # s => Tracked(sc, h[t], want', t, wire[t])
    OBVIOUS
  <2>1. sc.serve = "loop" /\ \A t \in Streams : Tracked(sc, h[t], want, t, wire[t])
    BY Connected DEF AllTracked
  <2> DEFINE p == Append(want, f)
  <2>2. want' = p
    BY <2>1 DEF FromHandler
  <2>3. \A t \in Streams : Given(sc, want, f, t, p)
    BY <1>1, Appended
  <2>4. \A t \in Streams : HeaderFirst(sc, p, t)
    <3>1. \A t \in Streams : HeaderFirst(sc, want, t)
      BY <2>1 DEF Tracked
    <3>2. \A t \in Streams : f.stream = t /\ f.kind = "header" => Queued(sc, want, t) = {}
      OBVIOUS
    <3> QED BY <1>1, <3>1, <3>2, StillFirst
  <2> HIDE DEF p
  <2>5. Tracked(sc, y, p, s, wire[s])
    BY <2>3, <2>4 DEF Tracked, Given
  <2>6. \A t \in Streams : t # s => Tracked(sc, h[t], p, t, wire[t])
    BY <2>1, <2>3, <2>4 DEF Tracked, Given
  <2> QED BY <2>1, <2>2, <2>5, <2>6
<1>4. Tracking'
  BY <1>1, <1>2, <1>3, HandlerTracks
<1> QED BY <1>4, Unseen

LEMMA AfterHeaderIs ==
  ASSUME NEW s \in Streams
  PROVE  /\ AfterHeader(s) \in {"exited", "run", "sendData"}
         /\ AfterHeader(s) = "sendData" <=> h[s].n # 0
         /\ AfterHeader(s) = "run" => ~h[s].done
  BY DEF AfterHeader

LEMMA SendHeaderTracks ==
  ASSUME Steady, IInv, Tracking, NEW s \in Streams, SendHeader(s)
  PROVE  Simulates
<1> DEFINE x == h[s]
           w == wire[s]
           y == [x EXCEPT !.sentHeader = TRUE,
                          !.pc = IF x.typed THEN "waitHeader" ELSE AfterHeader(s)]
           f == Frame("header", s, 0, x.done /\ x.n = 0, x.typed)
<1>1. /\ h \in [Streams -> HandlerType] /\ wire \in [Streams -> WireType]
      /\ x \in HandlerType /\ w \in WireType /\ x.pc = "sendHeader" /\ HandlerInv(x, w)
  BY TypedOf DEF Typed, Tracking, SendHeader
<1>2. /\ AfterHeader(s) \in {"exited", "run", "sendData"}
      /\ AfterHeader(s) = "sendData" <=> x.n # 0
      /\ AfterHeader(s) = "run" => ~x.done
  BY AfterHeaderIs
<1>3. /\ y \in HandlerType /\ y.sentHeader /\ y.done = x.done /\ y.n = x.n
      /\ y.pc \in {"waitHeader", AfterHeader(s)}
  BY <1>1, <1>2 DEF HandlerType
<1>4. h' = [h EXCEPT ![s] = y] /\ FromHandler(f)
  BY <1>1 DEF SendHeader, HandlerType
<1>5. f \in StreamFrames /\ f.stream = s /\ f.kind = "header"
  BY <1>1 DEF Frame, HandlerType, StreamFrames, HeaderFrames
<1>6. sc' = sc /\ gone' = gone /\ wire' = wire
  BY DEF SendHeader
<1> HIDE DEF x, w, y, f
<1>7. HandlerInv(y, w)
  BY <1>1, <1>2, <1>3 DEF HandlerInv
<1>8. InHandler(y) = InHandler(x)
  BY <1>1, <1>2, <1>3 DEF InHandler
<1>9. ~gone => /\ Queued(sc, want, s) = {}
               /\ Tracks(Queued(sc, want, s) \cup {f}, Written(sc, s),
                         sc.state[s] = "closed", y, w)
  <2> SUFFICES ASSUME ~gone
               PROVE  /\ Queued(sc, want, s) = {}
                      /\ Tracks(Queued(sc, want, s) \cup {f}, Written(sc, s),
                                sc.state[s] = "closed", y, w)
    OBVIOUS
  <2> DEFINE Q == Queued(sc, want, s)
             F == Written(sc, s)
  <2>1. Tracks(Q, F, sc.state[s] = "closed", x, w)
    BY Connected DEF AllTracked, Tracked, x, w
  <2> HIDE DEF Q, F
  <2>2. Q = {} /\ F = {} /\ w.phase = "silent" /\ w.delivered = 0
    BY <1>1, <2>1 DEF Tracks, HeaderInv, HandlerInv
  <2>3. HeaderInv({f}, {}, y, w)
    BY <1>3, <1>5, <2>2, Single, None0 DEF HeaderInv
  <2>4. BytesInv({f}, {}, y, w)
    BY <1>5, <1>8, <2>1, <2>2, Single, None0 DEF Tracks, BytesInv
  <2>5. EndInv({f}, {}, sc.state[s] = "closed", w)
    BY <1>5, <2>2, Single DEF EndInv
  <2> QED BY <2>2, <2>3, <2>4, <2>5 DEF Tracks, Q, F
<1> QED BY <1>3, <1>4, <1>5, <1>6, <1>7, <1>9, HandlerSends DEF w

\* DATA follows when nothing of it is left.
LEMMA DataFollows ==
  ASSUME NEW Q, NEW F, NEW closed, NEW x \in HandlerType, NEW w, Tracks(Q, F, closed, x, w),
         F \subseteq StreamFrames, w \in WireType,
         \A g \in Q : Plain(g), x.sentHeader, x.pc = "sendData",
         NEW f, f.kind = "data", f.waits, f.n = x.n,
         NEW y, y.sentHeader = x.sentHeader, y.pc = "waitData"
  PROVE  Tracks(Q \cup {f}, F, closed, y, w)
<1>1. HeaderInv(Q, F, x, w) /\ BytesInv(Q, F, x, w) /\ EndInv(Q, F, closed, w)
  BY DEF Tracks
<1>2. DataOf(Q) = {}
  BY <1>1 DEF EndInv, Plain, DataOf
<1>3. DataOf(Q \cup {f}) = {f} /\ HeadersOf(Q \cup {f}) = HeadersOf(Q)
  BY <1>2 DEF DataOf, HeadersOf
<1>4. Bytes(Q) = 0 /\ Bytes(Q \cup {f}) = x.n
  BY <1>2, <1>3, BytesOfNone, BytesOfOne
<1>5. Bytes(F) \in Nat /\ x.n \in Nat /\ InHandler(x) = x.n /\ InHandler(y) = 0
  BY BytesAreNat, InHandlerIsNat DEF InHandler
<1>6. HeaderInv(Q \cup {f}, F, y, w)
  BY <1>1, <1>3 DEF HeaderInv
<1>7. BytesInv(Q \cup {f}, F, y, w)
  <2>1. w.given \in Nat /\ w.delivered \in Nat
    BY DEF WireType
  <2>2. w.given = w.delivered + x.n + 0 + Bytes(F)
    BY <1>1, <1>4, <1>5 DEF BytesInv
  <2>3. w.given = w.delivered + 0 + x.n + Bytes(F)
    BY <1>5, <2>1, <2>2
  <2> QED BY <1>4, <1>5, <2>3 DEF BytesInv
<1>8. EndInv(Q \cup {f}, F, closed, w)
  BY <1>1, <1>3 DEF EndInv
<1> QED BY <1>6, <1>7, <1>8 DEF Tracks

LEMMA SendDataTracks ==
  ASSUME Steady, IInv, Tracking, NEW s \in Streams, SendData(s)
  PROVE  Simulates
<1> DEFINE x == h[s]
           w == wire[s]
           y == [x EXCEPT !.pc = "waitData"]
           f == Frame("data", s, x.n, x.done, TRUE)
<1>1. /\ h \in [Streams -> HandlerType] /\ wire \in [Streams -> WireType]
      /\ x \in HandlerType /\ w \in WireType /\ x.pc = "sendData" /\ HandlerInv(x, w)
      /\ sc \in ServeType
  BY TypedOf, TypesOfInv DEF Typed, Tracking, SendData
<1>2. y \in HandlerType /\ y.sentHeader = x.sentHeader /\ y.done = x.done /\ y.pc = "waitData"
  BY <1>1 DEF HandlerType
<1>3. h' = [h EXCEPT ![s] = y] /\ FromHandler(f)
  BY <1>1 DEF SendData, Goto, HandlerType
<1>4. f \in StreamFrames /\ f.stream = s /\ f.kind = "data" /\ f.waits /\ f.n = x.n
  BY <1>1 DEF Frame, HandlerType, StreamFrames, DataFrames
<1>5. sc' = sc /\ gone' = gone /\ wire' = wire
  BY DEF SendData
<1>6. Resting(sc, x, want, s)
  BY <1>1, HandlerOf, HandlerRests
<1> HIDE DEF x, w, y, f
<1>7. HandlerInv(y, w)
  BY <1>1, <1>2 DEF HandlerInv
<1>8. ~gone => Tracks(Queued(sc, want, s) \cup {f}, Written(sc, s), sc.state[s] = "closed", y, w)
  <2> SUFFICES ASSUME ~gone
               PROVE  Tracks(Queued(sc, want, s) \cup {f}, Written(sc, s),
                             sc.state[s] = "closed", y, w)
    OBVIOUS
  <2>1. sc.serve = "loop" /\ Tracks(Queued(sc, want, s), Written(sc, s), sc.state[s] = "closed", x, w)
    BY Connected DEF AllTracked, Tracked, x, w
  <2>2. sc.state[s] \in {"idle", "open", "halfClosedRemote", "closed"}
    BY <1>1 DEF ServeType
  <2>3. \A g \in Queued(sc, want, s) : Plain(g)
    BY <1>6, <2>1, <2>2 DEF Resting, Live
  <2>4. x.sentHeader
    BY <1>1 DEF HandlerInv
  <2>5. Written(sc, s) \subseteq StreamFrames
    BY <1>1, WrittenTyped
  <2> QED BY <1>1, <1>2, <1>4, <2>1, <2>3, <2>4, <2>5, DataFollows
<1>9. f.kind # "header"
  BY <1>4
<1> QED BY <1>2, <1>3, <1>4, <1>5, <1>7, <1>8, <1>9, HandlerSends DEF w

\* A handler goes on without giving anything.
LEMMA HandlerGoesOn ==
  ASSUME Steady, IInv, Tracking, NEW s \in Streams,
         NEW y \in HandlerType, h' = [h EXCEPT ![s] = y], HandlerInv(y, wire[s]),
         sc' = sc, gone' = gone, want' = want, wire' = wire,
         y.sentHeader = h[s].sentHeader,
         ~gone => InHandler(y) = InHandler(h[s])
  PROVE  Simulates
<1>1. wire \in [Streams -> WireType]
  BY TypedOf DEF Typed
<1>2. wire' = [wire EXCEPT ![s] = wire[s]] /\ wire[s] \in WireType
  BY <1>1
<1>3. Tracking'
  BY <1>2, HandlerAlone
<1> QED BY <1>3, Unseen

LEMMA HeaderWrittenTracks ==
  ASSUME Steady, IInv, Tracking, NEW s \in Streams, HeaderWritten(s)
  PROVE  Simulates
<1> DEFINE x == h[s]
           w == wire[s]
<1>1. /\ h \in [Streams -> HandlerType] /\ x \in HandlerType
      /\ x.pc = "waitHeader" /\ HandlerInv(x, w)
  BY TypedOf DEF Typed, Tracking, HeaderWritten
<1>2. /\ AfterHeader(s) \in {"exited", "run", "sendData"}
      /\ AfterHeader(s) = "sendData" <=> x.n # 0
      /\ AfterHeader(s) = "run" => ~x.done
  BY AfterHeaderIs
<1>3. sc' = sc /\ gone' = gone /\ want' = want /\ wire' = wire
  BY DEF HeaderWritten
<1>4. PICK y \in {[x EXCEPT !.pc = AfterHeader(s), !.reply = FALSE], [x EXCEPT !.pc = AfterHeader(s)]} :
        h' = [h EXCEPT ![s] = y]
  BY <1>1 DEF HeaderWritten, Goto, HandlerType
<1>5. /\ y \in HandlerType /\ y.sentHeader = x.sentHeader /\ y.done = x.done /\ y.n = x.n
      /\ y.pc = AfterHeader(s)
  BY <1>1, <1>2 DEF HandlerType
<1> HIDE DEF x, w
<1>6. HandlerInv(y, w)
  BY <1>1, <1>2, <1>5 DEF HandlerInv
<1>7. InHandler(y) = InHandler(x)
  BY <1>1, <1>2, <1>5 DEF InHandler
<1> QED BY <1>3, <1>4, <1>5, <1>6, <1>7, HandlerGoesOn DEF x, w

LEMMA DataWrittenTracks ==
  ASSUME Steady, IInv, Tracking, NEW s \in Streams, DataWritten(s)
  PROVE  Simulates
<1> DEFINE x == h[s]
           w == wire[s]
           next == IF x.done THEN "exited" ELSE "run"
<1>1. /\ h \in [Streams -> HandlerType] /\ x \in HandlerType
      /\ x.pc = "waitData" /\ HandlerInv(x, w)
  BY TypedOf DEF Typed, Tracking, DataWritten
<1>2. next \in {"exited", "run"} /\ (x.done => next = "exited")
  OBVIOUS
<1>3. sc' = sc /\ gone' = gone /\ want' = want /\ wire' = wire
  BY DEF DataWritten
<1>4. PICK y \in {[x EXCEPT !.pc = next, !.reply = FALSE], [x EXCEPT !.pc = next, !.broken = TRUE]} :
        h' = [h EXCEPT ![s] = y]
  BY <1>1 DEF DataWritten, HandlerType
<1> HIDE DEF next
<1>5. /\ y \in HandlerType /\ y.sentHeader = x.sentHeader /\ y.done = x.done /\ y.pc = next
  BY <1>1, <1>2 DEF HandlerType
<1> HIDE DEF x, w
<1>6. HandlerInv(y, w)
  BY <1>1, <1>2, <1>5 DEF HandlerInv
<1>7. InHandler(y) = InHandler(x)
  BY <1>1, <1>2, <1>5 DEF InHandler
<1> QED BY <1>3, <1>4, <1>5, <1>6, <1>7, HandlerGoesOn DEF x, w

---------------------------------------------------------------------------
(* The steps of serve *)

\* Serve tells the client nothing and changes no handler.
LEMMA ServeTracks ==
  ASSUME Tracking, h' = h, wire' = wire,
         ~gone' => ~gone /\ AllTracked(sc', h, want', wire)
  PROVE  Simulates
<1>1. Tracking'
  BY DEF Tracking
<1> QED BY <1>1, Unseen

LEMMA SchedulesTracked ==
  ASSUME Steady, IInv, Tracking, Loop, NEW c,
         Beside(sc, c) \/ (c \in ServeType /\ Inv(c, h, want) /\ c.serve = "loop"
                           /\ c.sq = sc.sq /\ c.state = sc.state /\ c.writers = sc.writers),
         sc' \in Schedule(c), h' = h, want' = want, gone' = gone, wire' = wire
  PROVE  Simulates
<1>1. /\ Inv(c, h, want) /\ want \in Seq(StreamFrames) /\ c.serve = "loop" /\ sc.serve = "loop"
      /\ c.sq = sc.sq /\ c.state = sc.state /\ c.writers = sc.writers
  BY TypesOfInv, BesideKeeps DEF Beside, SameConn, Loop
<1>2. ASSUME ~gone PROVE AllTracked(sc', h, want', wire)
  <2>1. AllTracked(sc, h, want, wire)
    BY <1>2 DEF Tracking
  <2>2. AllTracked(c, h, want, wire)
    BY <1>1, <2>1, BesideTracked
  <2>3. Typed(h, wire)
    BY TypedOf
  <2> QED BY <1>1, <2>2, <2>3, ScheduleTracked
<1> QED BY <1>2, ServeTracks

\* The frame that is next comes from the channel.
LEMMA StillFirstDelivered ==
  ASSUME NEW c \in ServeType, NEW q \in Seq(StreamFrames), q # <<>>,
         NEW d, d = Add(c, Head(q)), NEW s \in Streams, HeaderFirst(c, q, s)
  PROVE  HeaderFirst(d, Tail(q), s)
<1> DEFINE f == Head(q)
           r == Tail(q)
           a == c.sq[s]
<1>1. /\ f = q[1] /\ f \in StreamFrames
      /\ r \in Seq(StreamFrames) /\ Len(q) \in Nat \ {0} /\ Len(r) = Len(q) - 1
      /\ \A i \in 1..Len(r) : r[i] = q[i + 1]
      /\ DOMAIN q = 1..Len(q) /\ DOMAIN r = 1..Len(r)
  BY EmptySeq, HeadTailProperties, LenProperties
<1>2. d.sq[s] = IF s = f.stream THEN Append(a, f) ELSE a
  BY Delivered
<1>3. a \in Seq(StreamFrames)
  BY DEF ServeType
<1>4. Of(r, s) = {i \in 1..Len(r) : i + 1 \in Of(q, s)}
  BY <1>1 DEF Of
<1>5. 1 \in Of(q, s) <=> s = f.stream
  BY <1>1 DEF Of
<1> HIDE DEF f, r
<1>6. CASE s # f.stream
  <2>1. d.sq[s] = c.sq[s]
    BY <1>2, <1>6
  <2>2. ASSUME NEW j \in Of(r, s), r[j].kind = "header"
        PROVE  DOMAIN c.sq[s] = {} /\ \A k \in Of(r, s) : j <= k
    <3>1. j + 1 \in Of(q, s) /\ q[j + 1].kind = "header" /\ j \in Nat
      BY <1>1, <1>4, <2>2
    <3>2. DOMAIN c.sq[s] = {} /\ \A k \in Of(q, s) : j + 1 <= k
      BY <3>1 DEF HeaderFirst
    <3>3. ASSUME NEW k \in Of(r, s) PROVE j <= k
      <4>1. k + 1 \in Of(q, s) /\ k \in Nat
        BY <1>1, <1>4, <3>3
      <4>2. j + 1 <= k + 1
        BY <3>2, <4>1
      <4> QED BY <3>1, <4>1, <4>2
    <3> QED BY <3>2, <3>3
  <2> QED BY <2>1, <2>2 DEF HeaderFirst, r
<1>7. CASE s = f.stream
  <2> DEFINE b == Append(a, f)
  <2>1. /\ Len(a) \in Nat /\ DOMAIN a = 1..Len(a) /\ DOMAIN b = 1..Len(a) + 1
        /\ \A i \in 1..Len(a) : b[i] = a[i]
        /\ b[Len(a) + 1] = f
    BY <1>1, <1>3, AppendProperties, LenProperties
  <2>2. d.sq[s] = b
    BY <1>2, <1>7
  <2> HIDE DEF b
  <2>3. ASSUME NEW i \in DOMAIN b, b[i].kind = "header" PROVE i = 1
    <3>1. CASE i \in 1..Len(a)
      BY <2>1, <2>3, <3>1 DEF HeaderFirst
    <3>2. CASE i = Len(a) + 1
      <4>1. q[1].kind = "header" /\ 1 \in Of(q, s)
        BY <1>1, <1>5, <1>7, <2>1, <2>3, <3>2
      <4>2. DOMAIN a = {}
        BY <4>1 DEF HeaderFirst
      <4> QED BY <2>1, <3>2, <4>2
    <3> QED BY <2>1, <2>3, <3>1, <3>2
  <2>4. ASSUME NEW j \in Of(r, s), r[j].kind = "header" PROVE FALSE
    <3>1. j + 1 \in Of(q, s) /\ q[j + 1].kind = "header" /\ j \in Nat \ {0}
      BY <1>1, <1>4, <2>4
    <3>2. j + 1 <= 1
      BY <1>5, <1>7, <3>1 DEF HeaderFirst
    <3> QED BY <3>1, <3>2
  <2> QED BY <2>2, <2>3, <2>4 DEF HeaderFirst, r
<1> QED BY <1>6, <1>7

LEMMA WantWriteTracks ==
  ASSUME Steady, IInv, Tracking, WantWrite
  PROVE  Simulates
<1> DEFINE d == Add(sc, Head(want))
           r == Tail(want)
<1>1. sc \in ServeType /\ want \in Seq(StreamFrames) /\ want # <<>>
  BY TypesOfInv DEF WantWrite
<1>2. r \in Seq(StreamFrames) /\ Head(want) \in StreamFrames
  BY <1>1, HeadTailProperties
<1>3. Inv(d, h, r)
  BY <1>1, AddKeeps
<1>4. d.serve = sc.serve /\ d.state = sc.state /\ d.writers = sc.writers /\ d.serve = "loop"
  <2>1. Head(want).stream # None
    BY <1>2, KindOf
  <2> QED BY <1>1, <2>1 DEF Add, ServeType, WantWrite, Loop
<1>5. \A s \in Streams : Queued(d, r, s) = Queued(sc, want, s)
  BY <1>1, Delivered
<1>6. h' = h /\ gone' = gone /\ wire' = wire /\ want' = r /\ sc' \in Schedule(d)
  BY DEF WantWrite
<1>7. ASSUME NEW s \in Streams, HeaderFirst(sc, want, s) PROVE HeaderFirst(d, r, s)
  BY <1>1, <1>7, StillFirstDelivered
<1> HIDE DEF d, r
<1>8. ASSUME ~gone PROVE AllTracked(sc', h, r, wire)
  <2>1. \A s \in Streams : Tracked(sc, h[s], want, s, wire[s])
    BY <1>8 DEF Tracking, AllTracked
  <2>2. \A s \in Streams : Written(d, s) = Written(sc, s)
    BY <1>4 DEF Written
  <2>3. \A s \in Streams : Tracked(d, h[s], r, s, wire[s])
    BY <1>4, <1>5, <1>7, <2>1, <2>2 DEF Tracked
  <2>4. AllTracked(d, h, r, wire)
    BY <1>4, <2>3 DEF AllTracked
  <2>5. Typed(h, wire)
    BY TypedOf
  <2> QED BY <1>2, <1>3, <1>4, <1>6, <2>4, <2>5, ScheduleTracked
<1> QED BY <1>6, <1>8, ServeTracks

LEMMA WroteTracks ==
  ASSUME Steady, IInv, Tracking, Wrote
  PROVE  Simulates
<1> DEFINE d == [sc EXCEPT !.wrote = FALSE, !.writing = FALSE]
<1>1. sc \in ServeType /\ want \in Seq(StreamFrames) /\ Inv(sc, h, want) /\ sc.serve = "loop"
  BY TypesOfInv DEF Wrote, Loop
<1>2. /\ d \in ServeType /\ d.state = sc.state /\ d.sq = sc.sq /\ d.reset = sc.reset
      /\ d.serve = "loop" /\ d.writers = sc.writers /\ ~d.wrote /\ ~d.writing
  BY <1>1 DEF ServeType
<1>3. Len(sc.writers) = 0
  <2>1. Flying(sc)
    BY <1>1, OneFlies DEF Inv
  <2> QED BY <2>1 DEF Flying, Wrote
<1>4. Inv(d, h, want)
  BY WokenKeeps
<1> HIDE DEF d
<1>5. sc' \in Schedule(d) /\ h' = h /\ want' = want /\ gone' = gone /\ wire' = wire /\ Loop
  BY DEF Wrote, d
<1> QED BY <1>2, <1>4, <1>5, SchedulesTracked

LEMMA ProcessHeadersTracks ==
  ASSUME Steady, IInv, Tracking, NEW s \in Streams, ProcessHeaders(s)
  PROVE  Simulates
<1>1. /\ sc \in ServeType /\ want \in Seq(StreamFrames) /\ Inv(sc, h, want) /\ ~gone
      /\ h \in [Streams -> HandlerType] /\ wire \in [Streams -> WireType] /\ sc.state[s] = "idle"
  BY TypesOfInv, TypedOf DEF Typed, ProcessHeaders
<1>2. PICK st \in {"open", "halfClosedRemote"} : sc' = [sc EXCEPT !.state[s] = st]
  BY DEF ProcessHeaders
<1>3. PICK typed \in BOOLEAN : h' = [h EXCEPT ![s].pc = "run", ![s].typed = typed]
  BY DEF ProcessHeaders
<1>4. h[s] = Idle
  BY <1>1 DEF Inv, StreamInv, IdleInv
<1> DEFINE y == [Idle EXCEPT !.pc = "run", !.typed = typed]
<1>5. /\ sc' \in ServeType /\ sc'.sq = sc.sq /\ sc'.writers = sc.writers /\ sc'.serve = sc.serve
      /\ sc'.state[s] = st /\ \A t \in Streams : t # s => sc'.state[t] = sc.state[t]
  BY <1>1, <1>2 DEF ServeType
<1>6. /\ y \in HandlerType /\ y.pc = "run" /\ y.sentHeader = FALSE /\ y.done = FALSE
  <2>1. 0 \in 0..MaxData /\ 0 \in 0..MaxWrites
    BY SizesAssumption
  <2> QED BY <2>1 DEF HandlerType, Idle
<1>7. h' = [h EXCEPT ![s] = y]
  <2>1. h' = [h EXCEPT ![s] = [h[s] EXCEPT !.pc = "run", !.typed = typed]]
    BY <1>1, <1>3 DEF HandlerType
  <2> QED BY <1>4, <2>1
<1>8. h'[s] = y /\ \A t \in Streams : t # s => h'[t] = h[t]
  BY <1>1, <1>7
<1>9. want' = want /\ gone' = gone /\ wire' = wire
  BY DEF ProcessHeaders
<1>10. InHandler(y) = 0 /\ InHandler(Idle) = 0 /\ Idle.sentHeader = FALSE /\ Idle \in HandlerType
  BY <1>1, <1>4, <1>6 DEF InHandler, Idle
<1> HIDE DEF y
<1>11. AllTracked(sc, h, want, wire)
  BY <1>1, Connected
<1>12. \A t \in Streams : Written(sc', t) = Written(sc, t)
  BY <1>5 DEF Written
<1>13. wire[s] \in WireType /\ wire[s].given \in Nat
  BY <1>1 DEF WireType
<1>14. Tracked(sc, y, want, s, wire[s])
  BY <1>1, <1>4, <1>6, <1>10, <1>11, <1>13, TakesOver DEF AllTracked
<1>15. Tracked(sc', y, want, s, wire[s])
  <2>1. sc'.state[s] # "closed" /\ sc.state[s] # "closed"
    BY <1>1, <1>5
  <2> QED BY <1>5, <1>12, <1>14, <2>1, StillTracked
<1>16. ASSUME NEW t \in Streams, t # s PROVE Tracked(sc', h'[t], want, t, wire[t])
  BY <1>5, <1>8, <1>11, <1>12, <1>16, StillTracked DEF AllTracked
<1>17. AllTracked(sc', h', want', wire')
  BY <1>5, <1>8, <1>9, <1>11, <1>15, <1>16 DEF AllTracked
<1>18. ASSUME NEW t \in Streams PROVE HandlerInv(h'[t], wire[t])
  <2>1. HandlerInv(h[t], wire[t])
    BY DEF Tracking
  <2>2. CASE t # s
    BY <1>8, <2>1, <2>2
  <2>3. CASE t = s
    <3>1. wire[s].phase # "ended"
      BY <1>4, <2>1, <2>3 DEF HandlerInv, Idle
    <3> QED BY <1>6, <1>8, <2>3, <3>1 DEF HandlerInv
  <2> QED BY <2>2, <2>3
<1>19. Tracking'
  BY <1>1, <1>9, <1>17, <1>18 DEF Tracking
<1> QED BY <1>9, <1>19, Unseen

LEMMA ProcessDataEndTracks ==
  ASSUME Steady, IInv, Tracking, NEW s \in Streams, ProcessDataEnd(s)
  PROVE  Simulates
<1>1. sc \in ServeType
  BY TypesOfInv
<1>2. /\ sc'.sq = sc.sq /\ sc'.writers = sc.writers /\ sc'.serve = sc.serve
      /\ \A t \in Streams : sc'.state[t] = "closed" <=> sc.state[t] = "closed"
  BY <1>1 DEF ServeType, ProcessDataEnd
<1>3. \A t \in Streams : Written(sc', t) = Written(sc, t)
  BY <1>2 DEF Written
<1>4. want' = want /\ gone' = gone /\ wire' = wire /\ h' = h
  BY DEF ProcessDataEnd
<1>5. ASSUME ~gone PROVE AllTracked(sc', h, want', wire)
  <2>1. AllTracked(sc, h, want, wire)
    BY <1>5 DEF Tracking
  <2> QED BY <1>2, <1>3, <1>4, <2>1, StillTracked DEF AllTracked
<1> QED BY <1>4, <1>5, ServeTracks

LEMMA ScheduledTracks ==
  ASSUME Steady, IInv, Tracking
  PROVE  /\ ProcessWindowUpdate => Simulates
         /\ ProcessSettings => Simulates
         /\ ProcessPing => Simulates
         /\ GoAway => Simulates
<1>1. sc \in ServeType
  BY TypesOfInv
<1>2. ASSUME ProcessWindowUpdate PROVE Simulates
  <2>1. Beside(sc, [sc EXCEPT !.window = sc.window + 1])
    <3>1. sc.window + 1 \in Nat
      BY <1>1 DEF ServeType
    <3> QED BY <1>1, <3>1 DEF ServeType, Beside, SameConn
  <2> QED BY <1>2, <2>1, SchedulesTracked DEF ProcessWindowUpdate
<1>3. ASSUME ProcessSettings PROVE Simulates
  <2>1. Beside(sc, [sc EXCEPT !.needAck = TRUE])
    BY <1>1 DEF ServeType, Beside, SameConn
  <2> QED BY <1>3, <2>1, SchedulesTracked DEF ProcessSettings
<1>4. ASSUME ProcessPing PROVE Simulates
  <2>1. Beside(sc, Add(sc, OfConn("ping")))
    BY BesideAdd DEF Kinds
  <2> QED BY <1>4, <2>1, SchedulesTracked DEF ProcessPing
<1>5. ASSUME GoAway PROVE Simulates
  <2>1. Beside(sc, [sc EXCEPT !.inGoAway = TRUE, !.needGoAway = TRUE])
    BY <1>1 DEF ServeType, Beside, SameConn
  <2> QED BY <1>5, <2>1, SchedulesTracked DEF GoAway
<1> QED BY <1>2, <1>3, <1>4, <1>5

LEMMA LeavingTracks ==
  ASSUME Tracking, ServeEnds \/ ClientGone
  PROVE  Simulates
<1>1. h' = h /\ wire' = wire /\ gone' = TRUE
  BY DEF ServeEnds, Stop, ClientGone
<1> QED BY <1>1, ServeTracks

---------------------------------------------------------------------------
(* The steps of the writing goroutines *)

\* What the client has of a response once it has a frame of it
Has(w, f, v) ==
  /\ v \in WireType /\ v.given = w.given
  /\ f.kind = "header" => v.delivered = w.delivered
  /\ f.kind = "data" => v.delivered = w.delivered + f.n
  /\ f.end => v.phase = "ended"
  /\ ~f.end /\ f.kind = "header" => v.phase = "header"
  /\ ~f.end /\ f.kind = "data" => v.phase = w.phase

\* When a frame may come
Due(w, f) ==
  /\ f.kind = "header" => w.phase = "silent" /\ w.delivered = 0
  /\ f.kind = "data" => w.phase = "header" /\ w.delivered + f.n <= w.given
  /\ f.end /\ f.kind = "header" => w.given = 0
  /\ f.end /\ f.kind = "data" => w.given = w.delivered + f.n

LEMMA Arrives ==
  ASSUME NEW Q, Q \subseteq StreamFrames, NEW f \in StreamFrames, NEW closed,
         NEW x \in HandlerType, NEW w \in WireType, Tracks(Q, {f}, closed, x, w),
         f.end => Finished(x) /\ Q = {},
         NEW y \in HandlerType, y.sentHeader = x.sentHeader, y.pc = x.pc, y.n = x.n,
         NEW v, Has(w, f, v)
  PROVE  Due(w, f) /\ Tracks(Q, {}, closed, y, v)
<1>1. HeaderInv(Q, {f}, x, w) /\ BytesInv(Q, {f}, x, w) /\ EndInv(Q, {f}, closed, w)
  BY DEF Tracks
<1>2. f.kind \in {"header", "data"} /\ f.n \in Nat
  BY KindOf
<1>3. HeadersOf(Q) = {} /\ x.sentHeader /\ w.phase # "ended"
  BY <1>1 DEF HeaderInv, EndInv
<1>4. InHandler(y) = InHandler(x)
  BY DEF InHandler
<1> DEFINE d == w.delivered
           i == InHandler(x)
           m == Bytes(Q)
           k == Bytes({f})
<1>5. /\ w.given \in Nat /\ d \in Nat /\ i \in Nat /\ m \in Nat /\ k \in Nat
      /\ w.given = d + i + m + k
  BY <1>1, BytesAreNat, InHandlerIsNat DEF WireType, BytesInv
<1>6. f.end => i = 0 /\ m = 0
  <2>1. Finished(x) => i = 0
    BY DEF Finished, InHandler
  <2>2. Q = {} => m = 0
    BY None0
  <2> QED BY <2>1, <2>2
<1>7. f.end => closed
  BY <1>1 DEF EndInv
<1>8. \A g \in DataOf(Q) : g.waits
  BY <1>1 DEF EndInv
<1>9. v \in WireType /\ v.given = w.given
  BY DEF Has
<1>10. CASE f.kind = "header"
  <2>1. k = 0 /\ w.phase = "silent" /\ d = 0 /\ v.delivered = d
    BY <1>1, <1>3, <1>10, Single DEF HeaderInv, Has
  <2>2. v.phase # "silent"
    BY <1>10 DEF Has
  <2>3. f.end => w.given = 0
    BY <1>5, <1>6, <2>1
  <2>4. Due(w, f)
    BY <1>10, <2>1, <2>3 DEF Due
  <2>5. v.given = v.delivered + InHandler(y) + Bytes(Q) + 0
    BY <1>4, <1>5, <1>9, <2>1
  <2>6. BytesInv(Q, {}, y, v)
    BY <2>5, None0 DEF BytesInv
  <2>7. HeaderInv(Q, {}, y, v)
    BY <1>3, <2>2, None0 DEF HeaderInv
  <2>8. v.phase = "ended" => f.end
    BY <1>10 DEF Has
  <2>9. EndInv(Q, {}, closed, v)
    BY <1>7, <1>8, <2>8 DEF EndInv
  <2> QED BY <2>4, <2>6, <2>7, <2>9 DEF Tracks
<1>11. CASE f.kind = "data"
  <2>1. k = f.n /\ w.phase = "header" /\ v.delivered = d + f.n
    <3>1. w.phase # "silent"
      BY <1>1, <1>3, <1>11, Single DEF HeaderInv
    <3> QED BY <1>3, <1>11, <3>1, Single DEF Has, WireType
  <2>2. v.phase # "silent"
    BY <1>11, <2>1 DEF Has
  <2>3. d + f.n <= w.given /\ (f.end => w.given = d + f.n)
    BY <1>2, <1>5, <1>6, <2>1
  <2>4. Due(w, f)
    BY <1>11, <2>1, <2>3 DEF Due
  <2>5. v.given = v.delivered + InHandler(y) + Bytes(Q) + 0
    BY <1>2, <1>4, <1>5, <1>9, <2>1
  <2>6. BytesInv(Q, {}, y, v)
    BY <2>5, None0 DEF BytesInv
  <2>7. HeaderInv(Q, {}, y, v)
    BY <1>3, <2>2, None0 DEF HeaderInv
  <2>8. v.phase = "ended" => f.end
    BY <1>11, <2>1 DEF Has
  <2>9. EndInv(Q, {}, closed, v)
    BY <1>7, <1>8, <2>8 DEF EndInv
  <2> QED BY <2>4, <2>6, <2>7, <2>9 DEF Tracks
<1> QED BY <1>2, <1>10, <1>11

\* A frame that is due is a step of Responses.
LEMMA DueStep ==
  ASSUME NEW f \in StreamFrames, wire \in [Streams -> WireType], Due(wire[f.stream], f),
         NEW v, Has(wire[f.stream], f, v), wire' = [wire EXCEPT ![f.stream] = v]
  PROVE  [Responding!Next]_wire
<1> DEFINE s == f.stream
           w == wire[s]
<1>1. s \in Streams /\ f.kind \in {"header", "data"} /\ f.n \in 0..MaxData /\ f.n \in Nat
  BY KindOf
<1>2. w \in WireType /\ v \in WireType /\ v.given = w.given
  BY <1>1 DEF Has
<1>3. /\ w = [phase |-> w.phase, given |-> w.given, delivered |-> w.delivered]
      /\ v = [phase |-> v.phase, given |-> w.given, delivered |-> v.delivered]
  BY <1>2 DEF WireType
<1>4. CASE f.kind = "header" /\ ~f.end
  <2>1. w.phase = "silent" /\ v = [w EXCEPT !.phase = "header"]
    BY <1>2, <1>3, <1>4 DEF Due, Has, WireType
  <2>2. wire' = [wire EXCEPT ![s].phase = "header"]
    BY <2>1
  <2>3. Responding!Header(s)
    BY <2>1, <2>2 DEF Responding!Header
  <2> QED BY <1>1, <2>3 DEF Responding!Next
<1>5. CASE f.kind = "header" /\ f.end
  <2>1. w.phase = "silent" /\ w.given = 0 /\ w.delivered = 0
    BY <1>5 DEF Due
  <2>2. w = Responding!Silent
    BY <1>3, <2>1 DEF Responding!Silent
  <2>3. v = [w EXCEPT !.phase = "ended"]
    BY <1>2, <1>3, <1>5 DEF Has, WireType
  <2>4. wire' = [wire EXCEPT ![s].phase = "ended"]
    BY <2>3
  <2>5. Responding!HeaderOnly(s)
    BY <2>2, <2>4 DEF Responding!HeaderOnly
  <2> QED BY <1>1, <2>5 DEF Responding!Next
<1>6. CASE f.kind = "data" /\ ~f.end
  <2>1. w.phase = "header" /\ w.delivered + f.n <= w.given
    BY <1>6 DEF Due
  <2>2. v = [w EXCEPT !.delivered = w.delivered + f.n]
    BY <1>2, <1>3, <1>6 DEF Has, WireType
  <2>3. wire' = [wire EXCEPT ![s].delivered = @ + f.n]
    BY <2>2
  <2>4. CASE f.n = 0
    <3>1. v = w
      BY <1>2, <1>3, <2>2, <2>4 DEF WireType
    <3>2. wire' = wire
      BY <1>1, <3>1
    <3> QED BY <3>2
  <2>5. CASE f.n # 0
    <3>1. f.n \in 1..MaxData
      BY <1>1, <2>5, SizesAssumption
    <3>2. Responding!Body(s, f.n)
      BY <2>1, <2>3 DEF Responding!Body
    <3> QED BY <1>1, <3>1, <3>2 DEF Responding!Next
  <2> QED BY <2>4, <2>5
<1>7. CASE f.kind = "data" /\ f.end
  <2>1. w.phase = "header" /\ w.given = w.delivered + f.n
    BY <1>7 DEF Due
  <2>2. v.delivered = w.given /\ v.phase = "ended"
    BY <1>7, <2>1 DEF Has
  <2>3. v = [w EXCEPT !.delivered = w.given, !.phase = "ended"]
    BY <1>2, <1>3, <2>2 DEF WireType
  <2>4. wire' = [wire EXCEPT ![s].delivered = wire[s].given, ![s].phase = "ended"]
    BY <1>1, <2>3 DEF WireType
  <2>5. Responding!End(s)
    BY <2>1, <2>4 DEF Responding!End
  <2> QED BY <1>1, <2>5 DEF Responding!Next
<1> QED BY <1>1, <1>4, <1>5, <1>6, <1>7

LEMMA SentHas ==
  ASSUME NEW f \in StreamFrames, wire \in [Streams -> WireType]
  PROVE  \E v : Has(wire[f.stream], f, v) /\ Sent(wire, f) = [wire EXCEPT ![f.stream] = v]
<1> DEFINE s == f.stream
           w == wire[s]
<1>1. s \in Streams /\ f.kind \in {"header", "data"} /\ f.n \in Nat /\ w \in WireType
  BY KindOf
<1>2. CASE f.kind = "header" /\ f.end
  <2> DEFINE v == [w EXCEPT !.phase = "ended"]
  <2>1. Has(w, f, v)
    BY <1>1, <1>2 DEF Has, WireType
  <2>2. Sent(wire, f) = [wire EXCEPT ![s] = v]
    BY <1>2 DEF Sent
  <2> QED BY <2>1, <2>2
<1>3. CASE f.kind = "header" /\ ~f.end
  <2> DEFINE v == [w EXCEPT !.phase = "header"]
  <2>1. Has(w, f, v)
    BY <1>1, <1>3 DEF Has, WireType
  <2>2. Sent(wire, f) = [wire EXCEPT ![s] = v]
    BY <1>3 DEF Sent
  <2> QED BY <2>1, <2>2
<1>4. CASE f.kind = "data" /\ f.end
  <2> DEFINE v == [w EXCEPT !.delivered = w.delivered + f.n, !.phase = "ended"]
  <2>1. Has(w, f, v)
    <3>1. w.delivered + f.n \in Nat
      BY <1>1 DEF WireType
    <3>2. /\ v \in WireType /\ v.given = w.given /\ v.delivered = w.delivered + f.n
          /\ v.phase = "ended"
      BY <1>1, <3>1 DEF WireType
    <3> QED BY <1>4, <3>2 DEF Has
  <2>2. Sent(wire, f) = [wire EXCEPT ![s] = v]
    BY <1>1, <1>4 DEF Sent, WireType
  <2> QED BY <2>1, <2>2
<1>5. CASE f.kind = "data" /\ ~f.end
  <2> DEFINE v == [w EXCEPT !.delivered = w.delivered + f.n, !.phase = w.phase]
  <2>1. Has(w, f, v)
    <3>1. w.delivered + f.n \in Nat
      BY <1>1 DEF WireType
    <3>2. /\ v \in WireType /\ v.given = w.given /\ v.delivered = w.delivered + f.n
          /\ v.phase = w.phase
      BY <1>1, <3>1 DEF WireType
    <3> QED BY <1>5, <3>2 DEF Has
  <2>2. Sent(wire, f) = [wire EXCEPT ![s] = v]
    BY <1>1, <1>5 DEF Sent, WireType
  <2> QED BY <2>1, <2>2
<1> QED BY <1>1, <1>2, <1>3, <1>4, <1>5

\* Frames of no stream are nothing to a response.
LEMMA SentNothing ==
  ASSUME NEW f \in ConnFrames, wire \in [Streams -> WireType]
  PROVE  Sent(wire, f) = wire
<1>1. f.stream = None
  BY DEF ConnFrames
<1> QED BY <1>1, NoneAssumption DEF Sent

\* The writer is the only one.
LEMMA OnlyWriter ==
  ASSUME Steady, IInv, sc.serve = "loop", NEW i \in DOMAIN sc.writers
  PROVE  /\ DOMAIN sc.writers = {i} /\ Len(sc.writers) = 1
         /\ \A s : Written(sc, s) = IF /\ sc.writers[i].at = "write"
                                       /\ sc.writers[i].frame.stream = s
                                    THEN {sc.writers[i].frame} ELSE {}
<1>1. DOMAIN sc.writers = 1..Len(sc.writers) /\ Len(sc.writers) \in Nat
  BY WritersOf
<1>2. Len(sc.writers) \in {0, 1}
  <2>1. Flying(sc)
    BY OneFlies DEF IInv, Inv
  <2>2. CASE sc.writing /\ sc.wrote
    BY <2>1, <2>2 DEF Flying
  <2>3. CASE sc.writing /\ ~sc.wrote
    BY <2>1, <2>3 DEF Flying
  <2>4. CASE ~sc.writing
    BY <2>1, <2>4 DEF Flying
  <2> QED BY <2>2, <2>3, <2>4
<1>3. DOMAIN sc.writers = {i} /\ Len(sc.writers) = 1
  <2>1. CASE Len(sc.writers) = 0
    BY <1>1, <2>1
  <2>2. CASE Len(sc.writers) = 1
    <3>1. DOMAIN sc.writers = 1..1
      BY <1>1, <2>2
    <3>2. 1..1 = {1}
      OBVIOUS
    <3> QED BY <2>2, <3>1, <3>2
  <2> QED BY <1>2, <2>1, <2>2
<1>4. \A s : {j \in DOMAIN sc.writers : sc.writers[j].at = "write" /\ sc.writers[j].frame.stream = s}
               = IF sc.writers[i].at = "write" /\ sc.writers[i].frame.stream = s
                 THEN {i} ELSE {}
  BY <1>3
<1> QED BY <1>3, <1>4 DEF Written

\* The end of a response is the last of it.
LEMMA LastOfAll ==
  ASSUME Steady, IInv, sc.serve = "loop", NEW s \in Streams, sc.state[s] = "closed"
  PROVE  Finished(h[s]) /\ Queued(sc, want, s) = {}
  BY DEF IInv, Inv, StreamInv, ClosedInv

LEMMA WriteFrameTracks ==
  ASSUME Steady, IInv, Tracking, NEW i \in DOMAIN sc.writers, WriteFrame(i)
  PROVE  Simulates
<1> DEFINE f == sc.writers[i].frame
<1>1. /\ h \in [Streams -> HandlerType] /\ wire \in [Streams -> WireType]
      /\ sc \in ServeType /\ want \in Seq(StreamFrames)
      /\ sc.writers[i] \in Writers /\ sc.writers[i].at = "write"
  BY TypedOf, TypesOfInv, WritersOf DEF Typed, WriteFrame
<1>2. f \in StreamFrames \/ f \in ConnFrames
  BY <1>1 DEF Writers
<1>3. /\ h' \in [Streams -> HandlerType]
      /\ \A t \in Streams : /\ h'[t].pc = h[t].pc /\ h'[t].n = h[t].n
                            /\ h'[t].done = h[t].done /\ h'[t].sentHeader = h[t].sentHeader
  <2>1. IInv'
    BY WriteFrameStep
  <2>2. h' \in [Streams -> HandlerType]
    BY <2>1 DEF IInv, Others
  <2>3. h' = h \/ h' = [h EXCEPT ![f.stream].reply = TRUE]
    BY DEF WriteFrame
  <2>4. ASSUME NEW t \in Streams
        PROVE  h'[t] = h[t] \/ h'[t] = [h[t] EXCEPT !.reply = TRUE]
    BY <1>1, <2>3
  <2>5. ASSUME NEW x \in HandlerType
        PROVE  LET y == [x EXCEPT !.reply = TRUE] IN
               y.pc = x.pc /\ y.n = x.n /\ y.done = x.done /\ y.sentHeader = x.sentHeader
    BY DEF HandlerType
  <2>6. \A t \in Streams : h[t] \in HandlerType
    BY <1>1
  <2> QED BY <2>2, <2>4, <2>5, <2>6
<1>4. want' = want /\ wire' = IF gone THEN wire ELSE Sent(wire, f)
  BY DEF WriteFrame
<1>5. \A t \in Streams : HandlerInv(h[t], wire[t])
  BY DEF Tracking
<1>6. CASE gone
  <2>1. wire' = wire /\ gone'
    BY <1>4, <1>6 DEF WriteFrame
  <2>2. \A t \in Streams : HandlerInv(h'[t], wire[t])
    BY <1>3, <1>5 DEF HandlerInv
  <2>3. Tracking'
    BY <1>1, <2>1, <2>2 DEF Tracking
  <2> QED BY <2>1, <2>3, Unseen
<1>7. CASE ~gone
  <2>1. sc.serve = "loop" /\ \A t \in Streams : Tracked(sc, h[t], want, t, wire[t])
    BY <1>7, Connected DEF AllTracked
  <2>2. DOMAIN sc.writers = {i} /\ \A t : Written(sc, t) = IF f.stream = t THEN {f} ELSE {}
    BY <1>1, <2>1, OnlyWriter
  <2>3. /\ sc'.sq = sc.sq /\ sc'.state = sc.state /\ sc'.serve = "loop"
        /\ DOMAIN sc'.writers = {i} /\ sc'.writers[i].at = "wake"
    <3>1. sc'.serve # "panic"
      BY WriteFrameStep DEF IInv, Inv, ServeInv
    <3>2. sc' = [sc EXCEPT !.writers[i].at = "wake"]
      BY <1>1, <3>1 DEF WriteFrame, ServeType
    <3> QED BY <1>1, <2>1, <2>2, <3>2 DEF ServeType, Writers
  <2>4. \A t : Written(sc', t) = {}
    BY <2>3 DEF Written
  <2>5. \A t \in Streams : Queued(sc', want, t) = Queued(sc, want, t)
    BY <2>3 DEF Queued
  <2>6. \A t \in Streams : HeaderFirst(sc', want, t)
    BY <2>1, <2>3 DEF Tracked, HeaderFirst
  <2>7. ASSUME NEW t \in Streams, f.stream # t PROVE Tracked(sc', h'[t], want, t, wire[t])
    <3>1. Tracked(sc', h[t], want, t, wire[t])
      BY <2>1, <2>2, <2>3, <2>4, <2>7, StillTracked
    <3>2. h[t] \in HandlerType /\ h'[t] \in HandlerType /\ wire[t] \in WireType
      BY <1>1, <1>3
    <3>3. InHandler(h'[t]) = InHandler(h[t])
      BY <1>3 DEF InHandler
    <3>4. sc' \in ServeType
      BY WriteFrameStep DEF IInv, Inv, ServeInv
    <3> QED BY <1>1, <1>3, <3>1, <3>2, <3>3, <3>4, TakesOver
  <2>8. CASE f \in ConnFrames
    <3>1. wire' = wire
      BY <1>1, <1>4, <1>7, <2>8, SentNothing
    <3>2. f.stream = None
      BY <2>8 DEF ConnFrames
    <3>3. \A t \in Streams : Tracked(sc', h'[t], want, t, wire[t])
      BY <2>7, <3>2, NoneAssumption
    <3>4. \A t \in Streams : HandlerInv(h'[t], wire[t])
      BY <1>3, <1>5 DEF HandlerInv
    <3>5. AllTracked(sc', h', want', wire')
      BY <1>4, <2>3, <3>1, <3>3 DEF AllTracked
    <3>6. Tracking'
      BY <1>1, <3>1, <3>4, <3>5 DEF Tracking
    <3> QED BY <3>1, <3>6, Unseen
  <2>9. CASE f \in StreamFrames
    <3> DEFINE s == f.stream
    <3>1. s \in Streams
      BY <2>9, KindOf
    <3>2. PICK v : Has(wire[s], f, v) /\ wire' = [wire EXCEPT ![s] = v]
      BY <1>1, <1>4, <1>7, <2>9, SentHas
    <3>3. Tracks(Queued(sc, want, s), {f}, sc.state[s] = "closed", h[s], wire[s])
      BY <2>1, <2>2, <3>1 DEF Tracked
    <3>4. f.end => Finished(h[s]) /\ Queued(sc, want, s) = {}
      <4>1. f.end => sc.state[s] = "closed"
        BY <3>3 DEF Tracks, EndInv
      <4> QED BY <2>1, <3>1, <4>1, LastOfAll
    <3>5. Due(wire[s], f) /\ Tracks(Queued(sc, want, s), {}, sc.state[s] = "closed", h'[s], v)
      <4>1. Queued(sc, want, s) \subseteq StreamFrames
        BY <1>1, <3>1, QueuedTyped
      <4>2. h[s] \in HandlerType /\ h'[s] \in HandlerType /\ wire[s] \in WireType
        BY <1>1, <1>3, <3>1
      <4> QED BY <1>3, <2>9, <3>1, <3>2, <3>3, <3>4, <4>1, <4>2, Arrives
    <3>6. [Responding!Next]_wire
      BY <1>1, <2>9, <3>2, <3>5, DueStep
    <3>7. /\ wire' \in [Streams -> WireType] /\ wire'[s] = v
          /\ \A t \in Streams : t # s => wire'[t] = wire[t]
      BY <1>1, <3>1, <3>2 DEF Has
    <3>8. Tracked(sc', h'[s], want, s, v)
      BY <2>3, <2>4, <2>5, <2>6, <3>1, <3>5 DEF Tracked
    <3>9. AllTracked(sc', h', want', wire')
      BY <1>4, <2>3, <2>7, <3>7, <3>8 DEF AllTracked
    <3>10. ASSUME NEW t \in Streams PROVE HandlerInv(h'[t], wire'[t])
      <4>1. HandlerInv(h'[t], wire[t])
        BY <1>3, <1>5 DEF HandlerInv
      <4>2. CASE t # s
        BY <3>7, <4>1, <4>2
      <4>3. CASE t = s
        <5>1. f.end => h'[s].done
          BY <1>3, <3>1, <3>4 DEF Finished
        <5>2. v.phase = "ended" => f.end \/ wire[s].phase = "ended"
          BY <2>9, <3>2, KindOf DEF Has
        <5> QED BY <3>7, <4>1, <4>3, <5>1, <5>2 DEF HandlerInv
      <4> QED BY <4>2, <4>3
    <3>11. Tracking'
      BY <3>7, <3>9, <3>10 DEF Tracking
    <3> QED BY <3>6, <3>11 DEF Simulates
  <2> QED BY <1>2, <2>8, <2>9
<1> QED BY <1>6, <1>7

LEMMA WakeTracks ==
  ASSUME Steady, IInv, Tracking, NEW i \in DOMAIN sc.writers, Wake(i)
  PROVE  Simulates
<1>1. sc \in ServeType /\ sc' \in ServeType
  BY TypesOfInv, WakeStep DEF IInv, Inv, ServeInv
<1>2. h' = h /\ want' = want /\ gone' = gone /\ wire' = wire
  BY DEF Wake
<1>3. ASSUME ~gone PROVE AllTracked(sc', h, want', wire)
  <2>1. sc.serve = "loop" /\ AllTracked(sc, h, want, wire)
    BY <1>3, Connected
  <2>2. Len(sc.writers) = 1 /\ \A t : Written(sc, t) = {}
    BY <2>1, OnlyWriter DEF Wake
  <2> DEFINE b == SubSeq(sc.writers, 1, i - 1) \o SubSeq(sc.writers, i + 1, Len(sc.writers))
  <2>3. Len(b) = 0
    <3>1. sc.writers \in Seq(Writers) /\ i \in 1..Len(sc.writers)
      BY WritersOf
    <3>2. Lacks(sc.writers, b, i)
      BY <3>1, Without
    <3> QED BY <2>2, <3>2 DEF Lacks
  <2> HIDE DEF b
  <2>4. /\ sc'.sq = sc.sq /\ sc'.state = sc.state /\ sc'.serve = sc.serve
        /\ sc'.writers = b
    BY <1>1 DEF Wake, ServeType, b
  <2>5. \A t : Written(sc', t) = {}
    BY <1>1, <2>3, <2>4, NoWriter
  <2> QED BY <1>2, <2>1, <2>2, <2>4, <2>5, StillTracked DEF AllTracked
<1> QED BY <1>2, <1>3, ServeTracks

---------------------------------------------------------------------------

LEMMA InitTracks == Steady /\ Init => Tracking
<1> SUFFICES ASSUME Steady, Init PROVE Tracking
  OBVIOUS
<1>1. IInv
  BY InitHolds
<1>2. /\ h = [s \in Streams |-> Idle] /\ want = <<>>
      /\ wire = [s \in Streams |-> [phase |-> "silent", given |-> 0, delivered |-> 0]]
  BY DEF Init, Responding!Init, Responding!Silent
<1> DEFINE c == NewConn
           f == OfConn("settings")
<1>3. c \in ServeType
  BY EmptySeq, SizesAssumption DEF NewConn, ServeType
<1>4. /\ c.serve = "loop" /\ c.writers = <<>>
      /\ \A s \in Streams : c.sq[s] = <<>> /\ c.state[s] = "idle"
  BY DEF NewConn
<1>5. sc = StartFrameWrite(c, f)
  BY DEF Init
<1> HIDE DEF c
<1>6. f \in ConnFrames /\ f.stream = None
  BY OfConnTyped DEF Kinds, ConnFrames
<1>7. Len(c.writers) = 0 /\ \A s : Written(c, s) = {}
  BY <1>3, <1>4, NoWriter
<1>8. OneWriterMore(c, sc, f)
  BY <1>3, <1>5, <1>6, StartsConn, StartedDoes
<1> HIDE DEF f
<1>9. \A s \in Streams : Written(sc, s) = {}
  BY <1>3, <1>6, <1>7, <1>8, FirstWriter, NoneAssumption
<1>10. sc.sq = c.sq /\ sc.state = c.state /\ sc.serve = "loop"
  BY <1>4, <1>8 DEF OneWriterMore
<1>11. ASSUME NEW s \in Streams PROVE Tracked(sc, h[s], want, s, wire[s]) /\ HandlerInv(h[s], wire[s])
  <2>1. /\ wire[s].phase = "silent" /\ wire[s].given = 0 /\ wire[s].delivered = 0
        /\ h[s] = Idle
    BY <1>2
  <2>2. /\ Idle.sentHeader = FALSE /\ Idle.done = FALSE /\ Idle.pc = "none"
    BY DEF Idle
  <2>3. InHandler(h[s]) = 0
    BY <2>1, <2>2 DEF InHandler
  <2>4. DOMAIN sc.sq[s] = {} /\ Of(want, s) = {}
    BY <1>2, <1>4, <1>10 DEF Of
  <2>5. Queued(sc, want, s) = {} /\ HeaderFirst(sc, want, s)
    BY <2>4 DEF Queued, HeaderFirst
  <2>6. HeaderInv({}, {}, h[s], wire[s])
    BY <2>1, <2>2, None0 DEF HeaderInv
  <2>7. BytesInv({}, {}, h[s], wire[s])
    BY <2>1, <2>3, None0 DEF BytesInv
  <2>8. EndInv({}, {}, sc.state[s] = "closed", wire[s])
    BY <2>1, None0 DEF EndInv
  <2>9. HandlerInv(h[s], wire[s])
    BY <2>1, <2>2 DEF HandlerInv
  <2> QED BY <1>9, <2>5, <2>6, <2>7, <2>8, <2>9 DEF Tracked, Tracks
<1>12. wire \in [Streams -> WireType]
  BY <1>2 DEF WireType
<1> QED BY <1>10, <1>11, <1>12 DEF Tracking, AllTracked

LEMMA StepSimulates ==
  ASSUME Steady
  PROVE  IInv /\ Tracking /\ [Next]_vars => Simulates
<1> SUFFICES ASSUME IInv, Tracking, [Next]_vars PROVE Simulates
  OBVIOUS
<1>1. CASE Serve
  BY <1>1, WantWriteTracks, WroteTracks, LeavingTracks DEF Serve
<1>2. CASE Client
  <2>1. ASSUME NEW s \in Streams PROVE ~ProcessResetStream(s) /\ ~ResetStream(s)
    BY DEF Steady, ProcessResetStream, ResetStream
  <2> QED BY <1>2, <2>1, ProcessHeadersTracks, ProcessDataEndTracks, ScheduledTracks,
             LeavingTracks DEF Client
<1>3. CASE \E s \in Streams : Handler(s)
  BY <1>3, WriteChunkTracks, HandlerDoneTracks, SendHeaderTracks, HeaderWrittenTracks,
     SendDataTracks, DataWrittenTracks DEF Handler
<1>4. CASE \E i \in DOMAIN sc.writers : Writer(i)
  BY <1>4, WriteFrameTracks, WakeTracks DEF Writer
<1>5. CASE UNCHANGED vars
  BY <1>5 DEF vars, Simulates, Tracking
<1> QED BY <1>1, <1>2, <1>3, <1>4, <1>5 DEF Next

\* Where nothing is reset, the client gets the header of each response, then all
\* that its handler wrote, in order, then its end, or it stops short because the
\* connection ended: through the channel, the queues, frames cut in parts and the
\* writers, for any number of streams.
THEOREM ResponsesImplemented ==
  ASSUME Steady
  PROVE  Spec => ImplementsResponses
<1>1. Init => Tracking /\ Responding!Init
  BY InitTracks DEF Init
<1>2. IInv /\ Tracking /\ [Next]_vars => Tracking' /\ [Responding!Next]_wire
  BY StepSimulates DEF Simulates
<1> QED BY Invariant, <1>1, <1>2, PTL DEF Spec, ImplementsResponses, Responding!Spec
=============================================================================
