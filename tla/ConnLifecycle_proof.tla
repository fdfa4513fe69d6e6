------------------------ MODULE ConnLifecycle_proof ------------------------
(***************************************************************************)
(* For every number of streams and every limit: the counter of open        *)
(* streams keeps the limit, a GOAWAY is sent once wanted, and the          *)
(* connection keeps what Http2Connection promises.                         *)
(*                                                                         *)
(* The invariant says of serve that its counter is the number of open      *)
(* streams (Counted) and that GOAWAY named the newest one (Named), and of  *)
(* serve and its writer that a GOAWAY only waits for a frame (Written,     *)
(* GoAwayWaits).  serve's functions are looked at one by one: Does relates *)
(* the state before such a function to the one after it, and Schedules     *)
(* turns that into a step of the invariant and of the abstraction.         *)
(***************************************************************************)
EXTENDS ConnLifecycle, FiniteSetTheorems, TLAPS

\* The counter counts; one stream more than the limit may be open, while its
\* header is being read; a header is being read of the newest stream only.
Counted(c) ==
  /\ c.curOpen = Cardinality(Open(c))
  /\ c.curOpen <= AdvMaxStreams + 1
  /\ c.pending \notin Open(c) => c.curOpen <= AdvMaxStreams
  /\ \A s \in Open(c) : c.handler[s] # "none" \/ s = c.pending
  /\ \A s \in Streams : s > c.maxID => c.state[s] # "open" /\ c.handler[s] = "none"
  /\ c.pending # NoStream => c.pending = c.maxID /\ c.handler[c.pending] = "none"

\* GOAWAY names the newest stream, and none is newer afterwards.
Named(c) == c.announced = IF c.goAway = "sent" THEN c.maxID ELSE Unannounced

ServeInv(c) == c \in ServerType /\ Counted(c) /\ Named(c)

\* What a function of serve does to what the client can tell
Serves(c, d) ==
  /\ d.pc = c.pc /\ d.goAway = c.goAway
  /\ \E s \in Streams :
       /\ d.handler = [c.handler EXCEPT ![s] = "running"]
       /\ \A t \in Streams : c.handler[t] # "none" => t < s
       /\ c.announced # Unannounced => s <= c.announced

Quiet(c, d) ==
  /\ d.handler = c.handler
  /\ \/ d.pc = c.pc /\ (d.goAway = c.goAway \/ (c.goAway = "no" /\ d.goAway = "wanted"))
     \/ d.pc = "released" /\ d.goAway = c.goAway

Does(c, d) ==
  /\ ServeInv(d)
  /\ d.writing = c.writing /\ d.wrote = c.wrote /\ d.announced = c.announced
  /\ d.sawFirst = c.sawFirst
  /\ Serves(c, d) \/ Quiet(c, d)

\* There are finitely many streams.
LEMMA OpenFinite ==
  ASSUME NEW c PROVE IsFiniteSet(Open(c)) /\ Cardinality(Open(c)) \in Nat
<1>1. IsFiniteSet(Streams)
  BY FS_Interval, LimitsAssumption DEF Streams
<1>2. Open(c) \in SUBSET Streams
  BY DEF Open
<1>3. IsFiniteSet(Open(c))
  BY <1>1, <1>2, FS_Subset
<1>4. QED
  BY <1>3, FS_CardinalityType

\* closeStream takes one stream from the open ones.
LEMMA ClosesOne ==
  ASSUME NEW c \in ServerType, NEW s \in Open(c)
  PROVE  /\ Open(CloseStream(c, s)) = Open(c) \ {s}
         /\ Cardinality(Open(c) \ {s}) = Cardinality(Open(c)) - 1
<1>1. Open(CloseStream(c, s)) = Open(c) \ {s}
  BY DEF Open, CloseStream, ServerType
<1>2. QED
  BY <1>1, OpenFinite, FS_RemoveElement

LEMMA CloseStreamDoes ==
  ASSUME NEW c, ServeInv(c), NEW s \in Open(c)
  PROVE  Does(c, CloseStream(c, s))
<1> DEFINE d == CloseStream(c, s)
<1>1. c \in ServerType /\ Counted(c) /\ Named(c) /\ s \in Streams
  BY DEF ServeInv, Open
<1>2. Open(d) = Open(c) \ {s} /\ Cardinality(Open(d)) = Cardinality(Open(c)) - 1
  BY <1>1, ClosesOne
<1>3. Cardinality(Open(c)) \in Nat /\ Cardinality(Open(d)) \in Nat
  BY OpenFinite
<1>4. d = [c EXCEPT !.state = [c.state EXCEPT ![s] = "closed"], !.curOpen = c.curOpen - 1]
  BY <1>1 DEF CloseStream, ServerType
<1>5. c.curOpen - 1 \in Nat
  BY <1>1, <1>2, <1>3 DEF Counted
<1>6. d \in ServerType
  <2>1. [c.state EXCEPT ![s] = "closed"] \in [Streams -> {"idle", "open", "closed"}]
    BY <1>1 DEF ServerType
  <2> DEFINE e == [c EXCEPT !.state = [c.state EXCEPT ![s] = "closed"]]
  <2>2. e \in ServerType
    BY <1>1, <2>1 DEF ServerType
  <2>3. d = [e EXCEPT !.curOpen = c.curOpen - 1]
    BY <1>4
  <2> HIDE DEF e
  <2>4. QED
    BY <1>5, <2>2, <2>3 DEF ServerType
<1>7. Counted(d)
  <2>1. /\ d.handler = c.handler /\ d.pending = c.pending /\ d.maxID = c.maxID
        /\ d.curOpen = c.curOpen - 1 /\ d.state = [c.state EXCEPT ![s] = "closed"]
    BY <1>1, <1>4 DEF ServerType
  <2>2. d.curOpen = Cardinality(Open(d)) /\ d.curOpen <= AdvMaxStreams
    BY <1>1, <1>2, <1>3, <2>1, LimitsAssumption DEF Counted
  <2>3. \A t \in Open(d) : d.handler[t] # "none" \/ t = d.pending
    BY <1>1, <1>2, <2>1 DEF Counted
  <2>4. \A t \in Streams : t > d.maxID => d.state[t] # "open" /\ d.handler[t] = "none"
    BY <1>1, <2>1 DEF Counted, ServerType
  <2>5. QED
    BY <1>1, <2>1, <2>2, <2>3, <2>4, <1>3, LimitsAssumption DEF Counted
<1>8. Named(d)
  BY <1>1, <1>4 DEF Named, ServerType
<1>9. QED
  BY <1>1, <1>4, <1>6, <1>7, <1>8 DEF Does, Quiet, ServeInv, ServerType

LEMMA DoesNothing ==
  ASSUME NEW c, ServeInv(c) PROVE Does(c, c)
  BY DEF Does, Quiet

LEMMA ResetStreamDoes ==
  ASSUME NEW c, ServeInv(c), NEW s \in Streams
  PROVE  Does(c, ResetStream(c, s))
  BY CloseStreamDoes, DoesNothing DEF ResetStream

\* A change of the server that no part of Counted or Named depends on
LEMMA SameCounts ==
  ASSUME NEW c, ServeInv(c), NEW d \in ServerType,
         d.handler = c.handler, d.state = c.state, d.curOpen = c.curOpen,
         d.maxID = c.maxID, d.pending = c.pending, d.announced = c.announced,
         d.goAway = "sent" <=> c.goAway = "sent"
  PROVE  ServeInv(d)
<1>1. Open(d) = Open(c)
  BY DEF Open
<1>2. QED
  BY <1>1, Zenon DEF ServeInv, Counted, Named

LEMMA GoAwayDoes ==
  ASSUME NEW c, ServeInv(c) PROVE Does(c, GoAway(c))
<1>1. CASE c.goAway # "no"
  BY <1>1, DoesNothing DEF GoAway
<1>2. CASE c.goAway = "no"
  <2>1. GoAway(c) = [c EXCEPT !.goAway = "wanted", !.shutdown = "running"]
    BY <1>2 DEF GoAway
  <2>2. c \in ServerType
    BY DEF ServeInv
  <2> DEFINE e == [c EXCEPT !.goAway = "wanted"]
  <2>3. e \in ServerType /\ GoAway(c) = [e EXCEPT !.shutdown = "running"]
    BY <2>1, <2>2 DEF ServerType
  <2>4. GoAway(c) \in ServerType
    <3> HIDE DEF e
    <3>1. QED
      BY <2>3 DEF ServerType
  <2>5. /\ GoAway(c).handler = c.handler /\ GoAway(c).state = c.state
        /\ GoAway(c).curOpen = c.curOpen /\ GoAway(c).maxID = c.maxID
        /\ GoAway(c).pending = c.pending /\ GoAway(c).announced = c.announced
        /\ GoAway(c).goAway = "wanted" /\ GoAway(c).pc = c.pc
        /\ GoAway(c).writing = c.writing /\ GoAway(c).wrote = c.wrote
        /\ GoAway(c).sawFirst = c.sawFirst
    BY <2>1, <2>2 DEF ServerType
  <2>6. ServeInv(GoAway(c))
    BY <1>2, <2>4, <2>5, SameCounts
  <2>7. QED
    BY <1>2, <2>5, <2>6 DEF Does, Quiet
<1>3. QED
  BY <1>1, <1>2

LEMMA ReturnDoes ==
  ASSUME NEW c, ServeInv(c) PROVE Does(c, Return(c))
<1>1. c \in ServerType
  BY DEF ServeInv
<1>2. Return(c) \in ServerType
  BY <1>1 DEF ServerType, Return
<1>3. ServeInv(Return(c))
  BY <1>1, <1>2, SameCounts DEF ServerType, Return
<1>4. QED
  BY <1>1, <1>3 DEF Does, Quiet, ServerType, Return

\* What a header block is about: the newest stream, open and not yet served
Reading(c, s) ==
  /\ s \in Open(c) /\ c.pending = s
  /\ c.announced # Unannounced => s <= c.announced

\* A stream that is handed to its handler
LEMMA HandlesDoes ==
  ASSUME NEW c, ServeInv(c), NEW s, Reading(c, s), ~Refused(c)
  PROVE  Does(c, [c EXCEPT !.pending = NoStream, !.handler[s] = "running"])
<1> DEFINE h == [c.handler EXCEPT ![s] = "running"]
<1> DEFINE e == [c EXCEPT !.pending = NoStream]
<1> DEFINE d == [e EXCEPT !.handler = h]
<1>1. c \in ServerType /\ Counted(c) /\ Named(c) /\ s \in Streams /\ s \in Open(c)
  BY DEF ServeInv, Reading, Open
<1>2. h \in [Streams -> {"none", "running", "returned"}]
  BY <1>1 DEF ServerType
<1>3. d = [c EXCEPT !.pending = NoStream, !.handler[s] = "running"]
  BY <1>1 DEF ServerType
<1>4. e \in ServerType /\ e.handler = c.handler
  BY <1>1 DEF ServerType
<1>5. d \in ServerType
  <2> HIDE DEF e, h
  <2>1. QED
    BY <1>2, <1>4 DEF ServerType
<1>6. /\ d.handler = h /\ d.pending = NoStream /\ d.state = c.state
      /\ d.curOpen = c.curOpen /\ d.maxID = c.maxID /\ d.announced = c.announced
      /\ d.goAway = c.goAway /\ d.pc = c.pc /\ d.writing = c.writing
      /\ d.wrote = c.wrote /\ d.sawFirst = c.sawFirst
  <2> HIDE DEF h
  <2>1. QED
    BY <1>1 DEF ServerType
<1> HIDE DEF d
<1>7. Open(d) = Open(c)
  BY <1>6 DEF Open
<1>8. s = c.maxID /\ c.handler[s] = "none" /\ c.curOpen <= AdvMaxStreams
  BY <1>1, LimitsAssumption DEF Counted, Reading, Refused, ServerType, Streams, NoStream
<1>9. Counted(d)
  <2>1. \A t \in Open(d) : d.handler[t] # "none"
    BY <1>1, <1>6, <1>7 DEF Counted, Reading, ServerType, Open
  <2>2. \A t \in Streams : t > d.maxID => d.state[t] # "open" /\ d.handler[t] = "none"
    BY <1>1, <1>6, <1>8 DEF Counted, ServerType, Streams
  <2>3. d.curOpen = Cardinality(Open(d)) /\ d.curOpen <= AdvMaxStreams
    BY <1>1, <1>6, <1>7, <1>8 DEF Counted
  <2>4. QED
    BY <1>6, <2>1, <2>2, <2>3, OpenFinite, LimitsAssumption DEF Counted
<1>10. Named(d)
  BY <1>1, <1>6 DEF Named
<1>11. \A t \in Streams : c.handler[t] # "none" => t < s
  BY <1>1, <1>8 DEF Counted, Streams
<1>12. Serves(c, d)
  BY <1>1, <1>6, <1>11 DEF Serves, Reading
<1>13. Does(c, d)
  BY <1>5, <1>6, <1>9, <1>10, <1>12 DEF Does, ServeInv
<1>14. QED
  BY <1>3, <1>13

\* A stream that is refused
LEMMA RefusesDoes ==
  ASSUME NEW c, ServeInv(c), NEW s, Reading(c, s)
  PROVE  Does(c, ResetStream([c EXCEPT !.pending = NoStream], s))
<1> DEFINE e == CloseStream(c, s)
<1> DEFINE d == [e EXCEPT !.pending = NoStream]
<1>1. c \in ServerType /\ s \in Streams /\ s \in Open(c)
  BY DEF ServeInv, Reading, Open
<1>2. ResetStream([c EXCEPT !.pending = NoStream], s) = d
  BY <1>1 DEF ResetStream, CloseStream, ServerType, Open
<1>3. Does(c, e)
  BY <1>1, CloseStreamDoes
<1>4. ServeInv(e) /\ e \in ServerType /\ e.pending = c.pending /\ s \notin Open(e)
  <2>1. ServeInv(e) /\ e \in ServerType
    BY <1>3 DEF Does, ServeInv
  <2>2. Open(e) = Open(c) \ {s}
    BY <1>1, ClosesOne
  <2>3. e.pending = c.pending
    BY <1>1 DEF CloseStream, ServerType
  <2>4. QED
    BY <2>1, <2>2, <2>3
<1> HIDE DEF e
<1>5. /\ d \in ServerType
      /\ d.handler = e.handler /\ d.pending = NoStream /\ d.state = e.state
      /\ d.curOpen = e.curOpen /\ d.maxID = e.maxID /\ d.announced = e.announced
      /\ d.goAway = e.goAway /\ d.pc = e.pc /\ d.writing = e.writing
      /\ d.wrote = e.wrote /\ d.sawFirst = e.sawFirst
  BY <1>4 DEF ServerType
<1> HIDE DEF d
<1>6. Open(d) = Open(e)
  BY <1>5 DEF Open
<1>7. Counted(d)
  <2>1. Counted(e) /\ e.pending = s
    BY <1>4 DEF ServeInv, Reading
  <2>2. /\ e.curOpen = Cardinality(Open(e)) /\ e.curOpen <= AdvMaxStreams
        /\ \A t \in Open(e) : e.handler[t] # "none"
        /\ \A t \in Streams : t > e.maxID => e.state[t] # "open" /\ e.handler[t] = "none"
    BY <1>4, <2>1, Zenon DEF Counted
  <2>3. d.curOpen <= AdvMaxStreams /\ d.curOpen <= AdvMaxStreams + 1
    BY <1>4, <1>5, <2>2, LimitsAssumption DEF ServerType
  <2>4. QED
    BY <1>5, <1>6, <2>2, <2>3 DEF Counted
<1>8. Named(d)
  BY <1>4, <1>5 DEF ServeInv, Named
<1>9. Does(c, d)
  BY <1>3, <1>5, <1>7, <1>8 DEF Does, ServeInv, Serves, Quiet
<1>10. QED
  BY <1>2, <1>9

LEMMA FragmentDoes ==
  ASSUME NEW c, ServeInv(c), NEW s, Reading(c, s), NEW end, NEW block
  PROVE  Does(c, Fragment(c, s, end, block))
  BY ReturnDoes, DoesNothing, HandlesDoes, RefusesDoes, Zenon DEF Fragment

\* A stream that is opened is read at once.
LEMMA OpensReading ==
  ASSUME NEW c, ServeInv(c), c.pending = NoStream, c.goAway = "no",
         NEW s \in Streams, s > c.maxID,
         NEW d, d = [c EXCEPT !.state[s] = "open", !.curOpen = @ + 1,
                              !.maxID = s, !.pending = s]
  PROVE  /\ Does(c, d) /\ Reading(d, s)
         /\ d.pc = c.pc /\ d.goAway = c.goAway /\ d.handler = c.handler
<1> DEFINE st == [c.state EXCEPT ![s] = "open"]
<1> DEFINE e == [c EXCEPT !.state = st]
<1> DEFINE f == [e EXCEPT !.curOpen = c.curOpen + 1]
<1> DEFINE g == [f EXCEPT !.maxID = s]
<1>1. c \in ServerType /\ Counted(c) /\ Named(c)
  BY DEF ServeInv
<1>2. st \in [Streams -> {"idle", "open", "closed"}] /\ c.curOpen + 1 \in Nat
  BY <1>1 DEF ServerType
<1>3. d = [g EXCEPT !.pending = s]
  BY <1>1 DEF ServerType
<1>4. e \in ServerType
  <2> HIDE DEF st
  <2>1. QED
    BY <1>1, <1>2 DEF ServerType
<1>5. f \in ServerType
  <2> HIDE DEF e
  <2>1. QED
    BY <1>2, <1>4 DEF ServerType
<1>6. g \in ServerType
  <2> HIDE DEF f
  <2>1. QED
    BY <1>5 DEF ServerType
<1>7. d \in ServerType
  <2> HIDE DEF g
  <2>1. QED
    BY <1>3, <1>6 DEF ServerType
<1>8. /\ d.handler = c.handler /\ d.pending = s /\ d.state = st
      /\ d.curOpen = c.curOpen + 1 /\ d.maxID = s /\ d.announced = c.announced
      /\ d.goAway = c.goAway /\ d.pc = c.pc /\ d.writing = c.writing
      /\ d.wrote = c.wrote /\ d.sawFirst = c.sawFirst
  <2> HIDE DEF st
  <2>1. QED
    BY <1>1, <1>3 DEF ServerType
<1>9. Open(d) = Open(c) \cup {s} /\ s \notin Open(c)
  BY <1>1, <1>8 DEF Open, Counted, ServerType
<1>10. Cardinality(Open(d)) = Cardinality(Open(c)) + 1
  BY <1>9, OpenFinite, FS_AddElement
<1> HIDE DEF g, st
<1>11. Counted(d)
  <2>1. NoStream \notin Open(c)
    BY LimitsAssumption DEF Open, Streams, NoStream
  <2>2. c.curOpen \in Nat /\ c.curOpen <= AdvMaxStreams
    BY <1>1, <2>1 DEF Counted, ServerType
  <2>3. d.curOpen = Cardinality(Open(d)) /\ d.curOpen <= AdvMaxStreams + 1
    BY <1>1, <1>8, <1>10, <2>2, OpenFinite, LimitsAssumption DEF Counted
  <2>4. \A t \in Open(d) : d.handler[t] # "none" \/ t = d.pending
    <3>1. \A t \in Open(c) : c.handler[t] # "none"
      BY <1>1, <2>1 DEF Counted
    <3>2. QED
      BY <1>8, <1>9, <3>1
  <2>5. \A t \in Streams : t > d.maxID => d.state[t] # "open" /\ d.handler[t] = "none"
    <3>1. \A t \in Streams : t > s => t > c.maxID /\ t # s
      BY <1>1, LimitsAssumption DEF ServerType, Streams, NoStream
    <3>2. QED
      BY <1>1, <1>8, <3>1 DEF Counted, ServerType, st
  <2>6. d.handler[s] = "none"
    BY <1>1, <1>8 DEF Counted
  <2>7. QED
    BY <1>8, <1>9, <2>3, <2>4, <2>5, <2>6 DEF Counted
<1>12. Named(d) /\ d.announced = Unannounced
  BY <1>1, <1>8 DEF Named
<1>13. QED
  BY <1>7, <1>8, <1>9, <1>11, <1>12 DEF Does, Quiet, ServeInv, Reading

LEMMA HeadersDoes ==
  ASSUME NEW c, ServeInv(c), c.pending = NoStream, NEW s \in Streams, NEW end, NEW block
  PROVE  Does(c, Headers(c, s, end, block))
<1>1. CASE c.goAway # "no" \/ s <= c.maxID
  BY <1>1, DoesNothing, GoAwayDoes DEF Headers
<1>2. CASE c.goAway = "no" /\ ~(s <= c.maxID)
  <2> DEFINE d == [c EXCEPT !.state[s] = "open", !.curOpen = @ + 1,
                            !.maxID = s, !.pending = s]
  <2>1. s > c.maxID
    BY <1>2, LimitsAssumption DEF ServeInv, ServerType, Streams, NoStream
  <2>2. /\ Does(c, d) /\ Reading(d, s)
        /\ d.pc = c.pc /\ d.goAway = c.goAway /\ d.handler = c.handler
    BY <1>2, <2>1, OpensReading
  <2>3. Headers(c, s, end, block) = Fragment(d, s, end, block)
    BY <1>2 DEF Headers
  <2> HIDE DEF d
  <2>4. Does(d, Fragment(d, s, end, block))
    BY <2>2, FragmentDoes DEF Does
  <2> DEFINE f == Fragment(d, s, end, block)
  <2> HIDE DEF f
  <2>5. /\ d.writing = c.writing /\ d.wrote = c.wrote /\ d.announced = c.announced
        /\ d.sawFirst = c.sawFirst
    BY <2>2, Zenon DEF Does
  <2>6. Does(c, f)
    BY <2>2, <2>4, <2>5 DEF Does, Quiet, Serves, f
  <2>7. QED
    BY <2>3, <2>6 DEF f
<1>3. QED
  BY <1>1, <1>2

LEMMA ContinuationDoes ==
  ASSUME NEW c, ServeInv(c), NEW s \in Streams, NEW end, NEW block
  PROVE  Does(c, Continuation(c, s, end, block))
<1>1. CASE c.pending = s /\ s \in Open(c)
  <2>1. s = c.maxID /\ (c.announced # Unannounced => c.announced = c.maxID)
    BY <1>1, LimitsAssumption DEF ServeInv, Counted, Named, Streams, NoStream
  <2>2. Reading(c, s)
    BY <1>1, <2>1 DEF Reading, Streams
  <2>3. QED
    BY <1>1, <2>2, FragmentDoes DEF Continuation
<1>2. CASE ~(c.pending = s /\ s \in Open(c))
  BY <1>2, GoAwayDoes DEF Continuation
<1>3. QED
  BY <1>1, <1>2

---------------------------------------------------------------------------
(* The invariant *)

\* A frame is being written while its goroutine runs or serve has not heard of
\* its end.
Written ==
  /\ sc.writing <=> (writer # "none" \/ sc.wrote)
  /\ ~(writer # "none" /\ sc.wrote)

\* A GOAWAY is kept waiting only by a frame that is being written.
GoAwayWaits == sc.goAway = "wanted" => sc.writing

Greeted ==
  /\ sc.pc \in {"start", "preface"} => sc.goAway = "no" /\ ~sc.sawFirst
  /\ sc.pc = "start" => ~sc.writing

IInv ==
  /\ TypeOK
  /\ Counted(sc) /\ Named(sc)
  /\ Written /\ GoAwayWaits /\ Greeted

\* What serve does in a case of its select, from a state c that differs from sc
\* only in what the client cannot tell
Prepared(c) ==
  /\ Loop /\ ServeInv(c)
  /\ c.pc = sc.pc /\ c.handler = sc.handler /\ c.goAway = sc.goAway
  /\ c.announced = sc.announced /\ (sc.sawFirst => c.sawFirst)
  /\ c.writing <=> (writer # "none" \/ c.wrote)
  /\ ~(writer # "none" /\ c.wrote)

ServePart == ServeInv(sc) /\ Written /\ GoAwayWaits /\ Greeted /\
             writer \in {"none", "write", "goaway", "sleep", "wake"}

ServeStep == ServePart' /\ [Promise!Next]_(Promise!vars)

\* A GOAWAY that is announced
LEMMA Announces ==
  ASSUME IInv, NEW c, Prepared(c), NEW d, Does(c, d), ServeDoes(d),
         c.goAway = "wanted" => c.writing \/ d = c,
         Serves(c, d) => sc.sawFirst,
         d.goAway = "wanted", ~d.writing
  PROVE  ServeStep
<1> DEFINE e == [d EXCEPT !.goAway = "sent"]
<1> DEFINE f == [e EXCEPT !.announced = d.maxID]
<1>1. d \in ServerType /\ ServeInv(d) /\ Counted(d) /\ Named(d)
  BY DEF Does, ServeInv
<1>2. Scheduled(d) = [f EXCEPT !.writing = TRUE]
  BY <1>1 DEF Scheduled, ServerType
<1>3. e \in ServerType
  BY <1>1 DEF ServerType
<1>4. f \in ServerType
  <2> HIDE DEF e
  <2>1. QED
    BY <1>1, <1>3 DEF ServerType
<1>5. sc' \in ServerType
  <2> HIDE DEF f
  <2>1. QED
    BY <1>2, <1>4 DEF ServeDoes, ServerType
<1>6. /\ sc'.handler = d.handler /\ sc'.pending = d.pending /\ sc'.state = d.state
      /\ sc'.curOpen = d.curOpen /\ sc'.maxID = d.maxID /\ sc'.announced = d.maxID
      /\ sc'.goAway = "sent" /\ sc'.pc = d.pc /\ sc'.writing = TRUE
      /\ sc'.wrote = d.wrote /\ sc'.sawFirst = d.sawFirst
  BY <1>1, <1>2 DEF ServeDoes, ServerType
<1>7. writer' = "goaway"
  <2>1. Scheduled(d) # d
    BY <1>6 DEF ServeDoes
  <2>2. QED
    BY <2>1 DEF ServeDoes
<1> HIDE DEF f
<1>8. Counted(sc') /\ Named(sc')
  <2>1. Open(sc') = Open(d)
    BY <1>6 DEF Open
  <2>2. Counted(sc')
    BY <1>1, <1>6, <2>1 DEF Counted
  <2>3. QED
    BY <1>6, <2>2 DEF Named
<1>9. ServePart'
  <2>1. sc'.wrote = FALSE /\ sc'.pc = "loop"
    BY <1>1, <1>6 DEF Does, Prepared, Loop, Quiet, Serves, ServerType
  <2>2. ServeInv(sc')
    BY <1>5, <1>8 DEF ServeInv
  <2>3. Written' /\ GoAwayWaits' /\ Greeted'
    BY <1>6, <1>7, <2>1 DEF Written, GoAwayWaits, Greeted
  <2>4. QED
    BY <1>7, <2>2, <2>3 DEF ServePart
<1>10. /\ sc'.handler = sc.handler /\ sc'.pc = "loop" /\ sc.pc = "loop"
       /\ sc.goAway \in {"no", "wanted"} /\ sc.announced = -1
  BY <1>1, <1>6 DEF Does, Prepared, Loop, Quiet, Serves, Named, Unannounced, ServeInv
<1>11. \A t \in Streams : sc.handler[t] # "none" => t <= sc'.maxID
  BY <1>1, <1>6, <1>10, LimitsAssumption DEF Counted, ServerType, Streams, NoStream
<1>12. Promise!Next
  BY <1>6, <1>10, <1>11 DEF Promise!Next, Promise!GoAway, Promise!Announce, Loop,
     Promise!Unannounced
<1>13. QED
  BY <1>9, <1>12 DEF ServeStep

\* Any other case
LEMMA Continues ==
  ASSUME IInv, NEW c, Prepared(c), NEW d, Does(c, d), sc' = d, writer' = writer,
         Serves(c, d) => sc.sawFirst,
         d.goAway = "wanted" => d.writing
  PROVE  ServeStep
<1>1. d \in ServerType /\ ServeInv(d)
  BY DEF Does, ServeInv
<1>2. ServePart'
  <2>1. Written' /\ GoAwayWaits'
    BY DEF Does, Prepared, Written, GoAwayWaits
  <2>2. Greeted'
    BY DEF Does, Prepared, Greeted, Quiet, Serves, Loop
  <2>3. writer' \in {"none", "write", "goaway", "sleep", "wake"}
    BY DEF IInv, TypeOK
  <2>4. QED
    BY <1>1, <2>1, <2>2, <2>3 DEF ServePart
<1>3. sc.pc = "loop" /\ d.announced = sc.announced
  BY DEF Does, Prepared, Loop
<1>4. CASE Serves(c, d)
  <2>1. PICK s \in Streams :
          /\ d.handler = [c.handler EXCEPT ![s] = "running"]
          /\ \A t \in Streams : c.handler[t] # "none" => t < s
          /\ c.announced # Unannounced => s <= c.announced
    BY <1>4 DEF Serves
  <2>2. c.handler = sc.handler /\ c.announced = sc.announced /\ sc.sawFirst
        /\ d.sawFirst /\ d.pc = "loop" /\ d.goAway = sc.goAway
    BY <1>4, <1>3 DEF Does, Prepared, Serves
  <2>3. {t \in Streams : d.handler[t] # "none"} = {t \in Streams : sc.handler[t] # "none"} \cup {s}
    BY <2>1, <2>2 DEF IInv, TypeOK, ServerType
  <2>4. Promise!Serve(s)
    BY <1>3, <2>1, <2>2, <2>3 DEF Promise!Serve, Promise!Unannounced, Unannounced, Loop
  <2>5. QED
    BY <1>2, <2>4 DEF ServeStep, Promise!Next
<1>5. CASE Quiet(c, d)
  <2>1. d.handler = sc.handler /\ (sc.sawFirst => d.sawFirst)
    BY <1>5 DEF Does, Prepared, Quiet
  <2>2. CASE d.pc = "released" /\ d.goAway = c.goAway
    BY <1>2, <1>3, <2>1, <2>2 DEF ServeStep, Promise!Next, Promise!Close, Loop
  <2>3. CASE d.pc = sc.pc /\ d.goAway = sc.goAway
    BY <1>1, <1>2, <1>3, <2>1, <2>3 DEF ServeStep, Promise!Next, Promise!Greet, Promise!vars, Loop, ServerType, IInv, TypeOK
  <2>4. CASE d.pc = sc.pc /\ sc.goAway = "no" /\ d.goAway = "wanted"
    BY <1>2, <1>3, <2>1, <2>4 DEF ServeStep, Promise!Next, Promise!GoAway, Loop
  <2>5. QED
    BY <1>5, <2>2, <2>3, <2>4 DEF Quiet, Prepared
<1>6. QED
  BY <1>4, <1>5 DEF Does

LEMMA Schedules ==
  ASSUME IInv, NEW c, Prepared(c), NEW d, Does(c, d), ServeDoes(d),
         c.goAway = "wanted" => c.writing \/ d = c,
         Serves(c, d) => sc.sawFirst
  PROVE  ServeStep
<1>1. CASE d.goAway = "wanted" /\ ~d.writing
  BY <1>1, Announces
<1>2. CASE ~(d.goAway = "wanted" /\ ~d.writing)
  <2>1. sc' = d /\ writer' = writer
    BY <1>2 DEF ServeDoes, Scheduled
  <2>2. d.goAway = "wanted" => d.writing
    BY <1>2 DEF Does, ServeInv, ServerType
  <2>3. QED
    BY <2>1, <2>2, Continues
<1>3. QED
  BY <1>1, <1>2

\* A state of serve that differs from sc in what only serve knows
LEMMA Prepares ==
  ASSUME IInv, Loop, NEW c \in ServerType,
         c.pc = sc.pc, c.handler = sc.handler, c.state = sc.state, c.curOpen = sc.curOpen,
         c.maxID = sc.maxID, c.pending = sc.pending, c.goAway = sc.goAway,
         c.announced = sc.announced, c.writing = sc.writing, c.wrote = sc.wrote,
         sc.sawFirst => c.sawFirst
  PROVE  Prepared(c) /\ (c.goAway = "wanted" => c.writing)
<1>1. ServeInv(c)
  BY SameCounts DEF IInv, TypeOK, ServeInv
<1>2. QED
  BY <1>1 DEF IInv, Prepared, Written, GoAwayWaits

LEMMA HeardPrepares ==
  ASSUME IInv, Loop
  PROVE  /\ Prepared(Heard(sc)) /\ ServeInv(Heard(sc))
         /\ Heard(sc).goAway = "wanted" => Heard(sc).writing
         /\ Heard(sc).pending = sc.pending
<1>1. sc \in ServerType
  BY DEF IInv, TypeOK
<1>2. Heard(sc) \in ServerType /\ Heard(sc) = [sc EXCEPT !.settings = "off"]
  BY <1>1 DEF Heard, ServerType
<1>3. Prepared(Heard(sc)) /\ (Heard(sc).goAway = "wanted" => Heard(sc).writing)
  BY <1>1, <1>2, Prepares DEF ServerType
<1>4. QED
  BY <1>1, <1>2, <1>3 DEF Prepared, ServerType

\* ... of SETTINGS
LEMMA SawPrepares ==
  ASSUME IInv, Loop, NEW n \in {0, 1},
         NEW c, c = [Heard([sc EXCEPT !.sawFirst = TRUE]) EXCEPT !.unacked = n]
  PROVE  Prepared(c) /\ ServeInv(c) /\ (c.goAway = "wanted" => c.writing)
<1> DEFINE e == [sc EXCEPT !.sawFirst = TRUE]
<1> DEFINE f == [e EXCEPT !.settings = "off"]
<1>1. sc \in ServerType /\ e \in ServerType
  BY DEF IInv, TypeOK, ServerType
<1>2. f \in ServerType
  <2> HIDE DEF e
  <2>1. QED
    BY <1>1 DEF ServerType
<1>3. c \in ServerType
  <2>1. c = [f EXCEPT !.unacked = n]
    BY DEF Heard
  <2> HIDE DEF f
  <2>2. QED
    BY <1>2, <2>1 DEF ServerType
<1>4. /\ c.pc = sc.pc /\ c.handler = sc.handler /\ c.state = sc.state
      /\ c.curOpen = sc.curOpen /\ c.maxID = sc.maxID /\ c.pending = sc.pending
      /\ c.goAway = sc.goAway /\ c.announced = sc.announced
      /\ c.writing = sc.writing /\ c.wrote = sc.wrote /\ c.sawFirst
  BY <1>1 DEF Heard, ServerType
<1>5. QED
  BY <1>3, <1>4, Prepares DEF Prepared

\* ... of the end of the reader
LEMMA EndedPrepares ==
  ASSUME IInv, Loop, NEW c, c = Heard([sc EXCEPT !.readCh = "nil"])
  PROVE  Prepared(c) /\ ServeInv(c) /\ (c.goAway = "wanted" => c.writing)
<1> DEFINE e == [sc EXCEPT !.readCh = "nil"]
<1>1. sc \in ServerType /\ e \in ServerType
  BY DEF IInv, TypeOK, ServerType
<1>2. c \in ServerType
  <2>1. c = [e EXCEPT !.settings = "off"]
    BY DEF Heard
  <2> HIDE DEF e
  <2>2. QED
    BY <1>1, <2>1 DEF ServerType
<1>3. /\ c.pc = sc.pc /\ c.handler = sc.handler /\ c.state = sc.state
      /\ c.curOpen = sc.curOpen /\ c.maxID = sc.maxID /\ c.pending = sc.pending
      /\ c.goAway = sc.goAway /\ c.announced = sc.announced
      /\ c.writing = sc.writing /\ c.wrote = sc.wrote /\ c.sawFirst = sc.sawFirst
  BY <1>1 DEF Heard, ServerType
<1>4. QED
  BY <1>2, <1>3, Prepares DEF Prepared

LEMMA ServesNobody ==
  ASSUME NEW c \in ServerType, NEW d, d.handler = c.handler
  PROVE  ~Serves(c, d)
<1> SUFFICES ASSUME NEW s \in Streams, d.handler = [c.handler EXCEPT ![s] = "running"],
                    \A t \in Streams : c.handler[t] # "none" => t < s
             PROVE  FALSE
  BY DEF Serves
<1>1. c.handler \in [Streams -> {"none", "running", "returned"}] /\ s \in Int
  BY DEF ServerType, Streams
<1>2. c.handler[s] = "running"
  BY <1>1
<1>3. QED
  BY <1>1, <1>2

---------------------------------------------------------------------------
(* The actions of serve *)

\* SETTINGS and their acknowledgement, which ServeDoes as it is or goes away
LEMMA SettingsStep ==
  ASSUME IInv, ProcessSettings \/ ProcessSettingsAck
  PROVE  ServeStep
<1> DEFINE saw == Heard([sc EXCEPT !.sawFirst = TRUE])
<1>1. Loop /\ sc \in ServerType
  BY DEF IInv, TypeOK, ProcessSettings, ProcessSettingsAck, FrameFromReader
<1>2. PICK n \in {0, 1} :
        ServeDoes([saw EXCEPT !.unacked = n]) \/ ServeDoes(GoAway([saw EXCEPT !.unacked = n]))
  <2>1. saw = [saw EXCEPT !.unacked = sc.unacked]
    BY <1>1 DEF Heard, ServerType
  <2>2. saw.unacked = sc.unacked /\ sc.unacked \in {0, 1}
    BY <1>1 DEF Heard, ServerType
  <2> HIDE DEF saw
  <2>3. CASE ProcessSettings
    BY <2>1, <2>2, <2>3 DEF ProcessSettings, saw
  <2>4. CASE ProcessSettingsAck
    <3>1. ServeDoes(IF sc.unacked > 0 /\ sc.pending = NoStream
                    THEN [saw EXCEPT !.unacked = @ - 1] ELSE GoAway(saw))
      BY <2>4, Zenon DEF ProcessSettingsAck, saw
    <3>2. CASE sc.unacked > 0 /\ sc.pending = NoStream
      <4>1. ServeDoes([saw EXCEPT !.unacked = 0])
        <5>1. saw.unacked - 1 = 0
          BY <2>2, <3>2
        <5>2. [saw EXCEPT !.unacked = @ - 1] = [saw EXCEPT !.unacked = 0]
          BY <5>1
        <5>3. QED
          BY <3>1, <3>2, <5>2, Zenon
      <4>2. QED
        BY <4>1
    <3>3. CASE ~(sc.unacked > 0 /\ sc.pending = NoStream)
      <4>1. ServeDoes(GoAway(saw))
        BY <3>1, <3>3, Zenon
      <4>2. QED
        BY <2>1, <2>2, <4>1
    <3>4. QED
      BY <3>2, <3>3
  <2>5. QED
    BY <2>3, <2>4
<1> DEFINE c == [saw EXCEPT !.unacked = n]
<1>3. Prepared(c) /\ ServeInv(c) /\ (c.goAway = "wanted" => c.writing)
  BY <1>1, SawPrepares, Zenon
<1> HIDE DEF c, saw
<1>4. Does(c, c) /\ Does(c, GoAway(c)) /\ ~Serves(c, c) /\ ~Serves(c, GoAway(c))
  <2>1. Does(c, c) /\ Does(c, GoAway(c))
    BY <1>3, DoesNothing, GoAwayDoes
  <2>2. c \in ServerType /\ GoAway(c).handler = c.handler
    BY <1>3 DEF ServeInv, ServerType, GoAway
  <2>3. QED
    BY <2>1, <2>2, ServesNobody
<1>5. QED
  BY <1>2, <1>3, <1>4, Schedules, Zenon DEF c

LEMMA HeadersStep ==
  ASSUME IInv, NEW s \in Streams, ProcessHeaders(s) \/ ProcessContinuation(s)
  PROVE  ServeStep
<1> DEFINE c == Heard(sc)
<1>1. Loop
  BY DEF ProcessHeaders, ProcessContinuation, FrameFromReader
<1>2. Prepared(c) /\ ServeInv(c) /\ (c.goAway = "wanted" => c.writing) /\ c.pending = sc.pending
  BY <1>1, HeardPrepares, Zenon
<1> HIDE DEF c
<1>3. Does(c, GoAway(c)) /\ ~Serves(c, GoAway(c))
  <2>1. c \in ServerType /\ GoAway(c).handler = c.handler
    BY <1>2 DEF ServeInv, ServerType, GoAway
  <2>2. QED
    BY <1>2, <2>1, GoAwayDoes, ServesNobody
<1>4. CASE ServeDoes(GoAway(c))
  BY <1>2, <1>3, <1>4, Schedules, Zenon
<1>5. CASE \E end \in BOOLEAN, block \in Blocks : InOrder /\ ServeDoes(Headers(c, s, end, block))
  <2>1. PICK end \in BOOLEAN, block \in Blocks : InOrder /\ ServeDoes(Headers(c, s, end, block))
    BY <1>5
  <2>2. Does(c, Headers(c, s, end, block))
    BY <1>2, <2>1, HeadersDoes DEF InOrder
  <2>3. QED
    BY <1>2, <2>1, <2>2, Schedules, Zenon DEF InOrder
<1>6. CASE \E end \in BOOLEAN, block \in Blocks : sc.sawFirst /\ ServeDoes(Continuation(c, s, end, block))
  <2>1. PICK end \in BOOLEAN, block \in Blocks : sc.sawFirst /\ ServeDoes(Continuation(c, s, end, block))
    BY <1>6
  <2>2. Does(c, Continuation(c, s, end, block))
    BY <1>2, ContinuationDoes
  <2>3. QED
    BY <1>2, <2>1, <2>2, Schedules, Zenon
<1>7. QED
  <2>1. CASE ProcessHeaders(s)
    BY <1>4, <1>5, <2>1, Zenon DEF ProcessHeaders, c
  <2>2. CASE ProcessContinuation(s)
    BY <1>4, <1>6, <2>2, Zenon DEF ProcessContinuation, c
  <2>3. QED
    BY <2>1, <2>2

\* What resets a stream, goes away or returns serves nobody.
LEMMA PlainStep ==
  ASSUME IInv, NEW c, Prepared(c), c.goAway = "wanted" => c.writing,
         \/ ServeDoes(c) \/ ServeDoes(GoAway(c)) \/ ServeDoes(Return(c))
         \/ \E s \in Streams : ServeDoes(ResetStream(c, s))
  PROVE  ServeStep
<1>1. ServeInv(c) /\ c \in ServerType
  BY DEF Prepared, ServeInv
<1>2. Does(c, c) /\ Does(c, GoAway(c)) /\ Does(c, Return(c))
  BY <1>1, DoesNothing, GoAwayDoes, ReturnDoes
<1>3. ~Serves(c, c) /\ ~Serves(c, GoAway(c)) /\ ~Serves(c, Return(c))
  <2>1. GoAway(c).handler = c.handler /\ Return(c).handler = c.handler
    BY <1>1 DEF ServerType, GoAway, Return
  <2>2. QED
    BY <1>1, <2>1, ServesNobody
<1>4. ASSUME NEW s \in Streams PROVE Does(c, ResetStream(c, s)) /\ ~Serves(c, ResetStream(c, s))
  <2>1. ResetStream(c, s).handler = c.handler
    BY <1>1 DEF ServerType, ResetStream, CloseStream
  <2>2. QED
    BY <1>1, <2>1, ResetStreamDoes, ServesNobody
<1>5. QED
  BY <1>1, <1>2, <1>3, <1>4, Schedules, Zenon

LEMMA OtherFrameStep ==
  ASSUME IInv, ProcessOther \/ (\E s \in Streams : ProcessResetStream(s))
  PROVE  ServeStep
<1>1. Loop
  BY DEF ProcessOther, ProcessResetStream, FrameFromReader
<1>2. Prepared(Heard(sc)) /\ (Heard(sc).goAway = "wanted" => Heard(sc).writing)
  BY <1>1, HeardPrepares
<1>3. \/ ServeDoes(Heard(sc)) \/ ServeDoes(GoAway(Heard(sc)))
      \/ \E s \in Streams : ServeDoes(ResetStream(Heard(sc), s))
  BY Zenon DEF ProcessOther, ProcessResetStream
<1>4. QED
  BY <1>2, <1>3, PlainStep, Zenon

LEMMA ReaderEndedStep ==
  ASSUME IInv, ReaderEnded
  PROVE  ServeStep
<1> DEFINE c == Heard([sc EXCEPT !.readCh = "nil"])
<1>1. Loop
  BY DEF ReaderEnded
<1>2. Prepared(c) /\ (c.goAway = "wanted" => c.writing)
  BY <1>1, EndedPrepares, Zenon
<1>3. \/ ServeDoes(Return(c)) \/ ServeDoes(GoAway(c))
      \/ \E s \in Streams : ServeDoes(ResetStream(c, s))
  BY Zenon DEF ReaderEnded
<1> HIDE DEF c
<1>4. QED
  BY <1>2, <1>3, PlainStep, Zenon

LEMMA WroteStep ==
  ASSUME IInv, Wrote
  PROVE  ServeStep
<1> DEFINE e == [sc EXCEPT !.wrote = FALSE]
<1> DEFINE c == [e EXCEPT !.writing = FALSE]
<1>1. sc \in ServerType /\ e \in ServerType /\ Loop /\ sc.wrote
  BY DEF IInv, TypeOK, ServerType, Wrote
<1>2. c \in ServerType /\ ServeDoes(c)
  <2>1. c = [sc EXCEPT !.wrote = FALSE, !.writing = FALSE]
    OBVIOUS
  <2>2. c \in ServerType
    <3> HIDE DEF e
    <3>1. QED
      BY <1>1 DEF ServerType
  <2>3. QED
    BY <2>1, <2>2, Zenon DEF Wrote
<1>3. /\ c.pc = sc.pc /\ c.handler = sc.handler /\ c.state = sc.state
      /\ c.curOpen = sc.curOpen /\ c.maxID = sc.maxID /\ c.pending = sc.pending
      /\ c.goAway = sc.goAway /\ c.announced = sc.announced
      /\ c.writing = FALSE /\ c.wrote = FALSE /\ c.sawFirst = sc.sawFirst
  BY <1>1 DEF ServerType
<1> HIDE DEF c
<1>4. ServeInv(c)
  BY <1>1, <1>2, <1>3, SameCounts DEF IInv, TypeOK, ServeInv
<1>5. Prepared(c)
  BY <1>1, <1>3, <1>4 DEF IInv, Prepared, Written
<1>6. Does(c, c) /\ ~Serves(c, c)
  BY <1>2, <1>4, DoesNothing, ServesNobody
<1>7. QED
  BY <1>2, <1>5, <1>6, Schedules, Zenon

\* Steps of serve, and to it, that say nothing of streams
LEMMA ServeUnmoved ==
  ASSUME IInv, sc' \in ServerType,
         sc'.handler = sc.handler, sc'.state = sc.state, sc'.curOpen = sc.curOpen,
         sc'.maxID = sc.maxID, sc'.pending = sc.pending, sc'.goAway = sc.goAway,
         sc'.announced = sc.announced, sc'.sawFirst = sc.sawFirst,
         \/ sc'.pc = sc.pc \/ sc'.pc \in {"released", "closing", "done"}
         \/ sc.pc = "start" /\ sc'.pc = "preface"
         \/ sc.pc = "preface" /\ sc'.pc = "loop",
         sc'.writing <=> (writer' # "none" \/ sc'.wrote),
         ~(writer' # "none" /\ sc'.wrote),
         sc.writing => sc'.writing, sc'.pc = "start" => ~sc'.writing,
         writer' \in {"none", "write", "goaway", "sleep", "wake"}
  PROVE  ServeStep
<1>1. ServeInv(sc')
  BY SameCounts DEF IInv, TypeOK, ServeInv
<1>2. Written' /\ GoAwayWaits' /\ Greeted'
  BY DEF IInv, Written, GoAwayWaits, Greeted
<1>3. [Promise!Next]_(Promise!vars)
  <2>1. CASE sc'.pc = sc.pc
    BY <2>1 DEF Promise!vars, Loop
  <2>2. CASE sc'.pc \in {"released", "closing", "done"}
    BY <2>2 DEF Promise!Next, Promise!Close, Loop
  <2>3. CASE sc.pc = "start" /\ sc'.pc = "preface"
    BY <2>3 DEF Promise!vars
  <2>4. CASE sc.pc = "preface" /\ sc'.pc = "loop"
    BY <2>4 DEF Promise!vars, Loop, IInv, Greeted
  <2>5. QED
    BY <2>1, <2>2, <2>3, <2>4
<1>4. QED
  BY <1>1, <1>2, <1>3 DEF ServeStep, ServePart

LEMMA ReturnStep ==
  ASSUME IInv, sc' = Return(sc), writer' = writer
  PROVE  ServeStep
<1>1. sc \in ServerType /\ sc' \in ServerType
  BY DEF IInv, TypeOK, ServerType, Return
<1>2. /\ sc'.handler = sc.handler /\ sc'.state = sc.state /\ sc'.curOpen = sc.curOpen
      /\ sc'.maxID = sc.maxID /\ sc'.pending = sc.pending /\ sc'.goAway = sc.goAway
      /\ sc'.announced = sc.announced /\ sc'.sawFirst = sc.sawFirst
      /\ sc'.writing = sc.writing /\ sc'.wrote = sc.wrote /\ sc'.pc = "released"
  BY <1>1 DEF ServerType, Return
<1>3. QED
  BY <1>1, <1>2, ServeUnmoved DEF IInv, TypeOK, Written

LEMMA ServeStartsStep ==
  ASSUME IInv, ServeStarts
  PROVE  ServeStep
<1> DEFINE e == [sc EXCEPT !.pc = "preface"]
<1> DEFINE f == [e EXCEPT !.writing = TRUE]
<1>1. sc \in ServerType /\ e \in ServerType /\ sc.pc = "start" /\ ~sc.writing /\ writer' = "write"
  BY DEF IInv, TypeOK, ServerType, ServeStarts, Greeted
<1>2. f \in ServerType
  <2> HIDE DEF e
  <2>1. QED
    BY <1>1 DEF ServerType
<1>3. sc' \in ServerType
  <2>1. sc' = [f EXCEPT !.unacked = 1]
    BY DEF ServeStarts
  <2> HIDE DEF f
  <2>2. QED
    BY <1>2, <2>1 DEF ServerType
<1>4. /\ sc'.handler = sc.handler /\ sc'.state = sc.state /\ sc'.curOpen = sc.curOpen
      /\ sc'.maxID = sc.maxID /\ sc'.pending = sc.pending /\ sc'.goAway = sc.goAway
      /\ sc'.announced = sc.announced /\ sc'.sawFirst = sc.sawFirst
      /\ sc'.writing = TRUE /\ sc'.wrote = sc.wrote /\ sc'.pc = "preface"
  BY <1>1 DEF ServerType, ServeStarts
<1>5. QED
  BY <1>1, <1>3, <1>4, ServeUnmoved DEF IInv, Written, ServerType

LEMMA PrefaceDoneStep ==
  ASSUME IInv, PrefaceDone
  PROVE  ServeStep
<1> DEFINE e == [sc EXCEPT !.pc = "loop"]
<1>1. sc \in ServerType /\ e \in ServerType /\ sc.pc = "preface" /\ writer' = writer
  BY DEF IInv, TypeOK, ServerType, PrefaceDone
<1>2. CASE sc' = Return(sc)
  BY <1>1, <1>2, ReturnStep
<1>3. CASE sc' = [sc EXCEPT !.pc = "loop", !.settings = "running"]
  <2>1. sc' \in ServerType
    <3>1. sc' = [e EXCEPT !.settings = "running"]
      BY <1>3
    <3> HIDE DEF e
    <3>2. QED
      BY <1>1, <3>1 DEF ServerType
  <2>2. /\ sc'.handler = sc.handler /\ sc'.state = sc.state /\ sc'.curOpen = sc.curOpen
        /\ sc'.maxID = sc.maxID /\ sc'.pending = sc.pending /\ sc'.goAway = sc.goAway
        /\ sc'.announced = sc.announced /\ sc'.sawFirst = sc.sawFirst
        /\ sc'.writing = sc.writing /\ sc'.wrote = sc.wrote /\ sc'.pc = "loop"
    BY <1>1, <1>3 DEF ServerType
  <2>3. QED
    BY <1>1, <2>1, <2>2, ServeUnmoved DEF IInv, TypeOK, Written
<1>4. QED
  BY <1>2, <1>3 DEF PrefaceDone

\* Steps that change one more field of sc, and the writer
LEMMA FieldSteps ==
  ASSUME IInv, RejectConn \/ ReadFails \/ StartFrame \/ CloseConn \/ Wake
  PROVE  ServeStep
<1>1. sc \in ServerType
  BY DEF IInv, TypeOK
<1>2. CASE RejectConn \/ CloseConn
  <2>1. sc' = [sc EXCEPT !.pc = "done"] /\ writer' = writer
    BY <1>2 DEF RejectConn, CloseConn
  <2>2. sc' \in ServerType
    BY <1>1, <2>1 DEF ServerType
  <2>3. /\ sc'.handler = sc.handler /\ sc'.state = sc.state /\ sc'.curOpen = sc.curOpen
        /\ sc'.maxID = sc.maxID /\ sc'.pending = sc.pending /\ sc'.goAway = sc.goAway
        /\ sc'.announced = sc.announced /\ sc'.sawFirst = sc.sawFirst
        /\ sc'.writing = sc.writing /\ sc'.wrote = sc.wrote /\ sc'.pc = "done"
    BY <1>1, <2>1 DEF ServerType
  <2>4. QED
    BY <2>1, <2>2, <2>3, ServeUnmoved DEF IInv, TypeOK, Written
<1>3. CASE ReadFails
  <2>1. PICK err \in {"gone", "streamError", "connError", "tooLarge", "other"} :
          sc' = [sc EXCEPT !.readCh = "closed", !.readErr = err]
    BY <1>3 DEF ReadFails, Fails
  <2> DEFINE e == [sc EXCEPT !.readCh = "closed"]
  <2>2. e \in ServerType /\ writer' = writer
    BY <1>1, <1>3 DEF ServerType, ReadFails, Fails
  <2>3. sc' \in ServerType
    <3>1. sc' = [e EXCEPT !.readErr = err]
      BY <2>1
    <3> HIDE DEF e
    <3>2. QED
      BY <2>2, <3>1 DEF ServerType
  <2>4. /\ sc'.handler = sc.handler /\ sc'.state = sc.state /\ sc'.curOpen = sc.curOpen
        /\ sc'.maxID = sc.maxID /\ sc'.pending = sc.pending /\ sc'.goAway = sc.goAway
        /\ sc'.announced = sc.announced /\ sc'.sawFirst = sc.sawFirst
        /\ sc'.writing = sc.writing /\ sc'.wrote = sc.wrote /\ sc'.pc = sc.pc
    BY <1>1, <2>1 DEF ServerType
  <2>5. QED
    BY <2>2, <2>3, <2>4, ServeUnmoved DEF IInv, TypeOK, Written, Greeted
<1>4. CASE StartFrame
  <2>1. sc' = [sc EXCEPT !.writing = TRUE] /\ writer' = "write" /\ sc.pc = "loop" /\ ~sc.writing
    BY <1>4 DEF StartFrame, Loop
  <2>2. sc' \in ServerType
    BY <1>1, <2>1 DEF ServerType
  <2>3. /\ sc'.handler = sc.handler /\ sc'.state = sc.state /\ sc'.curOpen = sc.curOpen
        /\ sc'.maxID = sc.maxID /\ sc'.pending = sc.pending /\ sc'.goAway = sc.goAway
        /\ sc'.announced = sc.announced /\ sc'.sawFirst = sc.sawFirst
        /\ sc'.writing = TRUE /\ sc'.wrote = sc.wrote /\ sc'.pc = "loop"
    BY <1>1, <2>1 DEF ServerType
  <2>4. QED
    BY <1>1, <2>1, <2>2, <2>3, ServeUnmoved DEF IInv, Written, ServerType
<1>5. CASE Wake
  <2>1. sc' = [sc EXCEPT !.wrote = TRUE] /\ writer' = "none" /\ writer = "wake"
    BY <1>5 DEF Wake
  <2>2. sc' \in ServerType
    BY <1>1, <2>1 DEF ServerType
  <2>3. /\ sc'.handler = sc.handler /\ sc'.state = sc.state /\ sc'.curOpen = sc.curOpen
        /\ sc'.maxID = sc.maxID /\ sc'.pending = sc.pending /\ sc'.goAway = sc.goAway
        /\ sc'.announced = sc.announced /\ sc'.sawFirst = sc.sawFirst
        /\ sc'.writing = sc.writing /\ sc'.wrote = TRUE /\ sc'.pc = sc.pc
    BY <1>1, <2>1 DEF ServerType
  <2>4. QED
    BY <1>1, <2>1, <2>2, <2>3, ServeUnmoved DEF IInv, Written, Greeted, ServerType
<1>6. QED
  BY <1>2, <1>3, <1>4, <1>5

\* Steps of others, which leave sc alone
LEMMA OtherSteps ==
  ASSUME IInv, sc' = sc, writer' = "none" <=> writer = "none",
         writer' \in {"none", "write", "goaway", "sleep", "wake"}
  PROVE  ServeStep
<1>1. sc \in ServerType
  BY DEF IInv, TypeOK
<1>2. QED
  BY <1>1, ServeUnmoved DEF IInv, Written, Greeted, ServerType

LEMMA EndStreamStep ==
  ASSUME IInv, NEW s \in Streams, EndStream(s)
  PROVE  ServeStep
<1> DEFINE c == CloseStream(sc, s)
<1>1. /\ ServeInv(sc) /\ sc \in ServerType /\ s \in Open(sc)
      /\ sc.pc = "loop" /\ sc.goAway = "no" /\ ~sc.writing
      /\ sc' = [c EXCEPT !.writing = TRUE] /\ writer' = "write"
  BY DEF IInv, TypeOK, ServeInv, EndStream, Loop
<1>2. Does(sc, c)
  BY <1>1, CloseStreamDoes
<1>3. /\ c \in ServerType /\ ServeInv(c) /\ c.handler = sc.handler
      /\ c.announced = sc.announced /\ c.sawFirst = sc.sawFirst /\ c.wrote = sc.wrote
      /\ c.goAway = sc.goAway /\ c.pc = sc.pc
  <2>1. ServeInv(c) /\ c \in ServerType
    BY <1>2 DEF Does, ServeInv
  <2>2. QED
    BY <1>1, <2>1 DEF CloseStream, ServerType
<1> HIDE DEF c
<1>4. /\ sc' \in ServerType
      /\ sc'.handler = c.handler /\ sc'.state = c.state /\ sc'.curOpen = c.curOpen
      /\ sc'.maxID = c.maxID /\ sc'.pending = c.pending /\ sc'.goAway = c.goAway
      /\ sc'.announced = c.announced /\ sc'.sawFirst = c.sawFirst
      /\ sc'.writing = TRUE /\ sc'.wrote = c.wrote /\ sc'.pc = c.pc
  BY <1>1, <1>3 DEF ServerType
<1>5. ServeInv(sc')
  BY <1>3, <1>4, SameCounts
<1>6. Written' /\ GoAwayWaits' /\ Greeted'
  BY <1>1, <1>3, <1>4 DEF IInv, Written, GoAwayWaits, Greeted, ServerType
<1>7. UNCHANGED Promise!vars
  BY <1>1, <1>3, <1>4 DEF Promise!vars, Loop
<1>8. QED
  BY <1>1, <1>5, <1>6, <1>7 DEF ServeStep, ServePart

LEMMA CloseStreamsStep ==
  ASSUME IInv, CloseStreams
  PROVE  ServeStep
<1> DEFINE st == [s \in Streams |-> IF s \in Open(sc) THEN "closed" ELSE sc.state[s]]
<1> DEFINE n == sc.curOpen - Cardinality(Open(sc))
<1> DEFINE e == [sc EXCEPT !.pc = "closing"]
<1> DEFINE f == [e EXCEPT !.shutdown = "off"]
<1> DEFINE g == [f EXCEPT !.state = st]
<1>1. sc \in ServerType /\ Counted(sc) /\ Named(sc) /\ sc.pc = "released" /\ writer' = writer
  BY DEF IInv, TypeOK, CloseStreams
<1>2. n = 0
  BY <1>1, OpenFinite DEF Counted
<1>3. st \in [Streams -> {"idle", "open", "closed"}]
  BY <1>1 DEF ServerType
<1>4. sc' = [g EXCEPT !.curOpen = n]
  BY <1>1 DEF CloseStreams, ServerType
<1>5. e \in ServerType
  BY <1>1 DEF ServerType
<1>6. f \in ServerType
  <2> HIDE DEF e
  <2>1. QED
    BY <1>5 DEF ServerType
<1>7. g \in ServerType
  <2> HIDE DEF f, st
  <2>1. QED
    BY <1>3, <1>6 DEF ServerType
<1>8. sc' \in ServerType
  <2> HIDE DEF g, n
  <2>1. QED
    BY <1>2, <1>4, <1>7 DEF ServerType
<1>9. /\ sc'.handler = sc.handler /\ sc'.state = st /\ sc'.curOpen = 0
      /\ sc'.maxID = sc.maxID /\ sc'.pending = sc.pending /\ sc'.goAway = sc.goAway
      /\ sc'.announced = sc.announced /\ sc'.sawFirst = sc.sawFirst
      /\ sc'.writing = sc.writing /\ sc'.wrote = sc.wrote /\ sc'.pc = "closing"
  <2> HIDE DEF st, n
  <2>1. QED
    BY <1>1, <1>2, <1>4 DEF ServerType
<1>10. Open(sc') = {} /\ (\A s \in Streams : sc'.state[s] # "open")
  BY <1>9 DEF Open
<1> HIDE DEF g, st, n
<1>11. Counted(sc')
  <2>1. sc'.curOpen = Cardinality(Open(sc'))
    BY <1>9, <1>10, FS_EmptySet
  <2>2. QED
    BY <1>1, <1>9, <1>10, <2>1, LimitsAssumption DEF Counted
<1>12. Named(sc')
  BY <1>1, <1>9 DEF Named
<1>13. Written' /\ GoAwayWaits' /\ Greeted'
  BY <1>1, <1>9 DEF IInv, Written, GoAwayWaits, Greeted
<1>14. UNCHANGED Promise!vars
  BY <1>1, <1>9 DEF Promise!vars, Loop
<1>15. QED
  BY <1>1, <1>8, <1>11, <1>12, <1>13, <1>14 DEF IInv, TypeOK, ServeStep, ServePart, ServeInv

LEMMA HandlerReturnsStep ==
  ASSUME IInv, NEW s \in Streams, HandlerReturns(s)
  PROVE  ServeStep
<1> DEFINE h == [sc.handler EXCEPT ![s] = "returned"]
<1>1. /\ sc \in ServerType /\ Counted(sc) /\ Named(sc) /\ writer' = writer
      /\ sc.handler[s] = "running"
  BY DEF IInv, TypeOK, HandlerReturns
<1>2. h \in [Streams -> {"none", "running", "returned"}]
  BY <1>1 DEF ServerType
<1>3. sc' = [sc EXCEPT !.handler = h]
  BY <1>1 DEF HandlerReturns, ServerType
<1>4. \A t \in Streams : h[t] = "none" <=> sc.handler[t] = "none"
  BY <1>1 DEF ServerType
<1> HIDE DEF h
<1>5. /\ sc' \in ServerType
      /\ sc'.handler = h /\ sc'.state = sc.state /\ sc'.curOpen = sc.curOpen
      /\ sc'.maxID = sc.maxID /\ sc'.pending = sc.pending /\ sc'.goAway = sc.goAway
      /\ sc'.announced = sc.announced /\ sc'.sawFirst = sc.sawFirst
      /\ sc'.writing = sc.writing /\ sc'.wrote = sc.wrote /\ sc'.pc = sc.pc
  BY <1>1, <1>2, <1>3 DEF ServerType
<1>6. Open(sc') = Open(sc)
  BY <1>5 DEF Open
<1>7. Counted(sc')
  <2>1. \A t \in Open(sc') : sc'.handler[t] # "none" \/ t = sc'.pending
    BY <1>1, <1>4, <1>5, <1>6 DEF Counted, Open
  <2>2. \A t \in Streams : t > sc'.maxID => sc'.state[t] # "open" /\ sc'.handler[t] = "none"
    BY <1>1, <1>4, <1>5 DEF Counted
  <2>3. sc'.pending # NoStream => sc'.pending = sc'.maxID /\ sc'.handler[sc'.pending] = "none"
    BY <1>1, <1>4, <1>5 DEF Counted, ServerType
  <2>4. QED
    BY <1>1, <1>5, <1>6, <2>1, <2>2, <2>3 DEF Counted
<1>8. Named(sc')
  BY <1>1, <1>5 DEF Named
<1>9. Written' /\ GoAwayWaits' /\ Greeted'
  BY <1>1, <1>5 DEF IInv, Written, GoAwayWaits, Greeted
<1>10. UNCHANGED Promise!vars
  BY <1>1, <1>4, <1>5 DEF Promise!vars, Loop
<1>11. QED
  BY <1>1, <1>5, <1>7, <1>8, <1>9, <1>10 DEF IInv, TypeOK, ServeStep, ServePart, ServeInv

---------------------------------------------------------------------------
(* Theorems *)

\* The goroutines and the connection keep their types.
LEMMA OthersTyped ==
  ASSUME TypeOK, Next
  PROVE  /\ preface' \in {"none", "reading", "good", "bad"}
         /\ reader' \in {"none", "read", "send", "ended"}
         /\ conn' \in {"open", "closed"}
         /\ gone' \in BOOLEAN
<1>1. CASE Frame \/ ReaderEnded \/ Wrote \/ SettingsTimeout \/ ShutdownTimeout \/ Deferred
  BY <1>1 DEF TypeOK, Frame, ProcessSettings, ProcessSettingsAck, ProcessHeaders,
     ProcessContinuation, ProcessResetStream, ProcessOther, FrameFromReader, ReaderEnded,
     Wrote, SettingsTimeout, ShutdownTimeout, Deferred, CloseStreams, CloseConn
<1>2. CASE RejectConn \/ ServeStarts \/ PrefaceRead \/ PrefaceDone \/ PrefaceTimeout
           \/ ReadFrame \/ ReadFails
  BY <1>2 DEF TypeOK, RejectConn, ServeStarts, PrefaceRead, PrefaceDone, PrefaceTimeout,
     ReadFrame, ReadFails, Fails
<1>3. CASE StartFrame \/ (\E s \in Streams : EndStream(s) \/ HandlerReturns(s))
           \/ Writes \/ GoAwaySlept \/ Wake \/ ClientLeaves
  BY <1>3 DEF TypeOK, StartFrame, EndStream, HandlerReturns, Writes, WriteFrame, WriteGoAway,
     GoAwaySlept, Wake, ClientLeaves
<1>4. QED
  BY <1>1, <1>2, <1>3, Zenon DEF Next

LEMMA Steps ==
  ASSUME IInv, Next
  PROVE  ServeStep
<1>1. CASE Frame
  BY <1>1, SettingsStep, HeadersStep, OtherFrameStep, Zenon DEF Frame
<1>2. CASE ReaderEnded \/ Wrote
  BY <1>2, ReaderEndedStep, WroteStep
<1>3. CASE SettingsTimeout \/ ShutdownTimeout \/ PrefaceTimeout
  BY <1>3, ReturnStep DEF SettingsTimeout, ShutdownTimeout, PrefaceTimeout
<1>4. CASE ServeStarts \/ PrefaceDone
  BY <1>4, ServeStartsStep, PrefaceDoneStep
<1>5. CASE RejectConn \/ ReadFails \/ StartFrame \/ CloseConn \/ Wake
  BY <1>5, FieldSteps
<1>6. CASE PrefaceRead \/ ReadFrame \/ Writes \/ GoAwaySlept \/ ClientLeaves
  BY <1>6, OtherSteps DEF PrefaceRead, ReadFrame, Writes, WriteFrame, WriteGoAway, GoAwaySlept,
     ClientLeaves, IInv, TypeOK
<1>7. CASE CloseStreams
  BY <1>7, CloseStreamsStep
<1>8. CASE \E s \in Streams : EndStream(s) \/ HandlerReturns(s)
  BY <1>8, EndStreamStep, HandlerReturnsStep
<1>9. QED
  BY <1>1, <1>2, <1>3, <1>4, <1>5, <1>6, <1>7, <1>8, Zenon DEF Next, Deferred

LEMMA InitHolds ==
  ASSUME Init
  PROVE  IInv /\ Promise!Init
<1>1. sc = NewConn /\ sc \in ServerType
  BY DEF Init, NewConn, ServerType, Unannounced, NoStream
<1>2. /\ sc.handler = [s \in Streams |-> "none"] /\ sc.state = [s \in Streams |-> "idle"]
      /\ sc.curOpen = 0 /\ sc.maxID = 0 /\ sc.pending = NoStream /\ sc.goAway = "no"
      /\ sc.announced = Unannounced /\ sc.sawFirst = FALSE /\ sc.writing = FALSE
      /\ sc.wrote = FALSE /\ sc.pc = "start"
  BY <1>1 DEF NewConn
<1>3. Open(sc) = {}
  BY <1>2 DEF Open
<1>4. Counted(sc)
  <2>1. sc.curOpen = Cardinality(Open(sc))
    BY <1>2, <1>3, FS_EmptySet
  <2>2. QED
    BY <1>2, <1>3, <2>1, LimitsAssumption DEF Counted
<1>5. Named(sc)
  BY <1>2 DEF Named
<1>6. TypeOK
  BY <1>1 DEF Init, TypeOK
<1>7. Written /\ GoAwayWaits /\ Greeted
  BY <1>2 DEF Init, Written, GoAwayWaits, Greeted
<1>8. Promise!Init
  BY <1>2 DEF Promise!Init, Promise!Unannounced, Unannounced
<1>9. QED
  BY <1>4, <1>5, <1>6, <1>7, <1>8 DEF IInv

LEMMA StepHolds ==
  ASSUME IInv, [Next]_vars
  PROVE  IInv' /\ [Promise!Next]_(Promise!vars)
<1>1. CASE Next
  BY <1>1, Steps, OthersTyped DEF ServeStep, ServePart, ServeInv, IInv, TypeOK
<1>2. CASE UNCHANGED vars
  <2>1. IInv'
    BY <1>2 DEF vars, IInv, TypeOK, Counted, Named, Open, Written, GoAwayWaits, Greeted
  <2>2. UNCHANGED Promise!vars
    BY <1>2 DEF vars, Promise!vars, Loop
  <2>3. QED
    BY <2>1, <2>2
<1>3. QED
  BY <1>1, <1>2

\* What the theorems below rest on: serve, its counter and its writer agree.
THEOREM Invariant == Spec => []IInv
<1>1. Init => IInv
  BY InitHolds
<1>2. IInv /\ [Next]_vars => IInv'
  BY StepHolds
<1>3. QED
  BY <1>1, <1>2, PTL DEF Spec

\* Every variable keeps its type; in particular serve counts the acknowledgements of
\* its SETTINGS (processSettings) and its streams (closeStream) without going below zero.
THEOREM TypeCorrect == Spec => []TypeOK
<1>1. IInv => TypeOK
  BY DEF IInv
<1>2. QED
  BY <1>1, Invariant, PTL

\* The counter of processHeaders and closeStream is the number of open streams, and
\* keeps the requests that are served to the limit in SETTINGS.
THEOREM LimitHolds == Spec => []LimitKept
<1>1. ASSUME IInv PROVE LimitKept
  <2>1. /\ sc.curOpen = Cardinality(Open(sc)) /\ sc.curOpen <= AdvMaxStreams + 1
        /\ \A s \in Open(sc) : sc.handler[s] # "none" \/ s = sc.pending
    BY <1>1 DEF IInv, Counted
  <2> DEFINE S == {s \in Open(sc) : sc.handler[s] # "none"}
  <2>2. IsFiniteSet(Open(sc)) /\ S \in SUBSET Open(sc) /\ Cardinality(Open(sc)) \in Nat
    BY OpenFinite
  <2>3. Cardinality(S) <= AdvMaxStreams /\ Cardinality(S) \in Nat
    <3>1. CASE sc.pending \notin Open(sc)
      <4>1. sc.curOpen <= AdvMaxStreams
        BY <1>1, <3>1 DEF IInv, Counted
      <4>2. Cardinality(S) <= Cardinality(Open(sc)) /\ IsFiniteSet(S)
        BY <2>2, FS_Subset
      <4>3. Cardinality(S) \in Nat
        BY <4>2, FS_CardinalityType
      <4> HIDE DEF S
      <4>4. QED
        BY <2>1, <2>2, <4>1, <4>2, <4>3, LimitsAssumption
    <3>2. CASE sc.pending \in Open(sc)
      <4> DEFINE R == Open(sc) \ {sc.pending}
      <4>1. sc.handler[sc.pending] = "none"
        BY <1>1, <3>2, LimitsAssumption DEF IInv, Counted, Open, Streams, NoStream
      <4>2. S \in SUBSET R
        BY <4>1
      <4>3. IsFiniteSet(R) /\ Cardinality(R) = Cardinality(Open(sc)) - 1
        BY <2>2, <3>2, FS_RemoveElement
      <4>4. Cardinality(S) <= Cardinality(R) /\ IsFiniteSet(S)
        BY <4>2, <4>3, FS_Subset
      <4>5. Cardinality(S) \in Nat
        BY <4>4, FS_CardinalityType
      <4> HIDE DEF S, R
      <4>6. QED
        BY <2>1, <2>2, <4>3, <4>4, <4>5, LimitsAssumption
    <3>3. QED
      BY <3>1, <3>2
  <2>4. QED
    BY <2>1, <2>3 DEF LimitKept
<1>2. QED
  BY <1>1, Invariant, PTL

\* A GOAWAY that serve decided upon (goAway) is never forgotten.
THEOREM GoAwayIsSent == Spec => []GoAwayFollows
<1>1. IInv => GoAwayFollows
  BY DEF IInv, GoAwayWaits, Written, GoAwayFollows
<1>2. QED
  BY <1>1, Invariant, PTL

\* The connection implements what Http2Connection promises: requests in the order of
\* their streams, and none after the one that GOAWAY names.
THEOREM PromiseKept == Spec => KeepsPromise
<1>1. Init => Promise!Init
  BY InitHolds
<1>2. IInv /\ [Next]_vars => [Promise!Next]_(Promise!vars)
  BY StepHolds
<1>3. QED
  BY <1>1, <1>2, Invariant, PTL DEF Spec, KeepsPromise, Promise!Spec
=============================================================================
