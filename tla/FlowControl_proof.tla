------------------------- MODULE FlowControl_proof -------------------------
(***************************************************************************)
(* The send windows never wrap, for every width of the integers, every     *)
(* number of streams and every frame size: FlowControl implements the      *)
(* exact windows of Http2Windows.                                          *)
(*                                                                         *)
(* The danger is flow.add on a window below zero: the room it computes     *)
(* wraps, and a shrinking large enough would pass its test and turn a      *)
(* negative window into a huge one.  NoOverdraft is what excludes that:    *)
(* a window below zero is within MaxWindow of the initial size, so no      *)
(* shrinking can be that large, and every other add to it is refused.      *)
(***************************************************************************)
EXTENDS FlowControl, TLAPS

\* How late a handler's DATA may come: a stream that was closed under its
\* handler has one frame to come, queued or skipped, or none.
LateFrames ==
  \A s \in Streams :
    /\ stage[s] = "open" => s \in handlers
    /\ s \in handlers => /\ stage[s] \in {"open", "reset", "refused"} /\ lost[s] = 0
                         /\ stage[s] = "open" \/ queue[s] = 0
    /\ stage[s] = "idle" => lost[s] = 0
    /\ stage[s] \in {"idle", "ended"} => queue[s] = 0
    /\ queue[s] + lost[s] <= MaxData

IInv == TypeOK /\ NoOverdraft /\ LateFrames

\* On a window that is not negative flow.add is exact: it refuses what would
\* exceed the maximum and adds anything else.
LEMMA AddExact ==
  ASSUME NEW w \in 0..MaxWindow, NEW n \in -MaxWindow..MaxWindow
  PROVE  /\ AddOK(w, n) <=> w + n <= MaxWindow
         /\ AddOK(w, n) => Added(w, n) = w + n
  BY SizesAssumption DEF AddOK, Added, Wrap, Modulus

\* On a negative window it refuses everything that can be asked of it.
LEMMA AddRefusesBelowZero ==
  ASSUME NEW w \in -MaxWindow..(-1), NEW n \in -MaxWindow..MaxWindow,
         n >= -MaxWindow - w - 1
  PROVE  ~AddOK(w, n)
  BY SizesAssumption DEF AddOK, Wrap, Modulus

\* The changes of the initial size that can reach a window below zero
LEMMA ShrinkingRefused ==
  ASSUME TypeOK, NoOverdraft, ~dead, NEW s \in Open, win[s] < 0, NEW val \in Sizes
  PROVE  ~AddOK(win[s], Wrap(val - initial))
<1>1. /\ win[s] \in Int /\ initial \in 0..MaxWindow /\ val \in 0..MaxWindow
      /\ initial - win[s] <= MaxWindow
  BY SizesAssumption DEF TypeOK, NoOverdraft, Open, Sizes
<1>2. Wrap(val - initial) = val - initial
  BY <1>1, SizesAssumption DEF Wrap, Modulus
<1>3. /\ win[s] \in -MaxWindow..(-1)
      /\ val - initial \in -MaxWindow..MaxWindow
      /\ val - initial >= -MaxWindow - win[s] - 1
  BY <1>1, SizesAssumption
<1>4. QED
  BY <1>2, <1>3, AddRefusesBelowZero

\* What a change of the initial size does to the windows it reaches
LEMMA Grows ==
  ASSUME TypeOK, NoOverdraft, ~dead, NEW s \in Open, NEW val \in Sizes,
         AddOK(win[s], Wrap(val - initial))
  PROVE  LET new == Added(win[s], Wrap(val - initial)) IN
         /\ new = win[s] + (val - initial)
         /\ new \in -MaxWindow..MaxWindow
         /\ new < 0 => val - new <= MaxWindow
<1>1. win[s] >= 0
  BY ShrinkingRefused DEF TypeOK, Open
<1>2. win[s] \in 0..MaxWindow /\ initial \in 0..MaxWindow /\ val \in 0..MaxWindow
  BY <1>1, SizesAssumption DEF TypeOK, Open, Sizes
<1>3. Wrap(val - initial) = val - initial
  BY <1>2, SizesAssumption DEF Wrap, Modulus
<1>4. val - initial \in -MaxWindow..MaxWindow
  BY <1>2, SizesAssumption
<1>5. QED
  BY <1>2, <1>3, <1>4, AddExact, SizesAssumption

\* What an increment does to a window
LEMMA IncrementFits ==
  ASSUME TypeOK, NoOverdraft, ~dead, NEW s \in Open, NEW n \in Increments,
         AddOK(win[s], n)
  PROVE  win[s] >= 0 /\ win[s] + n <= MaxWindow /\ Added(win[s], n) = win[s] + n
<1>1. win[s] \in -(MaxWindow + 1)..MaxWindow /\ n \in 1..MaxWindow
  BY DEF TypeOK, Open, Increments
<1>2. win[s] < 0 => win[s] \in -MaxWindow..(-1)
  BY <1>1, SizesAssumption DEF NoOverdraft, TypeOK, Sizes
<1>3. win[s] >= 0
  BY <1>1, <1>2, AddRefusesBelowZero, SizesAssumption
<1>4. QED
  BY <1>1, <1>3, AddExact, SizesAssumption

\* A frame is paid for with no more than either window and the frame have.
LEMMA Payment ==
  ASSUME TypeOK, NEW s \in Streams, Pay(s)
  PROVE  /\ Writable(s) \in 1..MaxWindow
         /\ Writable(s) <= win[s] /\ Writable(s) <= conn /\ Writable(s) <= queue[s]
<1>1. Writable(s) > 0 /\ win[s] \in Int /\ conn \in Int /\ queue[s] \in Int
  BY DEF Pay, TypeOK
<1>2. /\ Writable(s) \in Int
      /\ Writable(s) <= win[s] /\ Writable(s) <= conn /\ Writable(s) <= queue[s]
  BY <1>1, SizesAssumption DEF Writable, Available, Smaller
<1>3. conn <= MaxWindow
  BY DEF TypeOK
<1>4. QED
  BY <1>1, <1>2, <1>3, SizesAssumption

LEMMA InitIInv == Init => IInv
<1> SUFFICES ASSUME Init PROVE IInv
  OBVIOUS
<1>1. TypeOK
  <2>1. /\ Default \in 0..MaxWindow /\ 0 \in 0..MaxData
        /\ Default \in -(MaxWindow + 1)..MaxWindow
        /\ 0 \in -(MaxWindow + 1)..MaxWindow
    BY SizesAssumption
  <2>2. QED
    BY <2>1 DEF Init, TypeOK, Sizes
<1>2. NoOverdraft
  BY SizesAssumption DEF Init, NoOverdraft, Open
<1>3. LateFrames
  <2>1. 0 + 0 <= MaxData
    BY SizesAssumption
  <2>2. ASSUME NEW s \in Streams
        PROVE  stage[s] = "idle" /\ queue[s] = 0 /\ lost[s] = 0 /\ s \notin handlers
    BY DEF Init
  <2>3. QED
    BY <2>1, <2>2 DEF LateFrames
<1>4. QED
  BY <1>1, <1>2, <1>3 DEF IInv

LEMMA NextIInv == IInv /\ [Next]_vars => IInv'
<1> SUFFICES ASSUME IInv, [Next]_vars PROVE IInv'
  OBVIOUS
<1> USE SizesAssumption
<1> DEFINE Range == -(MaxWindow + 1)..MaxWindow
<1>1. TypeOK /\ NoOverdraft /\ LateFrames
  BY DEF IInv
<1>2. ASSUME NEW s \in Streams, ProcessHeaders(s) PROVE IInv'
  <2>1. 0 \in 0..MaxWindow /\ initial \in -MaxWindow..MaxWindow /\ initial >= 0
    BY <1>1 DEF TypeOK, Sizes
  <2>2. AddOK(0, initial) /\ Added(0, initial) = initial
    BY <2>1, AddExact
  <2>3. /\ win' = [win EXCEPT ![s] = initial] /\ stage' = [stage EXCEPT ![s] = "open"]
        /\ handlers' = handlers \cup {s} /\ stage[s] = "idle"
        /\ UNCHANGED <<initial, conn, dead, queue, lost>>
    BY <1>2, <2>2 DEF ProcessHeaders
  <2>4. TypeOK'
    BY <1>1, <2>1, <2>3 DEF TypeOK, Sizes
  <2>5. NoOverdraft'
    BY <1>1, <2>1, <2>3 DEF TypeOK, NoOverdraft, Open
  <2>6. LateFrames'
    BY <1>1, <2>3 DEF TypeOK, LateFrames
  <2>7. QED
    BY <2>4, <2>5, <2>6 DEF IInv
<1>3. ASSUME NEW s \in Streams, Pay(s), TakeFrom(s) \/ SkipFrom(s) PROVE IInv'
  <2> DEFINE n == Writable(s)
  <2>1. n \in 1..MaxWindow /\ n <= win[s] /\ n <= conn /\ n <= queue[s]
    BY <1>1, <1>3, Payment
  <2>2. /\ win' = [win EXCEPT ![s] = @ - n] /\ conn' = conn - n
        /\ queue' = [queue EXCEPT ![s] = @ - n] /\ UNCHANGED <<initial, dead>>
    BY <1>3 DEF Pay
  <2>3. \/ /\ stage[s] = "open" /\ UNCHANGED lost
           /\ \/ UNCHANGED <<stage, handlers>>
              \/ /\ queue[s] = n
                 /\ stage' = [stage EXCEPT ![s] = "ended"] /\ handlers' = handlers \ {s}
        \/ /\ stage[s] # "open" /\ lost' = [lost EXCEPT ![s] = @ + n]
           /\ UNCHANGED <<stage, handlers>>
    BY <1>3 DEF TakeFrom, SkipFrom, Finish
  <2> HIDE DEF n
  <2>4. /\ win[s] - n \in 0..MaxWindow /\ conn - n \in 0..MaxWindow
        /\ queue[s] - n \in 0..MaxData
        /\ queue[s] \in 0..MaxData /\ lost[s] \in 0..MaxData
        /\ lost[s] + n \in Nat
    BY <1>1, <2>1 DEF TypeOK
  <2>5. queue[s] > 0
    BY <2>1, <2>4
  <2>6. stage[s] # "open" => lost[s] + n \in 0..MaxData
    BY <1>1, <2>1, <2>4 DEF LateFrames
  <2>7. TypeOK'
    BY <1>1, <2>2, <2>3, <2>4, <2>6 DEF TypeOK
  <2>8. NoOverdraft'
    BY <1>1, <2>2, <2>3, <2>4 DEF TypeOK, NoOverdraft, Open
  <2>9. LateFrames'
    <3>1. ASSUME NEW t \in Streams, t # s
          PROVE  /\ stage'[t] = stage[t] /\ queue'[t] = queue[t] /\ lost'[t] = lost[t]
                 /\ t \in handlers' <=> t \in handlers
      BY <1>1, <2>2, <2>3, <3>1 DEF TypeOK
    <3>2. CASE stage[s] = "open" /\ UNCHANGED <<stage, handlers, lost>>
      <4>1. queue'[s] + lost'[s] <= MaxData
        BY <1>1, <2>1, <2>2, <2>4, <3>2 DEF TypeOK, LateFrames
      <4>2. QED
        BY <1>1, <3>1, <3>2, <4>1 DEF LateFrames
    <3>3. CASE stage[s] = "open" /\ queue[s] = n /\ UNCHANGED lost
               /\ stage' = [stage EXCEPT ![s] = "ended"] /\ handlers' = handlers \ {s}
      <4>1. queue'[s] = 0 /\ stage'[s] = "ended" /\ s \notin handlers'
        BY <1>1, <2>2, <2>4, <3>3 DEF TypeOK
      <4>2. lost'[s] \in 0..MaxData
        BY <2>4, <3>3
      <4>3. QED
        BY <1>1, <3>1, <4>1, <4>2 DEF LateFrames
    <3>4. CASE stage[s] # "open" /\ lost' = [lost EXCEPT ![s] = @ + n]
               /\ UNCHANGED <<stage, handlers>>
      <4>1. s \notin handlers /\ stage[s] \notin {"idle", "ended"}
        BY <1>1, <2>5, <3>4 DEF LateFrames
      <4>2. queue'[s] + lost'[s] = queue[s] + lost[s]
        BY <1>1, <2>1, <2>2, <2>4, <3>4 DEF TypeOK
      <4>3. QED
        BY <1>1, <3>1, <3>4, <4>1, <4>2 DEF LateFrames
    <3>5. QED
      BY <2>3, <3>2, <3>3, <3>4
  <2>10. QED
    BY <2>7, <2>8, <2>9 DEF IInv
<1>4. ASSUME NEW s \in Streams, NEW how \in {"reset", "refused"}, stage[s] = "open",
             CloseStream(s, how), UNCHANGED <<initial, conn, win, dead, lost>>
      PROVE  IInv'
  <2>1. TypeOK'
    BY <1>1, <1>4 DEF CloseStream, TypeOK
  <2>2. NoOverdraft'
    BY <1>1, <1>4 DEF CloseStream, TypeOK, NoOverdraft, Open
  <2>3. lost[s] = 0 /\ queue[s] \in 0..MaxData
    BY <1>1, <1>4 DEF TypeOK, LateFrames
  <2>4. LateFrames'
    BY <1>1, <1>4, <2>3 DEF CloseStream, TypeOK, LateFrames
  <2>5. QED
    BY <2>1, <2>2, <2>4 DEF IInv
<1>5. ASSUME NEW s \in Streams, NEW n \in Increments, WindowUpdate(s, n)
      PROVE  IInv'
  <2>1. CASE AddOK(win[s], n)
    <3>1. s \in Open /\ ~dead
      BY <1>5 DEF WindowUpdate, Open
    <3>2. win[s] >= 0 /\ win[s] + n <= MaxWindow /\ Added(win[s], n) = win[s] + n
      BY <1>1, <2>1, <3>1, IncrementFits
    <3>3. /\ win' = [win EXCEPT ![s] = win[s] + n]
          /\ UNCHANGED <<stage, queue, handlers, initial, conn, dead, lost>>
      BY <1>5, <2>1, <3>2 DEF WindowUpdate
    <3>4. win[s] + n \in 0..MaxWindow
      BY <1>1, <3>1, <3>2 DEF TypeOK, Open, Increments
    <3>5. QED
      BY <1>1, <3>3, <3>4 DEF IInv, TypeOK, NoOverdraft, Open, LateFrames
  <2>2. CASE ~AddOK(win[s], n)
    BY <1>4, <1>5, <2>2 DEF WindowUpdate
  <2>3. QED
    BY <2>1, <2>2
<1>6. ASSUME NEW s \in Streams, NEW n \in 1..MaxData, QueueData(s, n) PROVE IInv'
  <2>1. /\ queue' = [queue EXCEPT ![s] = n] /\ queue[s] = 0 /\ s \in handlers
        /\ UNCHANGED <<stage, initial, conn, win, dead, lost>>
        /\ handlers' = IF stage[s] = "open" THEN handlers ELSE handlers \ {s}
    BY <1>6 DEF QueueData
  <2>2. TypeOK'
    BY <1>1, <2>1 DEF TypeOK
  <2>3. NoOverdraft'
    BY <1>1, <2>1 DEF NoOverdraft, Open
  <2>4. lost[s] = 0 /\ queue'[s] + lost'[s] <= MaxData
    BY <1>1, <2>1 DEF TypeOK, LateFrames
  <2>5. LateFrames'
    BY <1>1, <2>1, <2>4 DEF TypeOK, LateFrames
  <2>6. QED
    BY <2>2, <2>3, <2>5 DEF IInv
<1>7. ASSUME NEW n \in Increments, ConnWindowUpdate(n) PROVE IInv'
  <2>1. conn \in 0..MaxWindow /\ n \in -MaxWindow..MaxWindow /\ n > 0
    BY <1>1, <1>7 DEF TypeOK, NoOverdraft, Increments, ConnWindowUpdate
  <2>2. AddOK(conn, n) => conn + n <= MaxWindow /\ Added(conn, n) = conn + n
    BY <2>1, AddExact
  <2>3. conn' \in 0..MaxWindow
    BY <1>7, <2>1, <2>2 DEF ConnWindowUpdate
  <2>4. /\ UNCHANGED <<stage, initial, win, queue, handlers, lost>>
        /\ ~dead /\ dead' \in BOOLEAN
    BY <1>1, <1>7 DEF ConnWindowUpdate, TypeOK
  <2>5. TypeOK'
    <3>1. conn' \in -(MaxWindow + 1)..MaxWindow
      BY <2>3
    <3>2. QED
      BY <1>1, <2>4, <3>1 DEF TypeOK
  <2>6. NoOverdraft'
    BY <1>1, <2>3, <2>4 DEF NoOverdraft, Open
  <2>7. LateFrames'
    BY <1>1, <2>4 DEF LateFrames
  <2>8. QED
    BY <2>5, <2>6, <2>7 DEF IInv
<1>8. ASSUME NEW val \in Sizes, InitialWindowSize(val) PROVE IInv'
  <2> DEFINE growth == Wrap(val - initial)
  <2>1. PICK moved \in SUBSET Open :
          /\ \A s \in moved : AddOK(win[s], growth)
          /\ win' = [s \in Streams |-> IF s \in moved THEN Added(win[s], growth)
                                                      ELSE win[s]]
          /\ (UNCHANGED dead /\ moved = Open) \/ dead' = TRUE
    BY <1>8 DEF InitialWindowSize
  <2>2. ~dead /\ initial' = val /\ UNCHANGED <<stage, conn, queue, handlers, lost>>
    BY <1>8 DEF InitialWindowSize
  <2>3. \A s \in moved : /\ win'[s] \in -MaxWindow..MaxWindow
                         /\ win'[s] < 0 => val - win'[s] <= MaxWindow
    BY <1>1, <2>1, <2>2, Grows DEF Open
  <2> HIDE DEF growth
  <2>4. \A s \in Streams \ moved : win'[s] = win[s]
    BY <2>1
  <2>5. win' \in [Streams -> Range]
    <3>1. \A s \in moved : win'[s] \in Range
      BY <2>3
    <3>2. \A s \in Streams \ moved : win'[s] \in Range
      BY <1>1, <2>4 DEF TypeOK
    <3>3. QED
      BY <2>1, <3>1, <3>2
  <2>6. TypeOK'
    BY <1>1, <2>1, <2>2, <2>5 DEF TypeOK
  <2>7. NoOverdraft'
    BY <1>1, <2>1, <2>2, <2>3 DEF NoOverdraft, Open
  <2>8. LateFrames'
    BY <1>1, <2>2 DEF LateFrames
  <2>9. QED
    BY <2>6, <2>7, <2>8 DEF IInv
<1>9. CASE UNCHANGED vars
  BY <1>1, <1>9 DEF vars, IInv, TypeOK, NoOverdraft, Open, LateFrames
<1>10. ASSUME NEW s \in Streams, EndStream(s) PROVE IInv'
  <2>1. /\ stage' = [stage EXCEPT ![s] = "ended"] /\ handlers' = handlers \ {s}
        /\ queue[s] = 0 /\ UNCHANGED <<initial, conn, win, dead, queue, lost>>
    BY <1>10 DEF EndStream, Finish
  <2>2. TypeOK'
    BY <1>1, <2>1 DEF TypeOK
  <2>3. NoOverdraft'
    BY <1>1, <2>1 DEF TypeOK, NoOverdraft, Open
  <2>4. LateFrames'
    BY <1>1, <2>1 DEF TypeOK, LateFrames
  <2>5. QED
    BY <2>2, <2>3, <2>4 DEF IInv
<1>11. ASSUME NEW s \in Streams, ResetStream(s) PROVE IInv'
  BY <1>4, <1>11 DEF ResetStream
<1>12. ASSUME NEW s \in Streams, TakeFrom(s) \/ SkipFrom(s) PROVE IInv'
  BY <1>3, <1>12 DEF TakeFrom, SkipFrom
<1>13. CASE Next
  BY <1>2, <1>5, <1>6, <1>7, <1>8, <1>10, <1>11, <1>12, <1>13, Zenon DEF Next
<1>14. QED
  BY <1>9, <1>13

---------------------------------------------------------------------------
(* Every step is a step of the exact windows, or a stutter.  Plain is what *)
(* they have for win: a stream that is not open has no window.             *)

Plain == [s \in Streams |-> IF stage[s] = "open" THEN win[s] ELSE 0]

LEMMA StepImplements == IInv /\ [Next]_vars => [Windows!Next]_Windows!vars
<1> SUFFICES ASSUME IInv, [Next]_vars PROVE Windows!Next \/ UNCHANGED Windows!vars
  BY DEF Windows!vars
<1> USE SizesAssumption
<1>1. TypeOK /\ NoOverdraft /\ LateFrames
  BY DEF IInv
<1>2. ASSUME NEW s \in Streams, ProcessHeaders(s) PROVE Windows!Open(s)
  <2>1. 0 \in 0..MaxWindow /\ initial \in -MaxWindow..MaxWindow /\ initial >= 0
    BY <1>1 DEF TypeOK, Sizes
  <2>2. AddOK(0, initial) /\ Added(0, initial) = initial
    BY <2>1, AddExact
  <2>3. /\ win' = [win EXCEPT ![s] = initial] /\ stage' = [stage EXCEPT ![s] = "open"]
        /\ ~dead /\ stage[s] = "idle" /\ UNCHANGED <<initial, conn, dead, lost>>
    BY <1>2, <2>2 DEF ProcessHeaders
  <2>4. Plain' = [Plain EXCEPT ![s] = initial]
    BY <1>1, <2>3 DEF Plain, TypeOK
  <2>5. QED
    BY <2>3, <2>4 DEF Plain, Windows!Open
<1>3. ASSUME NEW s \in Streams, TakeFrom(s)
      PROVE  \E n \in 1..MaxWindow : Windows!Send(s, n)
  <2> DEFINE n == Writable(s)
  <2>1. Pay(s) /\ stage[s] = "open"
    BY <1>3 DEF TakeFrom
  <2>2. n \in 1..MaxWindow /\ n <= win[s] /\ n <= conn
    BY <1>1, <2>1, Payment
  <2>3. /\ win' = [win EXCEPT ![s] = @ - n] /\ conn' = conn - n
        /\ ~dead /\ UNCHANGED <<initial, dead, lost>>
        /\ UNCHANGED stage \/ stage' = [stage EXCEPT ![s] = "ended"]
    BY <1>3 DEF TakeFrom, Pay, Finish
  <2> HIDE DEF n
  <2>4. Plain[s] = win[s]
    BY <2>1 DEF Plain
  <2>5. CASE UNCHANGED stage
    <3>1. Plain' = [Plain EXCEPT ![s] = @ - n]
      BY <1>1, <2>1, <2>3, <2>5 DEF Plain, TypeOK
    <3>2. QED
      BY <2>1, <2>2, <2>3, <2>4, <2>5, <3>1 DEF Plain, Windows!Send
  <2>6. CASE stage' = [stage EXCEPT ![s] = "ended"]
    <3>1. Plain' = [Plain EXCEPT ![s] = 0]
      BY <1>1, <2>1, <2>3, <2>6 DEF Plain, TypeOK
    <3>2. QED
      BY <2>1, <2>2, <2>3, <2>4, <2>6, <3>1 DEF Plain, Windows!Send, Windows!Close
  <2>7. QED
    BY <2>3, <2>5, <2>6
<1>4. ASSUME NEW s \in Streams, NEW how, stage[s] = "open",
             stage' = [stage EXCEPT ![s] = how], how # "open", UNCHANGED win
      PROVE  Windows!Close(s, how)
  <2>1. Plain' = [Plain EXCEPT ![s] = 0]
    BY <1>1, <1>4 DEF Plain, TypeOK
  <2>2. QED
    BY <1>4, <2>1 DEF Plain, Windows!Close
<1>5. ASSUME NEW s \in Streams, NEW n \in Increments, WindowUpdate(s, n)
      PROVE  Windows!Grant(s, n) \/ Windows!Refuse(s, n)
  <2>1. s \in Open /\ ~dead /\ stage[s] = "open" /\ Plain[s] = win[s]
        /\ UNCHANGED <<initial, conn, dead, lost>>
    BY <1>5 DEF WindowUpdate, Open, Plain
  <2>2. CASE AddOK(win[s], n)
    <3>1. win[s] + n <= MaxWindow /\ Added(win[s], n) = win[s] + n
      BY <1>1, <2>1, <2>2, IncrementFits
    <3>2. win' = [win EXCEPT ![s] = @ + n] /\ UNCHANGED stage
      BY <1>5, <2>2, <3>1 DEF WindowUpdate
    <3>3. Plain' = [Plain EXCEPT ![s] = @ + n]
      BY <1>1, <2>1, <3>2 DEF Plain, TypeOK
    <3>4. QED
      BY <2>1, <3>1, <3>2, <3>3 DEF Plain, Windows!Grant
  <2>3. CASE ~AddOK(win[s], n)
    <3>1. win[s] >= 0 => win[s] + n > MaxWindow
      <4>1. win[s] \in -(MaxWindow + 1)..MaxWindow /\ n \in -MaxWindow..MaxWindow
        BY <1>1, <2>1 DEF TypeOK, Increments
      <4>2. QED
        BY <2>3, <4>1, AddExact
    <3>2. Windows!Refusable(win[s], n)
      BY <1>1, <3>1 DEF Windows!Refusable, TypeOK
    <3>3. Windows!Close(s, "refused")
      BY <1>4, <1>5, <2>1, <2>3 DEF WindowUpdate, CloseStream
    <3>4. QED
      BY <2>1, <3>2, <3>3 DEF Plain, Windows!Refuse
  <2>4. QED
    BY <2>2, <2>3
<1>6. ASSUME NEW n \in Increments, ConnWindowUpdate(n)
      PROVE  Windows!GrantConn(n) \/ Windows!RefuseConn(n)
  <2>1. conn \in 0..MaxWindow /\ n \in -MaxWindow..MaxWindow /\ n > 0
    BY <1>1, <1>6 DEF TypeOK, NoOverdraft, Increments, ConnWindowUpdate
  <2>2. /\ AddOK(conn, n) <=> conn + n <= MaxWindow
        /\ AddOK(conn, n) => Added(conn, n) = conn + n
    BY <2>1, AddExact
  <2>3. ~(conn + n <= MaxWindow) => conn + n > MaxWindow
    BY <2>1
  <2>4. QED
    BY <1>6, <2>2, <2>3 DEF ConnWindowUpdate, Windows!GrantConn, Windows!RefuseConn
<1>7. ASSUME NEW val \in Sizes, InitialWindowSize(val)
      PROVE  Windows!Resize(val) \/ Windows!RefuseSize(val)
  <2> DEFINE refuses == {s \in Open : ~AddOK(win[s], Wrap(val - initial))}
             Grown(m) == [s \in Streams |-> IF s \in m THEN Added(win[s], Wrap(val - initial))
                                                       ELSE win[s]]
  <2>1. /\ ~dead /\ initial' = val /\ UNCHANGED <<stage, conn, lost>>
        /\ IF refuses = {} THEN win' = Grown(Open) /\ UNCHANGED dead
           ELSE /\ dead' = TRUE
                /\ \E moved \in SUBSET (Open \ refuses) : win' = Grown(moved)
    BY <1>7 DEF InitialWindowSize
  <2>2. Windows!Opened = Open
    BY DEF Windows!Opened, Open
  <2>3. \A s \in Open \ refuses :
          /\ Added(win[s], Wrap(val - initial)) = win[s] + (val - initial)
          /\ win[s] >= 0 /\ win[s] + (val - initial) <= MaxWindow
    <3>1. TAKE s \in Open \ refuses
    <3>2. AddOK(win[s], Wrap(val - initial))
      BY <3>1
    <3>3. win[s] >= 0
      BY <1>1, <2>1, <3>2, ShrinkingRefused DEF TypeOK, Open
    <3>4. LET new == Added(win[s], Wrap(val - initial)) IN
          new = win[s] + (val - initial) /\ new \in -MaxWindow..MaxWindow
      BY <1>1, <2>1, <3>1, <3>2, Grows
    <3>5. QED
      BY <3>3, <3>4
  <2>4. \A s \in refuses : Windows!Refusable(win[s], val - initial)
    <3>1. TAKE s \in refuses
    <3>2. /\ win[s] \in -(MaxWindow + 1)..MaxWindow /\ initial \in 0..MaxWindow
          /\ val \in 0..MaxWindow
      BY <1>1, <3>1 DEF TypeOK, Open, Sizes
    <3>3. Wrap(val - initial) = val - initial /\ val - initial \in -MaxWindow..MaxWindow
      BY <3>2 DEF Wrap, Modulus
    <3>4. win[s] >= 0 => win[s] + (val - initial) > MaxWindow
      BY <3>1, <3>2, <3>3, AddExact
    <3>5. QED
      BY <3>2, <3>4 DEF Windows!Refusable
  <2>5. \A s \in Open \ refuses : ~Windows!Refusable(win[s], val - initial)
    BY <1>1, <2>3 DEF Windows!Refusable, TypeOK, Open, Sizes
  <2>6. \A s \in Open : Plain[s] = win[s]
    BY DEF Open, Plain
  <2>7. \A m \in SUBSET (Open \ refuses) :
          win' = Grown(m) => Plain' = Windows!Moved(m, val - initial)
    <3>1. TAKE m \in SUBSET (Open \ refuses)
    <3>2. HAVE win' = Grown(m)
    <3>3. \A s \in Streams : stage'[s] = stage[s]
      BY <2>1
    <3>4. \A s \in Streams :
            win'[s] = IF s \in m THEN win[s] + (val - initial) ELSE win[s]
      BY <2>3, <3>2
    <3>5. \A s \in m : stage[s] = "open"
      BY DEF Open
    <3>6. \A s \in Streams :
            (IF stage'[s] = "open" THEN win'[s] ELSE 0)
              = (IF stage[s] = "open" THEN win[s] ELSE 0)
                  + IF s \in m THEN val - initial ELSE 0
      BY <1>1, <3>3, <3>4, <3>5 DEF TypeOK
    <3>7. QED
      BY <3>6 DEF Plain, Windows!Moved
  <2>8. CASE refuses = {}
    <3>1. Plain' = Windows!Moved(Open, val - initial)
      BY <2>1, <2>7, <2>8
    <3>2. QED
      BY <2>1, <2>2, <2>3, <2>6, <2>8, <3>1 DEF Plain, Windows!Resize
  <2>9. CASE refuses # {}
    <3>1. PICK m \in SUBSET (Open \ refuses) : win' = Grown(m)
      BY <2>1, <2>9
    <3>2. Plain' = Windows!Moved(m, val - initial)
      BY <2>7, <3>1
    <3>3. {s \in Windows!Opened : Windows!Refusable(Plain[s], val - initial)} = refuses
      BY <2>2, <2>4, <2>5, <2>6
    <3>4. QED
      BY <2>1, <2>2, <2>9, <3>2, <3>3 DEF Plain, Windows!RefuseSize
  <2>10. QED
    BY <2>8, <2>9
<1>8. ASSUME NEW s \in Streams, NEW n \in 1..MaxData, QueueData(s, n)
      PROVE  UNCHANGED Windows!vars
  BY <1>8 DEF QueueData, Windows!vars
<1>9. CASE UNCHANGED vars
  BY <1>9 DEF vars, Windows!vars
<1>10. ASSUME NEW s \in Streams, EndStream(s) PROVE Windows!End(s)
  <2>1. Windows!Close(s, "ended")
    BY <1>4, <1>10 DEF EndStream, Finish
  <2>2. QED
    BY <1>10, <2>1 DEF EndStream, Windows!End
<1>11. ASSUME NEW s \in Streams, ResetStream(s) PROVE Windows!Reset(s)
  <2>1. Windows!Close(s, "reset")
    BY <1>4, <1>11 DEF ResetStream, CloseStream
  <2>2. QED
    BY <1>11, <2>1 DEF ResetStream, Windows!Reset
<1>12. ASSUME NEW s \in Streams, SkipFrom(s)
       PROVE  \E n \in 1..MaxWindow : Windows!Lose(s, n)
  <2> DEFINE n == Writable(s)
  <2>1. Pay(s) /\ stage[s] # "open"
    BY <1>12 DEF SkipFrom
  <2>2. n \in 1..MaxWindow /\ n <= conn /\ n <= queue[s]
    BY <1>1, <2>1, Payment
  <2>3. /\ win' = [win EXCEPT ![s] = @ - n] /\ conn' = conn - n
        /\ lost' = [lost EXCEPT ![s] = @ + n]
        /\ ~dead /\ UNCHANGED <<initial, dead, stage>>
    BY <1>12 DEF SkipFrom, Pay
  <2> HIDE DEF n
  <2>4. queue[s] \in 0..MaxData /\ lost[s] \in 0..MaxData
        /\ stage[s] \in {"idle", "open", "ended", "reset", "refused"}
    BY <1>1 DEF TypeOK
  <2>5. stage[s] \in {"reset", "refused"} /\ lost[s] + n <= MaxData
    BY <1>1, <2>1, <2>2, <2>4 DEF LateFrames
  <2>6. Plain' = Plain
    BY <1>1, <2>1, <2>3 DEF Plain, TypeOK
  <2>7. Windows!Lose(s, n)
    BY <2>2, <2>3, <2>5, <2>6 DEF Plain, Windows!Lose
  <2>8. QED
    BY <2>2, <2>7
<1>13. CASE Next
  BY <1>2, <1>3, <1>5, <1>6, <1>7, <1>8, <1>10, <1>11, <1>12, <1>13, Zenon
     DEF Next, Windows!Next, Increments, Sizes, Windows!Sizes
<1>14. QED
  BY <1>9, <1>13

---------------------------------------------------------------------------

\* The inductive invariant holds of every behaviour.
THEOREM Invariance == Spec => []IInv
  BY InitIInv, NextIInv, PTL DEF Spec

\* Every variable keeps its type: the windows stay within int32.
THEOREM TypeCorrect == Spec => []TypeOK
<1>1. IInv => TypeOK
  BY DEF IInv
<1>2. QED
  BY <1>1, Invariance, PTL

\* The connection's window is never overdrawn and a stream's only by a
\* reduction of the initial size.
THEOREM NeverOverdrawn == Spec => []NoOverdraft
<1>1. IInv => NoOverdraft
  BY DEF IInv
<1>2. QED
  BY <1>1, Invariance, PTL

\* The int32 windows of the server are exact: flow control in FlowControl
\* implements Http2Windows.
THEOREM Exact == Spec => ImplementsWindows
<1>1. Init => Windows!Init
  BY DEF Init, Windows!Init
<1>2. QED
  BY <1>1, StepImplements, Invariance, PTL DEF Spec, ImplementsWindows, Windows!Spec

=============================================================================
