--------------------------- MODULE StreamPriority ---------------------------
(***************************************************************************)
(* The dependency tree of the streams of an http2 connection               *)
(* (adjustStreamPriority, server.go).                                      *)
(*                                                                         *)
(* Streams point to their parents.  sc.streams holds the open ones only: a *)
(* closed stream can no longer be named, but stays in the chains that pass *)
(* through it.  Weights are stored and never read, so they are left out.   *)
(***************************************************************************)
EXTENDS Integers, FiniteSets

CONSTANTS
  Streams,  \* the streams the client opens
  Root,     \* stream 0, the root of the tree
  Nil       \* no parent

ASSUME StreamsAssumption == IsFiniteSet(Streams)
ASSUME NamesAssumption == Root \notin Streams /\ Nil \notin Streams \cup {Root}

VARIABLES
  stage,   \* idle, open (in sc.streams) or closed
  parent   \* stream.parent

vars == <<stage, parent>>

Open == {s \in Streams : stage[s] = "open"}

\* Mutation: if instead of for.
OnChainParentOnly(tree, p, st) == st \in {p, tree[p]}

\* Whether the loop "for piter := p; piter != nil; piter = piter.parent" meets
\* st: every set that holds p and the parents of its members holds st.
OnChain(tree, p, st) ==
  \A S \in SUBSET Streams :
    p \in S /\ (\A x \in S : tree[x] \in S \cup {Nil}) => st \in S

\* Mutation: a parent that depends on st is not moved first.
AdjustedInPlace(streams, tree, st, dep, exclusive) ==
  LET p == IF dep \in streams THEN dep ELSE Nil IN
  IF st \notin streams \/ p = st THEN tree
  ELSE [s \in Streams |->
          IF s = st THEN p
          ELSE IF exclusive /\ s \in streams /\ tree[s] = p THEN st ELSE tree[s]]

\* Mutation: stream 0 is taken for a stream like the others.
AdjustedRoot(streams, tree, st, dep, exclusive) ==
  LET p == IF dep \in streams \cup {Root} THEN dep ELSE Nil IN
  IF st \notin streams \/ p = st \/ (p \in Streams /\ OnChain(tree, p, st)) THEN tree
  ELSE [tree EXCEPT ![st] = p]

\* Mutation: an exclusive dependency on the root adopts nothing.
AdjustedBelowRoot(streams, tree, st, dep, exclusive) ==
  LET p     == IF dep \in streams THEN dep ELSE Nil
      moved == IF p # Nil /\ OnChain(tree, p, st)
               THEN [tree EXCEPT ![p] = tree[st]] ELSE tree
  IN
  IF st \notin streams \/ p = st THEN tree
  ELSE [s \in Streams |->
          IF s = st THEN p
          ELSE IF exclusive /\ p # Nil /\ s \in streams /\ moved[s] = p
          THEN st ELSE moved[s]]

\* The parents after adjustStreamPriority(streams, st, {dep, exclusive}).
\* p is streams[dep]: nil for the root, for a stream never seen and for a
\* closed one.  A p that depends on st is first moved to st's own parent.
Adjusted(streams, tree, st, dep, exclusive) ==
  LET p      == IF dep \in streams THEN dep ELSE Nil
      moved  == IF p # Nil /\ OnChain(tree, p, st)
                THEN [tree EXCEPT ![p] = tree[st]] ELSE tree
      hung   == [moved EXCEPT ![st] = p]
      adopts == exclusive /\ (p # Nil \/ dep = Root)
  IN
  IF st \notin streams \/ p = st
  THEN tree
  ELSE [s \in Streams |->
          IF adopts /\ s \in streams \ {st} /\ hung[s] = p THEN st ELSE hung[s]]

---------------------------------------------------------------------------

Init ==
  /\ stage  = [s \in Streams |-> "idle"]
  /\ parent = [s \in Streams |-> Nil]

Dependencies == Streams \cup {Root}

\* processHeaders, without priority ...
ProcessHeaders(s) ==
  /\ stage[s] = "idle"
  /\ stage' = [stage EXCEPT ![s] = "open"]
  /\ UNCHANGED parent

\* ... and with it: the new stream is in sc.streams already.
ProcessHeadersPriority(s, dep, exclusive) ==
  /\ stage[s] = "idle"
  /\ stage' = [stage EXCEPT ![s] = "open"]
  /\ parent' = Adjusted(Open \cup {s}, parent, s, dep, exclusive)

\* processPriority: a PRIORITY frame for any stream
ProcessPriority(s, dep, exclusive) ==
  /\ parent' = Adjusted(Open, parent, s, dep, exclusive)
  /\ UNCHANGED stage

\* closeStream deletes the stream from sc.streams and touches no parent.
CloseStream(s) ==
  /\ stage[s] = "open"
  /\ stage' = [stage EXCEPT ![s] = "closed"]
  /\ UNCHANGED parent

Next ==
  \/ \E s \in Streams : ProcessHeaders(s) \/ CloseStream(s)
  \/ \E s \in Streams, dep \in Dependencies, exclusive \in BOOLEAN :
       \/ ProcessHeadersPriority(s, dep, exclusive)
       \/ ProcessPriority(s, dep, exclusive)

Spec == Init /\ [][Next]_vars

---------------------------------------------------------------------------
(* Properties *)

\* Parents are streams that were opened at some time.
TypeOK ==
  /\ stage  \in [Streams -> {"idle", "open", "closed"}]
  /\ parent \in [Streams -> Streams \cup {Nil}]

\* Whatever the client asks for, no stream is its own ancestor: some member of
\* every set of streams has its parent outside.  Otherwise the loop of
\* adjustStreamPriority never ends, and with it the serve goroutine hangs.
Acyclic ==
  \A S \in SUBSET Streams : S # {} => \E s \in S : parent[s] \notin S

\* The first streams the loop from p visits, one more at each step, as the
\* code walks them; Nil once it has run off the root.
Visited(p) ==
  LET at[i \in 0..Cardinality(Streams)] ==
        IF i = 0 THEN p
        ELSE IF at[i - 1] = Nil THEN Nil ELSE parent[at[i - 1]]
  IN  at

\* OnChain says what the loop finds, and the loop needs no more steps than
\* there are streams to find it or to run off the root.
LoopDecides ==
  \A p, st \in Streams :
    LET at == Visited(p) IN
    /\ OnChain(parent, p, st) <=> \E i \in DOMAIN at : at[i] = st
    /\ at[Cardinality(Streams)] = Nil

\* An exclusive dependency on the root or on an open stream leaves the stream
\* without open siblings, even when the stream it now depends on was below it.
ExclusiveHasNoSibling ==
  [][\A s \in Streams, dep \in Dependencies :
       (ProcessPriority(s, dep, TRUE) \/ ProcessHeadersPriority(s, dep, TRUE))
         /\ s \in Open' /\ dep \in (Open \cup {Root}) \ {s}
       => /\ parent'[s] = IF dep = Root THEN Nil ELSE dep
          /\ \A o \in Open' \ {s} : parent'[o] # parent'[s]]_vars
=============================================================================
