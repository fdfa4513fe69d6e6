------------------------ MODULE StreamPriority_proof ------------------------
(***************************************************************************)
(* The dependency tree never gets a cycle, for any number of streams and   *)
(* any frames, closed streams included; so the loop of                     *)
(* adjustStreamPriority always ends.                                       *)
(*                                                                         *)
(* Acyclic and TypeOK are inductive together.  The heart is AdjustedTree:  *)
(* a set of streams closed under the new parents would give a set closed   *)
(* under the old ones.  It is extended, where p was moved, with the old    *)
(* chain from p to st, and where streams were adopted it already is one.   *)
(*                                                                         *)
(* The loop itself is a walk up the tree.  In a tree without cycles it     *)
(* meets no stream twice (WalkEnds), so it ends within as many steps as    *)
(* there are streams, and it meets the members of the chain (WalkMeets).   *)
(***************************************************************************)
EXTENDS StreamPriority, FiniteSetTheorems, WellFoundedInduction, TLAPS

\* No set of streams is closed under tree.
WellFounded(tree) ==
  \A S \in SUBSET Streams : S # {} => \E s \in S : tree[s] \notin S

Trees == [Streams -> Streams \cup {Nil}]

\* A stream on the chain of x other than x is on the chain of x's parent.
LEMMA ChainStep ==
  ASSUME NEW tree \in Trees, NEW st \in Streams, NEW x \in Streams, x # st,
         OnChain(tree, x, st)
  PROVE  tree[x] \in Streams /\ OnChain(tree, tree[x], st)
<1>1. tree[x] # Nil
  <2> SUFFICES ASSUME tree[x] = Nil PROVE FALSE
    OBVIOUS
  <2>1. \A y \in {x} : tree[y] \in {x} \cup {Nil}
    OBVIOUS
  <2>2. {x} \in SUBSET Streams /\ x \in {x} /\ st \notin {x}
    OBVIOUS
  <2>3. QED
    BY <2>1, <2>2 DEF OnChain
<1>2. tree[x] \in Streams
  BY <1>1 DEF Trees
<1>3. ASSUME NEW S \in SUBSET Streams, tree[x] \in S,
             \A y \in S : tree[y] \in S \cup {Nil}
      PROVE  st \in S
  <2>1. \A y \in S \cup {x} : tree[y] \in (S \cup {x}) \cup {Nil}
    BY <1>3
  <2>2. st \in S \cup {x}
    BY <2>1 DEF OnChain
  <2>3. QED
    BY <2>2
<1>4. QED
  BY <1>2, <1>3 DEF OnChain

\* The chain of p stays within any set that holds p and its members' parents.
LEMMA ChainParent ==
  ASSUME NEW tree \in Trees, NEW p \in Streams, NEW x \in Streams,
         OnChain(tree, p, x), tree[x] \in Streams
  PROVE  OnChain(tree, p, tree[x])
  BY NamesAssumption DEF OnChain

\* Moving p, which hangs below st, to st's parent and st below p
LEMMA MovedBelow ==
  ASSUME NEW tree \in Trees, WellFounded(tree), NEW st \in Streams,
         NEW p \in Streams, p # st, OnChain(tree, p, st)
  PROVE  WellFounded([[tree EXCEPT ![p] = tree[st]] EXCEPT ![st] = p])
<1> DEFINE new == [[tree EXCEPT ![p] = tree[st]] EXCEPT ![st] = p]
           Between == {x \in Streams : OnChain(tree, p, x) /\ OnChain(tree, x, st)}
<1>1. /\ new[st] = p /\ new[p] = tree[st]
      /\ \A x \in Streams \ {st, p} : new[x] = tree[x]
  BY DEF Trees
<1> HIDE DEF new
<1>2. p \in Between /\ Between \subseteq Streams
  BY DEF OnChain
<1>3. ASSUME NEW x \in Between, x # st PROVE tree[x] \in Between
  BY <1>3, ChainStep, ChainParent
<1>4. SUFFICES ASSUME NEW S \in SUBSET Streams, S # {}, \A s \in S : new[s] \in S
               PROVE  FALSE
  BY DEF WellFounded, new
<1> HIDE DEF Between
<1>5. CASE p \in S
  <2>1. tree[st] \in S
    BY <1>1, <1>4, <1>5
  <2>2. \A x \in S \cup Between : tree[x] \in S \cup Between
    BY <1>1, <1>2, <1>3, <1>4, <2>1
  <2>3. S \cup Between \in SUBSET Streams
    BY <1>2
  <2>4. QED
    BY <1>4, <2>2, <2>3 DEF WellFounded
<1>6. CASE p \notin S
  <2>1. \A x \in S : tree[x] \in S
    BY <1>1, <1>4, <1>6
  <2>2. QED
    BY <1>4, <2>1 DEF WellFounded
<1>7. QED
  BY <1>5, <1>6

\* Hanging st below a p that is not below st, or below the root
LEMMA Hung ==
  ASSUME NEW tree \in Trees, WellFounded(tree), NEW st \in Streams,
         NEW p \in Streams \cup {Nil}, p # Nil => ~OnChain(tree, p, st)
  PROVE  WellFounded([tree EXCEPT ![st] = p])
<1> DEFINE new == [tree EXCEPT ![st] = p]
<1>1. new[st] = p /\ \A x \in Streams \ {st} : new[x] = tree[x]
  BY DEF Trees
<1> HIDE DEF new
<1>2. SUFFICES ASSUME NEW S \in SUBSET Streams, S # {}, \A s \in S : new[s] \in S
               PROVE  FALSE
  BY DEF WellFounded, new
<1>3. CASE st \notin S
  <2>1. \A x \in S : tree[x] \in S
    BY <1>1, <1>2, <1>3
  <2>2. QED
    BY <1>2, <2>1 DEF WellFounded
<1>4. CASE st \in S
  <2>1. p \in S /\ p # Nil
    BY <1>1, <1>2, <1>4, NamesAssumption
  <2>2. PICK C \in SUBSET Streams :
          p \in C /\ (\A x \in C : tree[x] \in C \cup {Nil}) /\ st \notin C
    BY <2>1 DEF OnChain
  <2>3. \A x \in S \cap C : tree[x] \in S \cap C
    BY <1>1, <1>2, <2>2, NamesAssumption
  <2>4. S \cap C \in SUBSET Streams /\ S \cap C # {}
    BY <2>1, <2>2
  <2>5. QED
    BY <2>3, <2>4 DEF WellFounded
<1>5. QED
  BY <1>3, <1>4

\* adjustStreamPriority keeps a tree a tree.
LEMMA AdjustedTree ==
  ASSUME NEW streams \in SUBSET Streams, NEW tree \in Trees, WellFounded(tree),
         NEW st \in Streams, NEW dep \in Dependencies, NEW exclusive \in BOOLEAN
  PROVE  /\ Adjusted(streams, tree, st, dep, exclusive) \in Trees
         /\ WellFounded(Adjusted(streams, tree, st, dep, exclusive))
<1> DEFINE p      == IF dep \in streams THEN dep ELSE Nil
           moved  == IF p # Nil /\ OnChain(tree, p, st)
                     THEN [tree EXCEPT ![p] = tree[st]] ELSE tree
           hung   == [moved EXCEPT ![st] = p]
           adopts == exclusive /\ (p # Nil \/ dep = Root)
           new    == [s \in Streams |->
                        IF adopts /\ s \in streams \ {st} /\ hung[s] = p
                        THEN st ELSE hung[s]]
<1>1. Adjusted(streams, tree, st, dep, exclusive) =
        IF st \notin streams \/ p = st THEN tree ELSE new
  BY DEF Adjusted
<1>2. CASE st \notin streams \/ p = st
  BY <1>1, <1>2
<1>3. CASE st \in streams /\ p # st
  <2>1. p \in Streams \cup {Nil}
    OBVIOUS
  <2>2. hung \in Trees /\ hung[st] = p
    BY <2>1 DEF Trees
  <2>3. WellFounded(hung)
    <3>1. CASE p # Nil /\ OnChain(tree, p, st)
      BY <1>3, <2>1, <3>1, MovedBelow
    <3>2. CASE ~(p # Nil /\ OnChain(tree, p, st))
      BY <2>1, <3>2, Hung
    <3>3. QED
      BY <3>1, <3>2
  <2> HIDE DEF hung
  <2>4. new \in Trees
    BY <2>2 DEF Trees
  <2>5. WellFounded(new)
    <3>1. SUFFICES ASSUME NEW S \in SUBSET Streams, S # {}, \A s \in S : new[s] \in S
                   PROVE  FALSE
      BY DEF WellFounded
    <3>2. new[st] = p
      BY <2>2
    <3>3. \A s \in S : hung[s] \in S
      <4>1. ASSUME NEW s \in S PROVE hung[s] \in S
        <5>1. CASE new[s] = hung[s]
          BY <3>1, <5>1
        <5>2. CASE new[s] # hung[s]
          <6>1. new[s] = st /\ hung[s] = p
            BY <5>2
          <6>2. QED
            BY <3>1, <3>2, <6>1
        <5>3. QED
          BY <5>1, <5>2
      <4>2. QED
        BY <4>1
    <3>4. QED
      BY <2>3, <3>1, <3>3 DEF WellFounded
  <2>6. QED
    BY <1>1, <1>3, <2>4, <2>5
<1>4. QED
  BY <1>2, <1>3

LEMMA InitTree == Init => TypeOK /\ Acyclic
<1> SUFFICES ASSUME Init PROVE TypeOK /\ Acyclic
  OBVIOUS
<1>1. \A s \in Streams : parent[s] = Nil
  BY DEF Init
<1>2. Acyclic
  BY <1>1, NamesAssumption DEF Acyclic
<1>3. QED
  BY <1>2 DEF Init, TypeOK

LEMMA NextTree == TypeOK /\ Acyclic /\ [Next]_vars => (TypeOK /\ Acyclic)'
<1> SUFFICES ASSUME TypeOK, Acyclic, [Next]_vars PROVE (TypeOK /\ Acyclic)'
  OBVIOUS
<1>1. parent \in Trees /\ WellFounded(parent) /\ Open \in SUBSET Streams
  BY DEF TypeOK, Acyclic, Trees, WellFounded, Open
<1>2. ASSUME parent' \in Trees, WellFounded(parent'),
             stage' \in [Streams -> {"idle", "open", "closed"}]
      PROVE  (TypeOK /\ Acyclic)'
  BY <1>2 DEF TypeOK, Acyclic, Trees, WellFounded
<1>3. ASSUME NEW s \in Streams, ProcessHeaders(s) \/ CloseStream(s)
      PROVE  (TypeOK /\ Acyclic)'
  BY <1>1, <1>2, <1>3 DEF ProcessHeaders, CloseStream, TypeOK
<1>4. ASSUME NEW s \in Streams, NEW dep \in Dependencies, NEW exclusive \in BOOLEAN,
             ProcessHeadersPriority(s, dep, exclusive)
      PROVE  (TypeOK /\ Acyclic)'
  <2>1. Open \cup {s} \in SUBSET Streams
    BY <1>1
  <2>2. parent' \in Trees /\ WellFounded(parent')
    BY <1>1, <1>4, <2>1, AdjustedTree DEF ProcessHeadersPriority
  <2>3. stage' \in [Streams -> {"idle", "open", "closed"}]
    BY <1>4 DEF ProcessHeadersPriority, TypeOK
  <2>4. QED
    BY <1>2, <2>2, <2>3
<1>5. ASSUME NEW s \in Streams, NEW dep \in Dependencies, NEW exclusive \in BOOLEAN,
             ProcessPriority(s, dep, exclusive)
      PROVE  (TypeOK /\ Acyclic)'
  <2>1. parent' \in Trees /\ WellFounded(parent')
    BY <1>1, <1>5, AdjustedTree DEF ProcessPriority
  <2>2. QED
    BY <1>2, <1>5, <2>1 DEF ProcessPriority, TypeOK
<1>6. CASE UNCHANGED vars
  BY <1>1, <1>2, <1>6 DEF vars, TypeOK
<1>7. QED
  BY <1>3, <1>4, <1>5, <1>6 DEF Next

---------------------------------------------------------------------------

\* Every variable keeps its type.
THEOREM TypeCorrect == Spec => []TypeOK
  BY InitTree, NextTree, PTL DEF Spec

\* No frames, in any order, make a stream its own ancestor.
THEOREM TreeStaysATree == Spec => []Acyclic
  BY InitTree, NextTree, PTL DEF Spec

\* An exclusive dependency leaves the stream without open siblings.
THEOREM ExclusiveAlone == Spec => ExclusiveHasNoSibling
<1> DEFINE Alone(s, dep) ==
      /\ parent'[s] = IF dep = Root THEN Nil ELSE dep
      /\ \A o \in Open' \ {s} : parent'[o] # parent'[s]
<1>1. ASSUME TypeOK, NEW streams \in SUBSET Streams, NEW s \in streams,
             NEW dep \in Dependencies, dep \in (streams \cup {Root}) \ {s},
             parent' = Adjusted(streams, parent, s, dep, TRUE), Open' = streams
      PROVE  Alone(s, dep)
  <2> DEFINE p     == IF dep \in streams THEN dep ELSE Nil
             moved == IF p # Nil /\ OnChain(parent, p, s)
                      THEN [parent EXCEPT ![p] = parent[s]] ELSE parent
             hung  == [moved EXCEPT ![s] = p]
  <2>1. p # s /\ p = (IF dep = Root THEN Nil ELSE dep) /\ p \in Streams \cup {Nil}
    BY <1>1, NamesAssumption
  <2>2. parent' = [x \in Streams |-> IF x \in streams \ {s} /\ hung[x] = p
                                     THEN s ELSE hung[x]]
    <3>1. Adjusted(streams, parent, s, dep, TRUE) =
            IF s \notin streams \/ p = s THEN parent
            ELSE [x \in Streams |->
                    IF (TRUE /\ (p # Nil \/ dep = Root)) /\ x \in streams \ {s}
                         /\ hung[x] = p
                    THEN s ELSE hung[x]]
      BY DEF Adjusted
    <3>2. p # Nil \/ dep = Root
      BY <1>1, NamesAssumption
    <3> HIDE DEF hung, p
    <3>3. QED
      BY <1>1, <2>1, <3>1, <3>2
  <2>3. hung[s] = p
    BY <1>1, <2>1 DEF TypeOK
  <2> HIDE DEF hung, p
  <2>4. parent'[s] = p /\ \A o \in streams \ {s} : parent'[o] # p
    BY <1>1, <2>1, <2>2, <2>3
  <2>5. QED
    BY <1>1, <2>1, <2>4
<1>2. TypeOK /\ [Next]_vars =>
        [\A s \in Streams, dep \in Dependencies :
           (ProcessPriority(s, dep, TRUE) \/ ProcessHeadersPriority(s, dep, TRUE))
             /\ s \in Open' /\ dep \in (Open \cup {Root}) \ {s}
           => Alone(s, dep)]_vars
  <2> SUFFICES ASSUME TypeOK, NEW s \in Streams, NEW dep \in Dependencies,
                      \/ ProcessPriority(s, dep, TRUE)
                      \/ ProcessHeadersPriority(s, dep, TRUE),
                      s \in Open', dep \in (Open \cup {Root}) \ {s}
               PROVE  Alone(s, dep)
    OBVIOUS
  <2> HIDE DEF Alone
  <2>1. CASE ProcessPriority(s, dep, TRUE)
    <3>1. Open' = Open /\ Open \in SUBSET Streams
      BY <2>1 DEF ProcessPriority, Open
    <3>2. QED
      BY <1>1, <2>1, <3>1 DEF ProcessPriority
  <2>2. CASE ProcessHeadersPriority(s, dep, TRUE)
    <3>1. Open' = Open \cup {s} /\ Open \in SUBSET Streams
      BY <2>2 DEF ProcessHeadersPriority, Open, TypeOK
    <3>2. QED
      BY <1>1, <2>2, <3>1 DEF ProcessHeadersPriority
  <2>3. QED
    BY <2>1, <2>2
<1>3. QED
  BY <1>2, TypeCorrect, PTL DEF Spec, ExclusiveHasNoSibling

---------------------------------------------------------------------------
(* The loop of adjustStreamPriority *)

\* A set of numbers that is not empty has a least one.
LEMMA LeastNumber ==
  ASSUME NEW T \in SUBSET Nat, T # {}
  PROVE  \E n \in T : \A m \in T : n <= m
<1>1. PICK x \in T : \A y \in T : <<y, x>> \notin OpToRel(<, Nat)
  BY NatLessThanWellFounded, WFMin
<1>2. OpToRel(<, Nat) = {ss \in Nat \X Nat : ss[1] < ss[2]}
  BY DEF OpToRel
<1>3. ASSUME NEW y \in T PROVE x <= y
  <2>1. <<y, x>> \in Nat \X Nat /\ <<y, x>>[1] = y /\ <<y, x>>[2] = x
    OBVIOUS
  <2>2. ~(y < x)
    BY <1>1, <1>2, <2>1
  <2>3. x \in Nat /\ y \in Nat
    OBVIOUS
  <2>4. QED
    BY <2>2, <2>3
<1>4. QED
  BY <1>3

\* The walk g of n steps up the tree from p
Walks(tree, p, n, g) ==
  g = [i \in 0..n |-> IF i = 0 THEN p
                      ELSE IF g[i - 1] = Nil THEN Nil ELSE tree[g[i - 1]]]

LEMMA WalkExists ==
  ASSUME NEW tree, NEW p, NEW n \in Nat
  PROVE  \E g : Walks(tree, p, n, g)
<1> DEFINE Bad == {m \in Nat : ~\E g : Walks(tree, p, m, g)}
<1>1. SUFFICES ASSUME Bad # {} PROVE FALSE
  OBVIOUS
<1> HIDE DEF Bad
<1>2. Bad \in SUBSET Nat
  BY DEF Bad
<1>3. PICK m \in Bad : \A k \in Bad : m <= k
  BY <1>1, <1>2, LeastNumber
<1>4. m \in Nat /\ ~\E g : Walks(tree, p, m, g)
  BY DEF Bad
<1>5. CASE m = 0
  <2> DEFINE g == [i \in 0..0 |-> p]
  <2>1. Walks(tree, p, 0, g)
    BY DEF Walks
  <2>2. QED
    BY <1>4, <1>5, <2>1
<1>6. CASE m # 0
  <2>1. m - 1 \in Nat /\ ~(m <= m - 1)
    BY <1>4, <1>6
  <2>2. m - 1 \notin Bad
    BY <1>3, <2>1
  <2>3. PICK g : Walks(tree, p, m - 1, g)
    BY <2>1, <2>2 DEF Bad
  <2> DEFINE h == [i \in 0..m |-> IF i \in 0..(m - 1) THEN g[i]
                                  ELSE IF g[m - 1] = Nil THEN Nil ELSE tree[g[m - 1]]]
  <2>4. \A i \in 0..(m - 1) :
          g[i] = IF i = 0 THEN p ELSE IF g[i - 1] = Nil THEN Nil ELSE tree[g[i - 1]]
    BY <2>3 DEF Walks
  <2>5. ASSUME NEW i \in 0..m
        PROVE  h[i] = IF i = 0 THEN p ELSE IF h[i - 1] = Nil THEN Nil ELSE tree[h[i - 1]]
    <3>1. CASE i = 0
      BY <2>1, <2>4, <3>1
    <3>2. CASE i # 0
      <4>1. i - 1 \in 0..(m - 1) /\ i - 1 \in 0..m
        BY <1>4, <3>2
      <4>2. h[i - 1] = g[i - 1]
        BY <4>1
      <4>3. CASE i = m
        BY <1>4, <1>6, <4>2, <4>3
      <4>4. CASE i # m
        BY <1>4, <2>4, <3>2, <4>2, <4>4
      <4>5. QED
        BY <4>3, <4>4
    <3>3. QED
      BY <3>1, <3>2
  <2>6. Walks(tree, p, m, h)
    <3>1. h = [i \in 0..m |-> h[i]]
      OBVIOUS
    <3> HIDE DEF h
    <3>2. QED
      BY <2>5, <3>1 DEF Walks
  <2>7. QED
    BY <1>4, <2>6
<1>7. QED
  BY <1>5, <1>6

\* What one step does; the walk meets streams, and nothing more once it met Nil.
LEMMA WalkSteps ==
  ASSUME NEW tree \in Trees, NEW p \in Streams, NEW n \in Nat, NEW g, Walks(tree, p, n, g)
  PROVE  /\ DOMAIN g = 0..n /\ g[0] = p
         /\ \A i \in 0..n : i + 1 \in 0..n =>
              g[i + 1] = IF g[i] = Nil THEN Nil ELSE tree[g[i]]
         /\ \A i \in 0..n : g[i] \in Streams \cup {Nil}
         /\ \A i \in 0..n : g[i] = Nil => g[n] = Nil
<1>1. /\ DOMAIN g = 0..n
      /\ \A i \in 0..n :
           g[i] = IF i = 0 THEN p ELSE IF g[i - 1] = Nil THEN Nil ELSE tree[g[i - 1]]
  BY DEF Walks
<1>2. g[0] = p
  BY <1>1
<1>3. ASSUME NEW i \in 0..n, i + 1 \in 0..n
      PROVE  g[i + 1] = IF g[i] = Nil THEN Nil ELSE tree[g[i]]
  <2>1. i + 1 # 0 /\ (i + 1) - 1 = i
    BY <1>3
  <2>2. QED
    BY <1>1, <1>3, <2>1
<1>4. ASSUME NEW T \in SUBSET (0..n), T # {}
      PROVE  \E m \in T : \A k \in 0..n : k + 1 = m => k \notin T
  <2>1. T \in SUBSET Nat
    OBVIOUS
  <2>2. PICK m \in T : \A k \in T : m <= k
    BY <1>4, <2>1, LeastNumber
  <2>3. QED
    BY <2>2
<1>5. ASSUME NEW m \in 0..n, m # 0
      PROVE  m - 1 \in 0..n /\ (m - 1) + 1 = m /\ g[m] = IF g[m - 1] = Nil THEN Nil ELSE tree[g[m - 1]]
  BY <1>1, <1>5
<1>6. \A i \in 0..n : g[i] \in Streams \cup {Nil}
  <2> DEFINE T == {i \in 0..n : g[i] \notin Streams \cup {Nil}}
  <2>1. SUFFICES ASSUME T # {} PROVE FALSE
    OBVIOUS
  <2>2. PICK m \in T : \A k \in 0..n : k + 1 = m => k \notin T
    BY <1>4, <2>1
  <2>3. m # 0
    BY <1>2
  <2>4. g[m - 1] \in Streams \cup {Nil}
    BY <1>5, <2>2, <2>3
  <2>5. QED
    BY <1>5, <2>3, <2>4 DEF Trees
<1>7. ASSUME NEW i \in 0..n, g[i] = Nil PROVE g[n] = Nil
  <2> DEFINE T == {j \in 0..n : i <= j /\ g[j] # Nil}
  <2>1. SUFFICES ASSUME T # {} PROVE FALSE
    BY <1>7
  <2>2. PICK m \in T : \A k \in 0..n : k + 1 = m => k \notin T
    BY <1>4, <2>1
  <2>3. m # 0 /\ m # i /\ i <= m - 1
    BY <1>7
  <2>4. g[m - 1] = Nil
    BY <1>5, <2>2, <2>3
  <2>5. QED
    BY <1>5, <2>3, <2>4
<1>8. QED
  BY <1>1, <1>2, <1>3, <1>6, <1>7

\* In a tree a walk never comes back to a stream, so that it ends when there are no
\* more streams to meet.
LEMMA WalkEnds ==
  ASSUME NEW tree \in Trees, WellFounded(tree), NEW p \in Streams, NEW g,
         Walks(tree, p, Cardinality(Streams), g)
  PROVE  g[Cardinality(Streams)] = Nil
<1> DEFINE n == Cardinality(Streams)
<1>1. n \in Nat
  BY FS_CardinalityType, StreamsAssumption
<1>2. SUFFICES ASSUME g[n] # Nil PROVE FALSE
  OBVIOUS
<1> HIDE DEF n
<1>3. /\ DOMAIN g = 0..n
      /\ \A i \in 0..n : i + 1 \in 0..n =>
           g[i + 1] = IF g[i] = Nil THEN Nil ELSE tree[g[i]]
      /\ \A i \in 0..n : g[i] \in Streams \cup {Nil}
      /\ \A i \in 0..n : g[i] = Nil => g[n] = Nil
  BY <1>1, WalkSteps DEF n
<1>4. \A i \in 0..n : g[i] \in Streams /\ (i + 1 \in 0..n => g[i + 1] = tree[g[i]])
  BY <1>2, <1>3
<1>5. ASSUME NEW i \in 0..n, NEW j \in 0..n, i < j PROVE g[i] # g[j]
  <2>1. SUFFICES ASSUME g[i] = g[j] PROVE FALSE
    OBVIOUS
  <2> DEFINE S == {g[k] : k \in i..(j - 1)}
  <2>2. S \in SUBSET Streams
    BY <1>1, <1>4
  <2>3. g[i] \in S
    BY <1>1, <1>5
  <2>4. ASSUME NEW k \in i..(j - 1) PROVE tree[g[k]] \in S
    <3>1. k \in 0..n /\ k + 1 \in 0..n /\ tree[g[k]] = g[k + 1]
      BY <1>1, <1>4
    <3>2. CASE k + 1 = j
      BY <2>1, <2>3, <3>1, <3>2
    <3>3. CASE k + 1 # j
      BY <1>1, <3>1, <3>3
    <3>4. QED
      BY <3>2, <3>3
  <2>5. \A x \in S : tree[x] \in S
    BY <2>4
  <2>6. QED
    BY <2>2, <2>3, <2>5 DEF WellFounded
<1>6. g \in [0..n -> Streams]
  <2>1. g = [i \in 0..n |-> g[i]]
    <3>1. Walks(tree, p, n, g)
      BY DEF n
    <3>2. QED
      BY <3>1 DEF Walks
  <2>2. QED
    BY <1>4, <2>1
<1>7. IsFiniteSet(0..n) /\ Cardinality(0..n) = n + 1
  BY <1>1, FS_Interval
<1>8. \E i, j \in 0..n : i # j /\ g[i] = g[j]
  BY <1>1, <1>6, <1>7, FS_PigeonHole, StreamsAssumption DEF n
<1>9. QED
  BY <1>1, <1>5, <1>8

\* The loop meets the streams of the chain and no others.
LEMMA WalkMeets ==
  ASSUME NEW tree \in Trees, NEW p \in Streams, NEW st \in Streams, NEW n \in Nat, NEW g,
         Walks(tree, p, n, g), g[n] = Nil
  PROVE  OnChain(tree, p, st) <=> \E i \in 0..n : g[i] = st
<1>1. /\ DOMAIN g = 0..n /\ g[0] = p
      /\ \A i \in 0..n : i + 1 \in 0..n =>
           g[i + 1] = IF g[i] = Nil THEN Nil ELSE tree[g[i]]
      /\ \A i \in 0..n : g[i] \in Streams \cup {Nil}
  BY WalkSteps
<1>2. ASSUME OnChain(tree, p, st) PROVE \E i \in 0..n : g[i] = st
  <2> DEFINE S == {g[i] : i \in 0..n} \ {Nil}
  <2>1. S \in SUBSET Streams /\ p \in S
    BY <1>1, NamesAssumption
  <2>2. ASSUME NEW x \in S PROVE tree[x] \in S \cup {Nil}
    <3>1. PICK i \in 0..n : g[i] = x /\ x # Nil
      OBVIOUS
    <3>2. i + 1 \in 0..n
      BY <3>1
    <3>3. tree[x] = g[i + 1]
      BY <1>1, <3>1, <3>2
    <3>4. QED
      BY <3>2, <3>3
  <2>3. st \in S
    BY <1>2, <2>1, <2>2 DEF OnChain
  <2>4. QED
    BY <2>3
<1>3. ASSUME NEW i \in 0..n, g[i] = st PROVE OnChain(tree, p, st)
  <2>1. SUFFICES ASSUME NEW S \in SUBSET Streams, p \in S,
                        \A x \in S : tree[x] \in S \cup {Nil}
                 PROVE  st \in S
    BY DEF OnChain
  <2> DEFINE T == {k \in 0..n : g[k] \notin S \cup {Nil}}
  <2>2. T = {}
    <3>1. SUFFICES ASSUME T # {} PROVE FALSE
      OBVIOUS
    <3>2. T \in SUBSET Nat
      OBVIOUS
    <3> HIDE DEF T
    <3>3. PICK m \in T : \A k \in T : m <= k
      BY <3>1, <3>2, LeastNumber
    <3>4. m \in 0..n /\ g[m] \notin S \cup {Nil} /\ m # 0
      BY <1>1, <2>1 DEF T
    <3>5. m - 1 \in 0..n /\ (m - 1) + 1 = m /\ m - 1 \notin T
      BY <3>3, <3>4
    <3>6. g[m - 1] \in S \cup {Nil}
      BY <3>5 DEF T
    <3>7. g[m] = IF g[m - 1] = Nil THEN Nil ELSE tree[g[m - 1]]
      BY <1>1, <3>4, <3>5
    <3>8. QED
      BY <2>1, <3>4, <3>6, <3>7
  <2>3. QED
    BY <1>3, <2>2, NamesAssumption
<1>4. QED
  BY <1>2, <1>3

LEMMA VisitedWalks ==
  ASSUME NEW p
  PROVE  Walks(parent, p, Cardinality(Streams), Visited(p))
<1>1. Cardinality(Streams) \in Nat
  BY FS_CardinalityType, StreamsAssumption
<1>2. \E g : Walks(parent, p, Cardinality(Streams), g)
  BY <1>1, WalkExists
<1>3. Visited(p) = CHOOSE g : Walks(parent, p, Cardinality(Streams), g)
  BY DEF Visited, Walks
<1>4. QED
  BY <1>2, <1>3

\* In whatever tree the frames of a client produce, the loop of adjustStreamPriority
\* finds st exactly when p depends on it, and is at the root after as many steps as
\* there are streams, closed ones included: serve never hangs in it.
THEOREM LoopEnds == Spec => []LoopDecides
<1>1. TypeOK /\ Acyclic => LoopDecides
  <2> SUFFICES ASSUME TypeOK, Acyclic, NEW p \in Streams, NEW st \in Streams
               PROVE  LET at == Visited(p) IN
                      /\ OnChain(parent, p, st) <=> \E i \in DOMAIN at : at[i] = st
                      /\ at[Cardinality(Streams)] = Nil
    BY DEF LoopDecides
  <2> DEFINE at == Visited(p)
             n  == Cardinality(Streams)
  <2>1. n \in Nat
    BY FS_CardinalityType, StreamsAssumption
  <2>2. parent \in Trees /\ WellFounded(parent)
    BY DEF TypeOK, Acyclic, Trees, WellFounded
  <2>3. Walks(parent, p, n, at)
    BY VisitedWalks
  <2> HIDE DEF at
  <2>4. at[n] = Nil
    BY <2>2, <2>3, WalkEnds
  <2> HIDE DEF n
  <2>5. DOMAIN at = 0..n
    BY <2>1, <2>2, <2>3, WalkSteps
  <2>6. OnChain(parent, p, st) <=> \E i \in 0..n : at[i] = st
    BY <2>1, <2>2, <2>3, <2>4, WalkMeets
  <2>7. QED
    BY <2>4, <2>5, <2>6 DEF at, n
<1>2. QED
  BY <1>1, TypeCorrect, TreeStaysATree, PTL
=============================================================================
