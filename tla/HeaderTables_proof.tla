------------------------- MODULE HeaderTables_proof -------------------------
(***************************************************************************)
(* For any fields, sizes and numbers of SETTINGS: if headers are encoded   *)
(* and SETTINGS are processed one after the other, the client decodes the  *)
(* fields that were written, with a table that it allows, and the tables   *)
(* are the same when nothing is on its way.                                *)
(*                                                                         *)
(* The decoder is behind the encoder by what is on its way.  So the        *)
(* invariant is that the messages of the wire lead it from where it is to  *)
(* where the encoder is, by a path of places (a table, the number of       *)
(* fields, the number of acknowledgements), each of which follows from the *)
(* one before by what the decoder does with the message between them.  The *)
(* server adds a place at the end, the client takes the first away.        *)
(*                                                                         *)
(* Two facts carry it.  A table that is cut to one size and then to        *)
(* another has the entries it would have if cut to the smaller (FitTwice), *)
(* so the least of the sizes and the last are all that has to be told.     *)
(* And there are never more acknowledgements on their way, or owed, than   *)
(* SETTINGS that were processed (Owed), so no size is sent that the client *)
(* will have ceased to allow when it gets there.                           *)
(***************************************************************************)
EXTENDS HeaderTables, FiniteSetTheorems, SequenceTheorems, WellFoundedInduction, TLAPS

---------------------------------------------------------------------------
(* Numbers and their sums *)

LEMMA SmallestNumber ==
  ASSUME NEW T \in SUBSET Nat, T # {}
  PROVE  \E n \in T : \A m \in T : n <= m
  <1>1. IsWellFoundedOn(OpToRel(<, Nat), Nat)
    BY NatLessThanWellFounded
  <1>2. \E x \in T : \A y \in T : <<y, x>> \notin OpToRel(<, Nat)
    BY <1>1, WFMin
  <1>3. OpToRel(<, Nat) = {ss \in Nat \X Nat : ss[1] < ss[2]}
    BY DEF OpToRel
  <1>4. PICK x \in T : \A y \in T : <<y, x>> \notin {ss \in Nat \X Nat : ss[1] < ss[2]}
    BY <1>2, <1>3
  <1>5. ASSUME NEW y \in T PROVE x <= y
    <2>1. <<y, x>> \in Nat \X Nat /\ <<y, x>>[1] = y /\ <<y, x>>[2] = x
      OBVIOUS
    <2>2. ~ (y < x)
      BY <1>4, <2>1
    <2>3. x \in Nat /\ y \in Nat
      OBVIOUS
    <2> QED BY <2>2, <2>3
  <1> QED BY <1>5

LEMMA SmallestSet ==
  ASSUME NEW S, IsFiniteSet(S), NEW T \in SUBSET (SUBSET S), T # {}
  PROVE  \E U \in T : \A V \in SUBSET U : V # U => V \notin T
  <1>1. IsWellFoundedOn(StrictSubsetOrdering(S), FiniteSubsetsOf(S))
    BY FS_StrictSubsetOrderingWellFounded
  <1>2. FiniteSubsetsOf(S) = SUBSET S
    BY FS_FiniteSubsetsOfFinite
  <1>3. \E x \in T : \A y \in T : <<y, x>> \notin StrictSubsetOrdering(S)
    BY <1>1, <1>2, WFMin
  <1> QED BY <1>3 DEF StrictSubsetOrdering

Chosen(s) == CHOOSE x \in s : TRUE
Rest(s) == s \ {Chosen(s)}

Adds(f, S, g) == g = [s \in SUBSET S |-> IF s = {} THEN 0 ELSE f[Chosen(s)] + g[Rest(s)]]

LEMMA SumUnfold == ASSUME NEW f, NEW S
  PROVE SumFunctionOnSet(f, S) = (CHOOSE g : Adds(f,S,g))[S]
  BY DEF SumFunctionOnSet, FoldFunctionOnSet, MapThenFoldSet, Adds, Chosen, Rest

\* Sums exist, by induction on the size of the sets summed over
UpTo(S, n) == {s \in SUBSET S : Cardinality(s) <= n}

LEMMA SumExists ==
  ASSUME NEW S, IsFiniteSet(S), NEW f, \A x \in S : f[x] \in Int
  PROVE  \E g \in [SUBSET S -> Int] : Adds(f, S, g)
  <1> DEFINE AddsUpTo(n, g) ==
        \A s \in UpTo(S, n) : g[s] = IF s = {} THEN 0 ELSE f[Chosen(s)] + g[Rest(s)]
      Bad == {n \in Nat : ~ \E g \in [UpTo(S, n) -> Int] : AddsUpTo(n, g)}
  <1>0. \A s \in SUBSET S : /\ IsFiniteSet(s) /\ Cardinality(s) \in Nat
                            /\ s # {} => /\ Chosen(s) \in s /\ Rest(s) \in SUBSET S
                                         /\ Cardinality(Rest(s)) = Cardinality(s) - 1
    BY FS_Subset, FS_CardinalityType, FS_RemoveElement DEF Chosen, Rest
  <1>1. Bad = {}
    <2> SUFFICES ASSUME Bad # {} PROVE FALSE
      OBVIOUS
    <2>1. PICK n \in Bad : \A m \in Bad : n <= m
      <3> HIDE DEF Bad
      <3>1. Bad \subseteq Nat
        BY DEF Bad
      <3> QED BY <3>1, SmallestNumber
    <2>2. n # 0
      <3> SUFFICES ASSUME n = 0 PROVE FALSE
        OBVIOUS
      <3> DEFINE g == [s \in UpTo(S, 0) |-> 0]
      <3>1. \A s \in UpTo(S, 0) : s = {}
        BY <1>0, FS_EmptySet DEF UpTo
      <3>2. g \in [UpTo(S, 0) -> Int] /\ AddsUpTo(0, g)
        BY <3>1
      <3> QED BY <3>2
    <2>3. n - 1 \in Nat /\ n - 1 \notin Bad
      BY <2>1, <2>2
    <2>4. PICK g \in [UpTo(S, n - 1) -> Int] : AddsUpTo(n - 1, g)
      BY <2>3
    <2> DEFINE h == [s \in UpTo(S, n) |-> IF s = {} THEN 0 ELSE f[Chosen(s)] + g[Rest(s)]]
    <2>5. \A s \in UpTo(S, n) : s # {} => Rest(s) \in UpTo(S, n - 1)
      BY <1>0, <2>1 DEF UpTo
    <2>6. h \in [UpTo(S, n) -> Int]
      BY <1>0, <2>5 DEF UpTo
    <2>7. \A s \in UpTo(S, n - 1) : s \in UpTo(S, n) /\ h[s] = g[s]
      BY <1>0, <2>1, <2>4 DEF UpTo
    <2>8. AddsUpTo(n, h)
      BY <2>5, <2>7
    <2> QED BY <2>1, <2>6, <2>8
  <1>2. Cardinality(S) \in Nat /\ UpTo(S, Cardinality(S)) = SUBSET S
    BY FS_CardinalityType, FS_Subset DEF UpTo
  <1>3. PICK g \in [SUBSET S -> Int] : AddsUpTo(Cardinality(S), g)
    BY <1>1, <1>2
  <1>4. Adds(f, S, g)
    BY <1>2, <1>3 DEF Adds
  <1> QED BY <1>4

\* It does not matter within which set one adds up, only what.
LEMMA SumUnique ==
  ASSUME NEW S, IsFiniteSet(S), NEW T, IsFiniteSet(T), NEW f, NEW h,
         NEW a, Adds(f, S, a), NEW b, Adds(h, T, b), NEW U \in SUBSET (S \cap T),
         \A x \in U : f[x] = h[x]
  PROVE  a[U] = b[U]
  <1> DEFINE Bad == {s \in SUBSET U : a[s] # b[s]}
  <1> SUFFICES ASSUME Bad # {} PROVE FALSE
    OBVIOUS
  <1>1. IsFiniteSet(U)
    BY FS_Subset
  <1>2. PICK s \in Bad : \A v \in SUBSET s : v # s => v \notin Bad
    <2>1. Bad \in SUBSET (SUBSET U)
      OBVIOUS
    <2> HIDE DEF Bad
    <2> QED BY <1>1, <2>1, SmallestSet
  <1>3. s # {}
    BY <1>2 DEF Adds
  <1>4. Chosen(s) \in s /\ Rest(s) \in SUBSET s /\ Rest(s) # s
    BY <1>3 DEF Chosen, Rest
  <1>5. a[Rest(s)] = b[Rest(s)]
    BY <1>2, <1>4
  <1>6. a[s] = f[Chosen(s)] + a[Rest(s)] /\ b[s] = h[Chosen(s)] + b[Rest(s)]
    BY <1>2, <1>3 DEF Adds
  <1> QED BY <1>2, <1>4, <1>5, <1>6

LEMMA SumType ==
  ASSUME NEW S, IsFiniteSet(S), NEW f, \A x \in S : f[x] \in Int
  PROVE  SumFunctionOnSet(f, S) \in Int
  <1>1. PICK g \in [SUBSET S -> Int] : Adds(f, S, g)
    BY SumExists
  <1> DEFINE b == CHOOSE b : Adds(f, S, b)
  <1>2. Adds(f, S, b)
    BY <1>1
  <1> HIDE DEF b
  <1>3. g[S] = b[S]
    BY <1>1, <1>2, SumUnique
  <1> QED BY <1>1, <1>3, SumUnfold DEF b

LEMMA SumEmpty ==
  ASSUME NEW f
  PROVE  SumFunctionOnSet(f, {}) = 0
  <1>1. IsFiniteSet({})
    BY FS_EmptySet
  <1>2. PICK g \in [SUBSET {} -> Int] : Adds(f, {}, g)
    BY <1>1, SumExists
  <1> DEFINE b == CHOOSE b : Adds(f, {}, b)
  <1>3. Adds(f, {}, b)
    BY <1>2
  <1> HIDE DEF b
  <1>4. b[{}] = 0
    BY <1>3 DEF Adds
  <1> QED BY <1>4, SumUnfold DEF b

LEMMA LeastIs ==
  ASSUME NEW S \in SUBSET Nat, S # {}
  PROVE  Min(S) \in S /\ \A n \in S : Min(S) <= n
  <1>1. \E n \in S : \A m \in S : n <= m
    BY SmallestNumber
  <1> QED BY <1>1 DEF Min

LEMMA LessOf ==
  ASSUME NEW a \in Nat, NEW b \in Nat
  PROVE  Min({a, b}) = IF a <= b THEN a ELSE b
  <1>1. Min({a, b}) \in {a, b} /\ \A n \in {a, b} : Min({a, b}) <= n
    BY LeastIs
  <1> QED BY <1>1

LEMMA MoreOf ==
  ASSUME NEW a \in Nat, NEW b \in Nat
  PROVE  Max({a, b}) = IF a <= b THEN b ELSE a
  <1> DEFINE m == IF a <= b THEN b ELSE a
  <1>1. m \in {a, b} /\ \A n \in {a, b} : m >= n
    OBVIOUS
  <1>2. \A x \in {a, b} : (\A n \in {a, b} : x >= n) => x = m
    OBVIOUS
  <1> HIDE DEF m
  <1>3. Max({a, b}) = m
    BY <1>1, <1>2 DEF Max
  <1> QED BY <1>3 DEF m

\* Any bound will do to see that the numbers in a sequence have a largest.
LEMMA LargestOf ==
  ASSUME NEW U \in Seq(Nat), Len(U) > 0, NEW b \in Nat, \A i \in DOMAIN U : U[i] <= b
  PROVE  LET m == Max({U[i] : i \in DOMAIN U}) IN
         m \in Nat /\ \A i \in DOMAIN U : U[i] <= m
  <1> DEFINE R == {U[i] : i \in DOMAIN U}
             B == {n \in Nat : \A i \in DOMAIN U : U[i] <= n}
  <1>1. \A i \in DOMAIN U : U[i] \in Nat
    OBVIOUS
  <1>2. 1 \in DOMAIN U
    OBVIOUS
  <1>3. PICK n \in B : \A m \in B : n <= m
    <2>1. B \in SUBSET Nat /\ b \in B
      OBVIOUS
    <2> HIDE DEF B
    <2> QED BY <2>1, SmallestNumber
  <1>4. n \in R
    <2> SUFFICES ASSUME n \notin R PROVE FALSE
      OBVIOUS
    <2>1. \A i \in DOMAIN U : U[i] # n /\ U[i] <= n /\ n \in Nat
      BY <1>3
    <2>2. \A i \in DOMAIN U : U[i] <= n - 1
      BY <1>1, <2>1
    <2>3. n - 1 \in Nat
      BY <1>1, <1>2, <2>2, <1>3
    <2>4. n - 1 \in B
      BY <2>2, <2>3
    <2>5. n <= n - 1 /\ n \in Nat
      BY <1>3, <2>4
    <2> QED BY <2>5
  <1>5. \A r \in R : n >= r
    BY <1>1, <1>3
  <1>6. R \subseteq Nat
    BY <1>1
  <1> HIDE DEF R, B
  <1>7. Max(R) \in R /\ \A r \in R : Max(R) >= r
    BY <1>4, <1>5 DEF Max
  <1> QED BY <1>1, <1>6, <1>7 DEF R

---------------------------------------------------------------------------
(* Tables *)

LEMMA SizeType == ASSUME NEW f \in Fields PROVE Size(f) \in Nat
  BY FieldsAssumption DEF Size

LEMMA UseType ==
  ASSUME NEW e \in Seq(Fields)
  PROVE  TableUse(e) \in Int
  <1> DEFINE F == [i \in DOMAIN e |-> Size(e[i])]
  <1>1. DOMAIN e = 1..Len(e) /\ Len(e) \in Nat /\ \A i \in DOMAIN e : e[i] \in Fields
    OBVIOUS
  <1>2. IsFiniteSet(DOMAIN e)
    BY <1>1, FS_Interval
  <1>3. \A i \in DOMAIN e : F[i] \in Int
    BY <1>1, SizeType
  <1>4. DOMAIN F = DOMAIN e
    OBVIOUS
  <1>5. TableUse(e) = SumFunctionOnSet(F, DOMAIN e)
    BY <1>4 DEF TableUse, SumFunction
  <1> HIDE DEF F
  <1> QED BY <1>2, <1>3, <1>5, SumType

LEMMA UseNothing ==
  ASSUME NEW e, e = <<>>
  PROVE  TableUse(e) = 0
  <1> DEFINE F == [i \in DOMAIN e |-> Size(e[i])]
  <1>1. DOMAIN F = {}
    OBVIOUS
  <1>2. TableUse(e) = SumFunctionOnSet(F, {})
    BY <1>1 DEF TableUse, SumFunction
  <1> QED BY <1>2, SumEmpty

\* What evict keeps of entries, and where it starts
Keeping(e, m) == {k \in 1..Len(e) + 1 : TableUse(SubSeq(e, k, Len(e))) <= m}
Oldest(e, m)  == Min(Keeping(e, m))
Fit(e, m)     == SubSeq(e, Oldest(e, m), Len(e))

LEMMA EvictFits ==
  ASSUME NEW e, NEW m
  PROVE  Evict([ents |-> e, max |-> m]) = [ents |-> Fit(e, m), max |-> m]
  <1> DEFINE t == [ents |-> e, max |-> m]
  <1>1. t.ents = e /\ t.max = m
    OBVIOUS
  <1>2. Min({k \in 1..Len(t.ents) + 1 : TableUse(SubSeq(t.ents, k, Len(t.ents))) <= t.max})
          = Oldest(e, m)
    BY <1>1 DEF Oldest, Keeping
  <1>3. Evict(t) = [t EXCEPT !.ents = SubSeq(t.ents, Oldest(e, m), Len(t.ents))]
    BY <1>2, Zenon DEF Evict
  <1>4. Evict(t) = [t EXCEPT !.ents = Fit(e, m)]
    BY <1>1, <1>3 DEF Fit
  <1> QED BY <1>4

LEMMA OldestIs ==
  ASSUME NEW e \in Seq(Fields), NEW m \in Nat
  PROVE  /\ Oldest(e, m) \in 1..Len(e) + 1
         /\ TableUse(SubSeq(e, Oldest(e, m), Len(e))) <= m
         /\ \A k \in 1..Len(e) + 1 :
              TableUse(SubSeq(e, k, Len(e))) <= m => Oldest(e, m) <= k
  <1>1. Len(e) \in Nat /\ SubSeq(e, Len(e) + 1, Len(e)) = <<>>
    OBVIOUS
  <1>2. Len(e) + 1 \in Keeping(e, m)
    <2>1. TableUse(SubSeq(e, Len(e) + 1, Len(e))) = 0
      BY <1>1, UseNothing, Zenon
    <2>2. Len(e) + 1 \in 1..Len(e) + 1 /\ 0 <= m
      BY <1>1
    <2> QED BY <2>1, <2>2 DEF Keeping
  <1>3. Keeping(e, m) \in SUBSET Nat /\ Keeping(e, m) # {}
    BY <1>2 DEF Keeping
  <1>4. Oldest(e, m) \in Keeping(e, m) /\ \A k \in Keeping(e, m) : Oldest(e, m) <= k
    BY <1>3, LeastIs DEF Oldest
  <1> QED BY <1>4 DEF Keeping

LEMMA FitType ==
  ASSUME NEW e \in Seq(Fields), NEW m \in Nat
  PROVE  Fit(e, m) \in Seq(Fields) /\ TableUse(Fit(e, m)) <= m
  <1>1. Oldest(e, m) \in 1..Len(e) + 1
    BY OldestIs
  <1>2. SubSeq(e, Oldest(e, m), Len(e)) \in Seq(Fields)
    BY <1>1, SubSeqProperties
  <1> QED BY <1>2, OldestIs DEF Fit

LEMMA FitAll ==
  ASSUME NEW e \in Seq(Fields), NEW m \in Nat, TableUse(e) <= m
  PROVE  Fit(e, m) = e
  <1>1. SubSeq(e, 1, Len(e)) = e /\ Len(e) \in Nat /\ 1 \in 1..Len(e) + 1
    OBVIOUS
  <1>2. Oldest(e, m) \in 1..Len(e) + 1 /\ Oldest(e, m) <= 1
    BY <1>1, OldestIs
  <1>3. Oldest(e, m) = 1
    BY <1>1, <1>2
  <1> QED BY <1>1, <1>3 DEF Fit

\* Two sizes, one after the other, leave what the smaller one leaves.
LEMMA FitTwice ==
  ASSUME NEW e \in Seq(Fields), NEW a \in Nat, NEW b \in Nat
  PROVE  Fit(Fit(e, a), b) = Fit(e, IF a <= b THEN a ELSE b)
  <1> DEFINE k == Oldest(e, a)
             f == Fit(e, a)
             n == Len(e)
  <1>1. f \in Seq(Fields) /\ TableUse(f) <= a
    BY FitType
  <1>2. CASE a <= b
    <2>1. TableUse(f) <= b
      BY <1>1, <1>2, UseType
    <2> QED BY <1>1, <1>2, <2>1, FitAll
  <1>3. CASE ~(a <= b)
    <2> DEFINE j == Oldest(e, b)
               i == Oldest(f, b)
    <2>1. /\ k \in 1..n + 1 /\ j \in 1..n + 1 /\ n \in Nat
          /\ TableUse(SubSeq(e, j, n)) <= b
      BY OldestIs
    <2>2. /\ i \in 1..Len(f) + 1 /\ TableUse(SubSeq(f, i, Len(f))) <= b
          /\ \A h \in 1..Len(f) + 1 : TableUse(SubSeq(f, h, Len(f))) <= b => i <= h
      BY <1>1, OldestIs
    <2>3. Len(f) = n - k + 1
      BY <2>1, SubSeqProperties DEF Fit
    <2>4. \A h \in 1..Len(f) + 1 : SubSeq(f, h, Len(f)) = SubSeq(e, k + h - 1, n)
      <3> SUFFICES ASSUME NEW h \in 1..Len(f) + 1
                   PROVE  SubSeq(f, h, Len(f)) = SubSeq(e, k + h - 1, n)
        OBVIOUS
      <3>1. f = SubSeq(e, k, n) /\ k \in Int /\ h \in Int /\ n \in Int
        BY <2>1, <2>3 DEF Fit
      <3> HIDE DEF f, k, n
      <3>2. f = [x \in 1..(n - k + 1) |-> e[x + k - 1]]
        BY <3>1 DEF SubSeq
      <3>3. SubSeq(f, h, Len(f)) = [x \in 1..(n - k + 1 - h + 1) |-> f[x + h - 1]]
        BY <2>3, <3>1 DEF SubSeq
      <3>4. SubSeq(e, k + h - 1, n) = [x \in 1..(n - (k + h - 1) + 1) |-> e[x + (k + h - 1) - 1]]
        BY <3>1 DEF SubSeq
      <3>5. n - (k + h - 1) + 1 = n - k + 1 - h + 1
        BY <3>1
      <3>6. ASSUME NEW x \in 1..(n - k + 1 - h + 1)
            PROVE  f[x + h - 1] = e[x + (k + h - 1) - 1]
        <4>1. x + h - 1 \in 1..(n - k + 1)
          BY <3>1, <2>3
        <4>2. f[x + h - 1] = e[(x + h - 1) + k - 1]
          BY <4>1, <3>2
        <4>3. (x + h - 1) + k - 1 = x + (k + h - 1) - 1
          BY <3>1
        <4> QED BY <4>2, <4>3
      <3> QED BY <3>3, <3>4, <3>5, <3>6
    <2>5. k <= j
      <3>1. SubSeq(e, j, n) \in Seq(Fields)
        BY <2>1, SubSeqProperties
      <3>2. TableUse(SubSeq(e, j, n)) <= a
        <4> DEFINE u == TableUse(SubSeq(e, j, n))
        <4>1. u \in Int /\ u <= b
          BY <2>1, <3>1, UseType
        <4> HIDE DEF u
        <4>2. u <= a
          BY <1>3, <4>1
        <4> QED BY <4>2 DEF u
      <3> QED BY <2>1, <3>2, OldestIs
    <2>6. j = k + i - 1
      <3>1. j - k + 1 \in 1..Len(f) + 1 /\ k + (j - k + 1) - 1 = j
        BY <2>1, <2>3, <2>5
      <3>2. SubSeq(f, j - k + 1, Len(f)) = SubSeq(e, j, n)
        BY <2>4, <3>1
      <3>3. i <= j - k + 1
        BY <2>1, <2>2, <3>1, <3>2
      <3>4. k + i - 1 \in 1..n + 1 /\ TableUse(SubSeq(e, k + i - 1, n)) <= b
        <4>1. TableUse(SubSeq(f, i, Len(f))) = TableUse(SubSeq(e, k + i - 1, n))
          BY <2>2, <2>4, Zenon
        <4>2. TableUse(SubSeq(e, k + i - 1, n)) <= b
          BY <2>2, <4>1, Zenon
        <4> HIDE DEF f, k, i, n
        <4>3. k + i - 1 \in 1..n + 1
          BY <2>1, <2>2, <2>3
        <4> QED BY <4>2, <4>3
      <3>5. j <= k + i - 1
        BY <3>4, OldestIs
      <3> HIDE DEF j, k, i
      <3> QED BY <2>1, <2>2, <3>3, <3>5
    <2>7. Fit(f, b) = SubSeq(e, j, n)
      BY <2>2, <2>4, <2>6 DEF Fit
    <2> QED BY <1>3, <2>7 DEF Fit
  <1> QED BY <1>2, <1>3

Tables == {t \in [ents : Seq(Fields), max : 0..TableSize] : TableUse(t.ents) <= t.max}

LEMMA TableHas ==
  ASSUME NEW t \in Tables
  PROVE  /\ t.ents \in Seq(Fields) /\ t.max \in 0..TableSize /\ t.max \in Nat
         /\ TableUse(t.ents) <= t.max /\ t = [ents |-> t.ents, max |-> t.max]
         /\ Len(t.ents) \in Nat
  BY SizesAssumption DEF Tables

LEMMA IsTable ==
  ASSUME NEW e \in Seq(Fields), NEW m \in 0..TableSize, TableUse(e) <= m
  PROVE  [ents |-> e, max |-> m] \in Tables
  BY DEF Tables

LEMMA SetMaxSizeFits ==
  ASSUME NEW t \in Tables, NEW v \in 0..TableSize
  PROVE  /\ SetMaxSize(t, v) = [ents |-> Fit(t.ents, v), max |-> v]
         /\ SetMaxSize(t, v) \in Tables
  <1>1. [t EXCEPT !.max = v] = [ents |-> t.ents, max |-> v]
    BY TableHas DEF Tables
  <1>2. SetMaxSize(t, v) = [ents |-> Fit(t.ents, v), max |-> v]
    BY <1>1, EvictFits DEF SetMaxSize
  <1>3. v \in Nat /\ t.ents \in Seq(Fields)
    BY TableHas, SizesAssumption
  <1> QED BY <1>2, <1>3, FitType, IsTable

LEMMA AddKeeps ==
  ASSUME NEW t \in Tables, NEW f \in Fields
  PROVE  Add(t, f) \in Tables /\ Add(t, f).max = t.max
  <1> DEFINE e == Append(t.ents, f)
  <1>1. e \in Seq(Fields) /\ t.max \in Nat /\ t.max \in 0..TableSize
    BY TableHas
  <1>2. [t EXCEPT !.ents = Append(t.ents, f)] = [ents |-> e, max |-> t.max]
    BY TableHas DEF Tables
  <1> HIDE DEF e
  <1>3. Add(t, f) = [ents |-> Fit(e, t.max), max |-> t.max]
    BY <1>2, EvictFits DEF Add, e
  <1> QED BY <1>1, <1>3, FitType, IsTable

\* No table is larger than one without a limit.
LEMMA FitUnset ==
  ASSUME NEW t \in Tables
  PROVE  Fit(t.ents, Unset) = t.ents
  <1> DEFINE u == TableUse(t.ents)
  <1>1. u \in Int /\ u <= t.max /\ t.max \in Nat /\ t.max <= TableSize /\ t.ents \in Seq(Fields)
    BY TableHas, UseType
  <1>2. Unset \in Nat /\ t.max <= Unset
    BY <1>1, SizesAssumption DEF Unset
  <1> HIDE DEF u
  <1>3. u <= Unset
    BY <1>1, <1>2
  <1> QED BY <1>1, <1>2, <1>3, FitAll DEF u

LEMMA SearchFinds ==
  ASSUME NEW t \in Tables, NEW f \in Fields
  PROVE  LET s == Search(t, f) IN
         /\ s.idx \in Nat
         /\ s.idx # 0 => s.idx \in Indexes(t) /\ At(t, s.idx).name = f.name
         /\ s.match => /\ s.idx \in Indexes(t) /\ At(t, s.idx).name = f.name
                       /\ At(t, s.idx).value = f.value /\ ~f.sensitive
  <1> DEFINE named == {i \in Indexes(t) : At(t, i).name = f.name}
             same  == {i \in named : ~f.sensitive /\ At(t, i).value = f.value}
             idx   == IF same # {} THEN Min(same) ELSE IF named # {} THEN Min(named) ELSE 0
  <1>1. Search(t, f) = [idx |-> idx, match |-> same # {}]
    BY DEF Search
  <1>2. named \subseteq Nat /\ same \subseteq named
    BY TableHas, FieldsAssumption DEF Indexes
  <1>3. named # {} => Min(named) \in named
    <2> HIDE DEF named
    <2> QED BY <1>2, LeastIs
  <1>4. same # {} => Min(same) \in same
    <2> HIDE DEF same, named
    <2>1. same \in SUBSET Nat
      BY <1>2
    <2> QED BY <2>1, LeastIs
  <1>5. idx \in Nat /\ (idx # 0 => idx \in named) /\ (same # {} => idx \in same)
    <2> HIDE DEF same, named
    <2> QED BY <1>2, <1>3, <1>4
  <1>6. \A i \in named : i \in Indexes(t) /\ At(t, i).name = f.name
    OBVIOUS
  <1>7. \A i \in same : i \in named /\ At(t, i).value = f.value /\ ~f.sensitive
    OBVIOUS
  <1>8. Search(t, f).idx = idx /\ Search(t, f).match = (same # {})
    BY <1>1
  <1> HIDE DEF same, named, idx
  <1> QED BY <1>5, <1>6, <1>7, <1>8

---------------------------------------------------------------------------
(* What is on its way leads the decoder to where the encoder is: a path    *)
(* with a place before and after each message, which says what the decoder *)
(* will then have decoded of the fields h, and with which table, and how   *)
(* many acknowledgements will have come to a client that is now c.         *)

Places == [table : Tables, n : Nat, acks : Nat]

Messages ==
  [kind : {"ack"}]
    \cup [kind : {"size"}, max : 0..TableSize]
    \cup [kind : {"indexed"}, idx : Nat]
    \cup [kind : {"literal"}, idx : Nat, name : {f.name : f \in Fields} \cup {""},
          value : {f.value : f \in Fields}, type : {"add", "without", "never"}]

IndexedAt(t, e) ==
  [name |-> At(t, e.idx).name, value |-> At(t, e.idx).value, sensitive |-> FALSE]

LiteralAt(t, e) ==
  [name |-> IF e.idx = 0 THEN e.name ELSE At(t, e.idx).name,
   value |-> e.value, sensitive |-> e.type = "never"]

\* The next field of h
Gives(h, r, t) == t.n = r.n + 1 /\ t.n <= Len(h) /\ t.acks = r.acks

Decodes(h, e, r, t) ==
  \/ e.kind = "ack" /\ t = [r EXCEPT !.acks = @ + 1]
  \/ /\ e.kind = "size" /\ e.max \in 0..TableSize
     /\ t = [r EXCEPT !.table = SetMaxSize(@, e.max)]
  \/ /\ e.kind = "indexed" /\ e.idx \in Indexes(r.table)
     /\ Gives(h, r, t) /\ t.table = r.table
     /\ IndexedAt(r.table, e) = h[t.n]
  \/ /\ e.kind = "literal" /\ e.idx \in Indexes(r.table) \cup {0}
     /\ Gives(h, r, t)
     /\ LiteralAt(r.table, e) = h[t.n]
     /\ t.table = IF e.type = "add" THEN Add(r.table, h[t.n]) ELSE r.table

\* What a client allows for sure after k more acknowledgements
InForce(c, m, k) ==
  IF k = 0 THEN m <= c.allowed ELSE \E j \in k..Len(c.unacked) : m <= c.unacked[j]

Step(h, c, e, r, t) ==
  /\ e \in Messages
  /\ Decodes(h, e, r, t)
  /\ e.kind # "ack" => InForce(c, t.table.max, t.acks)

Leads(r, t) == r.n <= t.n /\ r.acks <= t.acks

Path(h, c, w, run) ==
  /\ run \in [1..Len(w) + 1 -> Places]
  /\ \A p \in 1..Len(w) : Step(h, c, w[p], run[p], run[p + 1])
  /\ \A p \in 1..Len(w) + 1 : \A q \in p..Len(w) + 1 : Leads(run[p], run[q])

\* The messages w lead from one place to another.
Reaches(h, c, w, from, to) ==
  /\ w \in Seq(Messages)
  /\ \E run : Path(h, c, w, run) /\ run[1] = from /\ run[Len(w) + 1] = to

LEMMA PlaceHas ==
  ASSUME NEW r \in Places
  PROVE  /\ r.table \in Tables /\ r.n \in Nat /\ r.acks \in Nat
         /\ r = [table |-> r.table, n |-> r.n, acks |-> r.acks]
  BY DEF Places

\* More fields are written.
LEMMA PathWritten ==
  ASSUME NEW h \in Seq(Fields), NEW f \in Fields, NEW c, NEW w \in Seq(Messages), NEW run,
         Path(h, c, w, run)
  PROVE  Path(Append(h, f), c, w, run)
  <1> DEFINE g == Append(h, f)
  <1>1. Len(g) = Len(h) + 1 /\ Len(h) \in Nat /\ \A i \in 1..Len(h) : g[i] = h[i]
    OBVIOUS
  <1> HIDE DEF g
  <1>2. ASSUME NEW p \in 1..Len(w) PROVE Step(g, c, w[p], run[p], run[p + 1])
    <2>1. Step(h, c, w[p], run[p], run[p + 1])
      BY DEF Path
    <2> DEFINE e == w[p]
               r == run[p]
               t == run[p + 1]
    <2>2. r \in Places /\ t \in Places /\ p \in Nat
      BY DEF Path
    <2>3. Decodes(h, e, r, t)
      BY <2>1 DEF Step
    <2>4. r.n \in Nat /\ t.n \in Nat
      BY <2>2, PlaceHas
    <2> HIDE DEF e, r, t
    <2>5. Gives(h, r, t) => Gives(g, r, t) /\ g[t.n] = h[t.n]
      BY <1>1, <2>4 DEF Gives
    <2>6. Decodes(g, e, r, t)
      BY <2>3, <2>5 DEF Decodes
    <2> QED BY <2>1, <2>6 DEF Step, e, r, t
  <1>3. Path(g, c, w, run)
    BY <1>2 DEF Path
  <1> QED BY <1>3 DEF g

\* The client's limits and SETTINGS change, but what was allowed still is.
LEMMA PathAllowed ==
  ASSUME NEW h, NEW c, NEW d, NEW w \in Seq(Messages), NEW run, Path(h, c, w, run),
         \A m \in Nat : \A k \in Nat : InForce(c, m, k) => InForce(d, m, k)
  PROVE  Path(h, d, w, run)
  <1>1. ASSUME NEW p \in 1..Len(w) PROVE Step(h, d, w[p], run[p], run[p + 1])
    <2>1. Step(h, c, w[p], run[p], run[p + 1])
      BY DEF Path
    <2>2. run[p + 1] \in Places
      BY DEF Path
    <2>3. run[p + 1].table.max \in Nat /\ run[p + 1].acks \in Nat
      BY <2>2, PlaceHas, TableHas
    <2> QED BY <2>1, <2>3 DEF Step
  <1> QED BY <1>1 DEF Path

\* One more message
LEMMA PathAppend ==
  ASSUME NEW h, NEW c, NEW w, NEW from, NEW to, Reaches(h, c, w, from, to),
         NEW e, NEW t \in Places, Step(h, c, e, to, t), Leads(to, t)
  PROVE  Reaches(h, c, Append(w, e), from, t)
  <1>0. PICK run : Path(h, c, w, run) /\ run[1] = from /\ run[Len(w) + 1] = to
    BY DEF Reaches
  <1> DEFINE v == Append(w, e)
             n == Len(w)
             more == [p \in 1..n + 2 |-> IF p = n + 2 THEN t ELSE run[p]]
  <1>1. /\ v \in Seq(Messages) /\ Len(v) = n + 1 /\ n \in Nat
        /\ v[n + 1] = e /\ \A p \in 1..n : v[p] = w[p]
    BY DEF Reaches, Step
  <1>2. /\ run \in [1..n + 1 -> Places]
        /\ \A p \in 1..n : Step(h, c, w[p], run[p], run[p + 1])
        /\ \A p \in 1..n + 1 : \A q \in p..n + 1 : Leads(run[p], run[q])
    BY <1>0 DEF Path
  <1> HIDE DEF v, n
  <1>3. more \in [1..n + 2 -> Places]
    BY <1>1, <1>2
  <1>4. more[n + 2] = t /\ \A p \in 1..n + 1 : more[p] = run[p]
    BY <1>1
  <1> HIDE DEF more
  <1>5. ASSUME NEW p \in 1..n + 1 PROVE Step(h, c, v[p], more[p], more[p + 1])
    <2>1. CASE p = n + 1
      <3>1. more[p] = run[n + 1] /\ more[p + 1] = t /\ v[p] = e
        BY <1>1, <1>4, <2>1
      <3> QED BY <1>0, <3>1 DEF n
    <2>2. CASE p # n + 1
      <3>1. p \in 1..n /\ p + 1 \in 1..n + 1
        BY <1>1, <2>2
      <3>2. more[p] = run[p] /\ more[p + 1] = run[p + 1] /\ v[p] = w[p]
        BY <1>1, <1>4, <3>1
      <3> QED BY <1>2, <3>1, <3>2
    <2> QED BY <2>1, <2>2
  <1>6. ASSUME NEW p \in 1..n + 2, NEW q \in p..n + 2 PROVE Leads(more[p], more[q])
    <2>0. /\ p \in Nat /\ q \in Nat /\ t.n \in Nat /\ t.acks \in Nat
          /\ \A i \in 1..n + 1 : run[i].n \in Nat /\ run[i].acks \in Nat
      BY <1>1, <1>2, PlaceHas
    <2>1. CASE p = n + 2
      <3>1. p = q
        BY <1>1, <2>1
      <3> QED BY <1>4, <2>0, <2>1, <3>1 DEF Leads
    <2>2. CASE p # n + 2 /\ q = n + 2
      <3>1. p \in 1..n + 1 /\ n + 1 \in p..n + 1
        BY <1>1, <2>2
      <3>2. Leads(run[p], run[n + 1]) /\ Leads(run[n + 1], t)
        BY <1>0, <1>2, <3>1 DEF n
      <3>3. n + 1 \in 1..n + 1
        BY <1>1
      <3>4. Leads(run[p], t)
        BY <2>0, <3>1, <3>2, <3>3 DEF Leads
      <3> QED BY <1>4, <2>2, <3>1, <3>4
    <2>3. CASE p # n + 2 /\ q # n + 2
      <3>1. p \in 1..n + 1 /\ q \in p..n + 1 /\ q \in 1..n + 1
        BY <1>1, <2>3
      <3> QED BY <1>2, <1>4, <3>1
    <2> QED BY <2>1, <2>2, <2>3
  <1>7. n + 2 = (n + 1) + 1 /\ 1 \in 1..n + 1
    BY <1>1
  <1>8. Path(h, c, v, more)
    BY <1>1, <1>3, <1>5, <1>6, <1>7 DEF Path
  <1>9. more[1] = run[1] /\ more[Len(v) + 1] = t
    BY <1>1, <1>4, <1>7
  <1> QED BY <1>0, <1>1, <1>8, <1>9 DEF Reaches, v

\* What happens at the other end: the first message arrives.
Onward(w, run) == [p \in 1..Len(w) |-> run[p + 1]]

LEMMA PathTail ==
  ASSUME NEW h, NEW c, NEW w \in Seq(Messages), w # <<>>, NEW run, Path(h, c, w, run)
  PROVE  /\ Tail(w) \in Seq(Messages) /\ Len(Tail(w)) + 1 = Len(w)
         /\ Path(h, c, Tail(w), Onward(w, run))
         /\ Onward(w, run)[1] = run[2] /\ Onward(w, run)[Len(Tail(w)) + 1] = run[Len(w) + 1]
         /\ Head(w) \in Messages /\ Step(h, c, Head(w), run[1], run[2])
  <1> DEFINE v == Tail(w)
             n == Len(v)
             on == Onward(w, run)
  <1>1. /\ v \in Seq(Messages) /\ Len(w) = n + 1 /\ n \in Nat
        /\ \A p \in 1..n : v[p] = w[p + 1]
    OBVIOUS
  <1> HIDE DEF v, n
  <1>2. /\ run \in [1..n + 1 + 1 -> Places]
        /\ \A p \in 1..n + 1 : Step(h, c, w[p], run[p], run[p + 1])
        /\ \A p \in 1..n + 1 + 1 : \A q \in p..n + 1 + 1 : Leads(run[p], run[q])
    BY <1>1 DEF Path
  <1>3. on = [p \in 1..n + 1 |-> run[p + 1]]
    BY <1>1 DEF Onward
  <1> HIDE DEF on
  <1>4. on \in [1..n + 1 -> Places] /\ \A p \in 1..n + 1 : on[p] = run[p + 1]
    BY <1>1, <1>2, <1>3
  <1>5. ASSUME NEW p \in 1..n PROVE Step(h, c, v[p], on[p], on[p + 1])
    <2>1. p + 1 \in 1..n + 1 /\ p \in 1..n + 1
      BY <1>1
    <2> QED BY <1>1, <1>2, <1>4, <2>1
  <1>6. ASSUME NEW p \in 1..n + 1, NEW q \in p..n + 1 PROVE Leads(on[p], on[q])
    <2>1. p + 1 \in 1..n + 1 + 1 /\ q + 1 \in (p + 1)..(n + 1 + 1) /\ q \in 1..n + 1
      BY <1>1
    <2> QED BY <1>2, <1>4, <2>1
  <1>7. Path(h, c, v, on)
    BY <1>1, <1>4, <1>5, <1>6 DEF Path, n
  <1>8. 1 \in 1..n + 1 /\ n + 1 \in 1..n + 1 /\ 1 + 1 = 2
    BY <1>1
  <1>9. on[1] = run[2] /\ on[n + 1] = run[Len(w) + 1]
    BY <1>1, <1>4, <1>8
  <1>10. Step(h, c, Head(w), run[1], run[2])
    <2>1. w[1] = Head(w)
      OBVIOUS
    <2> QED BY <1>2, <1>8, <2>1
  <1>11. Head(w) \in Messages
    OBVIOUS
  <1> QED BY <1>1, <1>7, <1>9, <1>10, <1>11 DEF v, n, on

\* It was an acknowledgement: the client allows less, and one fewer are to come.
Less(r) == [r EXCEPT !.acks = @ - 1]
Counted(w, run) == [p \in 1..Len(w) |-> Less(run[p + 1])]

Acknowledges(c, d) ==
  /\ c.unacked \in Seq(Nat) /\ Len(c.unacked) > 0 /\ d.unacked = Tail(c.unacked)
  /\ d.allowed \in Nat /\ \A i \in DOMAIN c.unacked : c.unacked[i] <= d.allowed

LEMMA AckedAllows ==
  ASSUME NEW c, NEW d, Acknowledges(c, d),
         NEW m \in Nat, NEW k \in Nat, k >= 1, InForce(c, m, k)
  PROVE  InForce(d, m, k - 1)
  <1>0. PICK U : /\ c.unacked = U /\ U \in Seq(Nat) /\ Len(U) > 0 /\ d.unacked = Tail(U)
                 /\ d.allowed \in Nat /\ \A i \in DOMAIN U : U[i] <= d.allowed
    BY DEF Acknowledges
  <1>1. PICK j \in k..Len(U) : m <= U[j]
    BY <1>0 DEF InForce
  <1>2. /\ Len(Tail(U)) = Len(U) - 1 /\ Len(U) \in Nat /\ DOMAIN U = 1..Len(U)
        /\ \A i \in 1..Len(U) - 1 : Tail(U)[i] = U[i + 1]
        /\ \A i \in 1..Len(U) : U[i] \in Nat
    BY <1>0
  <1>3. j \in 1..Len(U) /\ j \in Nat /\ U[j] \in Nat
    BY <1>1, <1>2
  <1>4. CASE k = 1
    <2>1. U[j] <= d.allowed
      BY <1>0, <1>2, <1>3
    <2>2. m <= d.allowed
      BY <1>0, <1>1, <1>3, <2>1
    <2> QED BY <1>4, <2>2 DEF InForce
  <1>5. CASE k # 1
    <2>1. j - 1 \in (k - 1)..Len(Tail(U)) /\ j - 1 \in 1..Len(U) - 1 /\ k - 1 # 0
      BY <1>1, <1>2, <1>3, <1>5
    <2>2. Tail(U)[j - 1] = U[j]
      BY <1>2, <1>3, <2>1
    <2> QED BY <1>0, <1>1, <2>1, <2>2 DEF InForce
  <1> QED BY <1>4, <1>5

LEMMA PathAcked ==
  ASSUME NEW h, NEW c, NEW d, NEW w \in Seq(Messages), w # <<>>, NEW run, Path(h, c, w, run),
         run[1].acks = 0, Head(w).kind = "ack",
         Acknowledges(c, d)
  PROVE  /\ Tail(w) \in Seq(Messages) /\ Len(Tail(w)) + 1 = Len(w)
         /\ Path(h, d, Tail(w), Counted(w, run))
         /\ Counted(w, run)[1] = run[1]
         /\ Counted(w, run)[Len(Tail(w)) + 1] = Less(run[Len(w) + 1])
         /\ run[Len(w) + 1] \in Places /\ run[Len(w) + 1].acks >= 1
  <1> DEFINE v == Tail(w)
             n == Len(v)
             on == Onward(w, run)
             less == Counted(w, run)
  <1>1. /\ v \in Seq(Messages) /\ n + 1 = Len(w) /\ Path(h, c, v, on) /\ n \in Nat
        /\ on[1] = run[2] /\ on[n + 1] = run[Len(w) + 1]
        /\ Step(h, c, Head(w), run[1], run[2])
    <2>1. /\ Tail(w) \in Seq(Messages) /\ Len(Tail(w)) + 1 = Len(w)
          /\ Path(h, c, Tail(w), Onward(w, run))
          /\ Onward(w, run)[1] = run[2]
          /\ Onward(w, run)[Len(Tail(w)) + 1] = run[Len(w) + 1]
          /\ Step(h, c, Head(w), run[1], run[2])
      BY PathTail
    <2>2. Len(Tail(w)) \in Nat
      BY <2>1
    <2> QED BY <2>1, <2>2
  <1>2. run[1] \in Places
    BY DEF Path
  <1>3. run[2] = [run[1] EXCEPT !.acks = @ + 1]
    BY <1>1 DEF Step, Decodes
  <1>4. run[2].acks = 1 /\ run[2] = [table |-> run[1].table, n |-> run[1].n, acks |-> 1]
    <2> DEFINE r == run[1]
    <2>1. r = [table |-> r.table, n |-> r.n, acks |-> 0]
      BY <1>2, PlaceHas
    <2>2. run[2] = [r EXCEPT !.acks = 1]
      <3>1. r.acks + 1 = 1
        OBVIOUS
      <3> QED BY <1>3, <3>1
    <2> HIDE DEF r
    <2>3. run[2] = [table |-> r.table, n |-> r.n, acks |-> 1]
      BY <2>1, <2>2
    <2> QED BY <2>3 DEF r
  <1>5. on \in [1..n + 1 -> Places]
    BY <1>1 DEF Path
  <1>6. less = [p \in 1..n + 1 |-> Less(on[p])]
    BY <1>1 DEF Counted, Onward
  <1>7. \A p \in 1..n + 1 : on[p].acks >= 1 /\ on[p].acks \in Nat
    <2> SUFFICES ASSUME NEW p \in 1..n + 1 PROVE on[p].acks >= 1 /\ on[p].acks \in Nat
      OBVIOUS
    <2>1. 1 \in 1..n + 1 /\ p \in 1..n + 1
      BY <1>1
    <2>2. Leads(on[1], on[p])
      BY <1>1, <2>1 DEF Path
    <2> QED BY <1>1, <1>4, <1>5, <2>1, <2>2, PlaceHas DEF Leads
  <1> HIDE DEF v, n, on, less
  <1>8. ASSUME NEW p \in 1..n + 1
        PROVE  /\ less[p] = [table |-> on[p].table, n |-> on[p].n, acks |-> on[p].acks - 1]
               /\ less[p] \in Places /\ on[p] \in Places
               /\ less[p].table = on[p].table /\ less[p].n = on[p].n
               /\ less[p].acks = on[p].acks - 1
    <2>1. on[p] \in Places
      BY <1>5
    <2>2. less[p] = [on[p] EXCEPT !.acks = @ - 1]
      BY <1>6 DEF Less
    <2>3. less[p] = [table |-> on[p].table, n |-> on[p].n, acks |-> on[p].acks - 1]
      BY <2>1, <2>2 DEF Places
    <2>4. on[p].acks - 1 \in Nat
      BY <1>7
    <2> QED BY <2>1, <2>3, <2>4 DEF Places
  <1>9. less \in [1..n + 1 -> Places]
    BY <1>6, <1>8
  <1>10. ASSUME NEW p \in 1..n PROVE Step(h, d, v[p], less[p], less[p + 1])
    <2> DEFINE e == v[p]
               r == on[p]
               t == on[p + 1]
               x == less[p]
               y == less[p + 1]
    <2>1. p \in 1..n + 1 /\ p + 1 \in 1..n + 1
      BY <1>1
    <2>2. Step(h, c, e, r, t)
      BY <1>1 DEF Path, n
    <2>3. /\ x = [table |-> r.table, n |-> r.n, acks |-> r.acks - 1] /\ r \in Places
          /\ y = [table |-> t.table, n |-> t.n, acks |-> t.acks - 1] /\ t \in Places
          /\ t.acks \in Nat /\ t.acks >= 1 /\ r.acks \in Nat /\ r.acks >= 1
          /\ x.table = r.table /\ x.n = r.n /\ y.table = t.table /\ y.n = t.n
          /\ x.acks = r.acks - 1 /\ y.acks = t.acks - 1
      BY <1>7, <1>8, <2>1
    <2> HIDE DEF e, r, t, x, y
    <2>4. Decodes(h, e, r, t)
      BY <2>2 DEF Step
    <2>5. Decodes(h, e, x, y)
      <3>1. CASE e.kind = "ack" /\ t = [r EXCEPT !.acks = @ + 1]
        <4>1. t.table = r.table /\ t.n = r.n /\ t.acks = r.acks + 1
          BY <2>3, <3>1 DEF Places
        <4>2. y.acks = x.acks + 1
          BY <2>3, <4>1
        <4>3. y = [table |-> x.table, n |-> x.n, acks |-> y.acks]
          BY <2>3, <4>1
        <4>4. y = [x EXCEPT !.acks = y.acks]
          <5> DEFINE z == y.acks
          <5>1. [x EXCEPT !.acks = z] = [table |-> r.table, n |-> r.n, acks |-> z]
            BY <2>3
          <5>2. y = [table |-> r.table, n |-> r.n, acks |-> z]
            BY <2>3, <4>3
          <5> QED BY <5>1, <5>2
        <4>5. y = [x EXCEPT !.acks = x.acks + 1]
          BY <4>2, <4>4
        <4> QED BY <3>1, <4>5 DEF Decodes
      <3>2. CASE /\ e.kind = "size" /\ e.max \in 0..TableSize
                 /\ t = [r EXCEPT !.table = SetMaxSize(@, e.max)]
        <4>1. t.table = SetMaxSize(r.table, e.max) /\ t.n = r.n /\ t.acks = r.acks
          BY <2>3, <3>2 DEF Places
        <4>2. y = [x EXCEPT !.table = SetMaxSize(x.table, e.max)]
          BY <2>3, <4>1
        <4> QED BY <3>2, <4>2 DEF Decodes
      <3>3. Gives(h, r, t) => Gives(h, x, y)
        BY <2>3 DEF Gives
      <3> QED BY <2>3, <2>4, <3>1, <3>2, <3>3 DEF Decodes
    <2>6. e.kind # "ack" => InForce(d, y.table.max, y.acks)
      <3> SUFFICES ASSUME e.kind # "ack" PROVE InForce(d, y.table.max, y.acks)
        OBVIOUS
      <3>1. InForce(c, t.table.max, t.acks)
        BY <2>2 DEF Step
      <3>2. t.table.max \in Nat
        BY <2>3, PlaceHas, TableHas
      <3>3. InForce(d, t.table.max, t.acks - 1)
        BY <2>3, <3>1, <3>2, AckedAllows
      <3> QED BY <2>3, <3>3
    <2> QED BY <2>2, <2>5, <2>6 DEF Step, e, x, y
  <1>11. ASSUME NEW p \in 1..n + 1, NEW q \in p..n + 1 PROVE Leads(less[p], less[q])
    <2>1. q \in 1..n + 1
      BY <1>1
    <2>2. Leads(on[p], on[q])
      BY <1>1 DEF Path, n
    <2> DEFINE a == on[p].acks
               b == on[q].acks
    <2>3. a \in Nat /\ b \in Nat /\ less[p].acks = a - 1 /\ less[q].acks = b - 1
      BY <1>7, <1>8, <2>1
    <2>4. a <= b /\ less[p].n <= less[q].n
      BY <1>8, <2>1, <2>2 DEF Leads
    <2> HIDE DEF a, b
    <2> QED BY <2>3, <2>4 DEF Leads
  <1>12. Path(h, d, v, less)
    BY <1>9, <1>10, <1>11 DEF Path, n
  <1>13. 1 \in 1..n + 1 /\ n + 1 \in 1..n + 1
    BY <1>1
  <1>14. less[1] = run[1]
    <2>1. less[1] = [table |-> run[1].table, n |-> run[1].n, acks |-> 0]
      BY <1>1, <1>4, <1>8, <1>13
    <2> QED BY <1>2, <2>1, PlaceHas
  <1>15. /\ less[n + 1] = Less(run[Len(w) + 1])
         /\ run[Len(w) + 1] \in Places /\ run[Len(w) + 1].acks >= 1
    BY <1>1, <1>6, <1>7, <1>8, <1>13
  <1> QED BY <1>1, <1>12, <1>14, <1>15 DEF v, n, less

---------------------------------------------------------------------------
(* The invariant *)

Shape ==
  /\ enc \in [table : Tables, minSize : 0..Unset, tableSizeUpdate : BOOLEAN]
  /\ writer \in [pc : {"idle", "other", "block", "search", "put"},
                 field : Fields \cup {Nothing}, idx : Nat, match : BOOLEAN]
  /\ serve \in [pc : {"select", "resize"}, size : 0..TableSize,
                needToSendSettingsAck : BOOLEAN]
  /\ wire \in Seq(Messages)
  /\ dec \in [table : Tables, failed : {FALSE}]
  /\ client \in [unacked : Seq(Nat), arriving : Seq(Nat), allowed : Nat, sent : Nat]
  /\ written \in Seq(Fields) /\ decoded \in Seq(Fields)

\* The SETTINGS that serve has processed, of those the client has no
\* acknowledgement of
Processed == Len(client.unacked) - Len(client.arriving)

Queues ==
  /\ Len(client.arriving) <= Len(client.unacked)
  /\ \A i \in DOMAIN client.arriving : client.arriving[i] = client.unacked[Processed + i]
  /\ \A i \in DOMAIN client.unacked : client.unacked[i] <= client.allowed

AtDecoder(r) ==
  /\ r = [table |-> dec.table, n |-> Len(decoded), acks |-> 0]
  /\ decoded = SubSeq(written, 1, Len(decoded))

Writing(t) ==
  /\ writer.pc \in {"search", "put"} =>
       /\ t.n + 1 = Len(written) /\ writer.field = written[t.n + 1]
       /\ ~enc.tableSizeUpdate
  /\ writer.pc \notin {"search", "put"} => t.n = Len(written)
  /\ writer.pc \in {"block", "search", "put"} => serve.pc = "select"
  /\ writer.pc = "put" =>
       LET found == Search(enc.table, writer.field) IN
       writer.idx = found.idx /\ writer.match = found.match

Lesser(a, b) == IF a <= b THEN a ELSE b

\* Between the parts of SetMaxDynamicTableSize the table has the entries that
\* the sizes before the last have left.
Encoding(t) ==
  /\ ~enc.tableSizeUpdate => /\ t.table = enc.table /\ enc.minSize = Unset
                             /\ serve.pc = "select"
  /\ serve.pc = "select" => /\ enc.table.ents = Fit(t.table.ents, enc.minSize)
                            /\ enc.tableSizeUpdate => enc.minSize <= enc.table.max
  /\ serve.pc = "resize" =>
       \E m \in 0..Unset : /\ enc.minSize = Lesser(m, serve.size)
                           /\ enc.table.ents = Fit(t.table.ents, m)

One(b) == IF b THEN 1 ELSE 0

\* The size last asked for
LastAsked(m) ==
  IF Processed = 0 THEN m <= client.allowed ELSE m <= client.unacked[Processed]

\* Every acknowledgement is one of SETTINGS that were processed.
Owed(t) ==
  /\ t.acks + One(serve.needToSendSettingsAck) + One(serve.pc = "resize") <= Processed
  /\ LastAsked(IF serve.pc = "resize" THEN serve.size ELSE enc.table.max)

IInv(run) ==
  /\ Shape /\ Queues
  /\ Path(written, client, wire, run)
  /\ AtDecoder(run[1])
  /\ Writing(run[Len(wire) + 1])
  /\ Encoding(run[Len(wire) + 1])
  /\ Owed(run[Len(wire) + 1])

Inv == \E run : IInv(run)

---------------------------------------------------------------------------
(* Steps *)

LEMMA Ends ==
  ASSUME NEW w \in Seq(Messages), NEW h, NEW c, NEW run, Path(h, c, w, run)
  PROVE  run[1] \in Places /\ run[Len(w) + 1] \in Places
  <1>1. 1 \in 1..Len(w) + 1 /\ Len(w) + 1 \in 1..Len(w) + 1
    OBVIOUS
  <1> QED BY <1>1 DEF Path

LEMMA ProcessedType ==
  ASSUME Shape, Queues
  PROVE  /\ Processed \in Nat /\ Processed <= Len(client.unacked)
         /\ client.unacked \in Seq(Nat) /\ client.arriving \in Seq(Nat)
         /\ client.allowed \in Nat /\ Len(client.unacked) \in Nat
         /\ \A i \in 1..Len(client.unacked) : client.unacked[i] \in Nat
  <1>1. client.unacked \in Seq(Nat) /\ client.arriving \in Seq(Nat) /\ client.allowed \in Nat
    BY DEF Shape
  <1>2. /\ Len(client.unacked) \in Nat /\ Len(client.arriving) \in Nat
        /\ \A i \in 1..Len(client.unacked) : client.unacked[i] \in Nat
    BY <1>1
  <1>3. Len(client.arriving) <= Len(client.unacked)
    BY DEF Queues
  <1>4. Processed \in Nat /\ Processed <= Len(client.unacked)
    <2> DEFINE a == Len(client.arriving)
               u == Len(client.unacked)
    <2>1. a \in Nat /\ u \in Nat /\ a <= u /\ Processed = u - a
      BY <1>2, <1>3 DEF Processed
    <2> HIDE DEF a, u
    <2>2. Processed \in Nat /\ Processed <= u
      BY <2>1
    <2> QED BY <2>2 DEF u
  <1> QED BY <1>1, <1>2, <1>4

\* What is told now is allowed when it arrives.
LEMMA ToldInForce ==
  ASSUME Shape, Queues, NEW m \in Nat, LastAsked(m), NEW k \in Nat, k <= Processed
  PROVE  InForce(client, m, k)
  <1>1. /\ Processed \in Nat /\ Processed <= Len(client.unacked) /\ client.allowed \in Nat
        /\ Len(client.unacked) \in Nat
        /\ \A i \in 1..Len(client.unacked) : client.unacked[i] \in Nat
    BY ProcessedType
  <1>2. CASE Processed = 0
    BY <1>1, <1>2 DEF LastAsked, InForce
  <1>3. CASE Processed # 0
    <2>1. Processed \in 1..Len(client.unacked) /\ Processed \in k..Len(client.unacked)
      BY <1>1, <1>3
    <2>2. m <= client.unacked[Processed]
      BY <1>3 DEF LastAsked
    <2>3. client.unacked[Processed] <= client.allowed /\ client.unacked[Processed] \in Nat
      <3>1. client.unacked \in Seq(Nat) /\ DOMAIN client.unacked = 1..Len(client.unacked)
        BY ProcessedType
      <3> QED BY <1>1, <2>1, <3>1 DEF Queues
    <2>4. m <= client.allowed
      BY <1>1, <2>2, <2>3
    <2> QED BY <2>1, <2>2, <2>4 DEF InForce
  <1> QED BY <1>2, <1>3

LEMMA InitInv == Init => Inv
  <1> SUFFICES ASSUME Init PROVE Inv
    OBVIOUS
  <1> DEFINE t == [table |-> [ents |-> <<>>, max |-> TableSize], n |-> 0, acks |-> 0]
             run == [p \in 1..1 |-> t]
  <1>1. [ents |-> <<>>, max |-> TableSize] \in Tables
    <2>1. <<>> \in Seq(Fields) /\ TableSize \in 0..TableSize /\ 0 <= TableSize
      BY SizesAssumption
    <2>2. TableUse(<<>>) = 0
      BY UseNothing
    <2>3. TableUse(<<>>) <= TableSize
      BY <2>1, <2>2
    <2> QED BY <2>1, <2>3, IsTable
  <1>2. Unset \in Nat
    BY SizesAssumption DEF Unset
  <1>3. Shape
    BY <1>1, <1>2, SizesAssumption DEF Init, Shape
  <1>4. Queues
    BY SizesAssumption DEF Init, Queues, Processed
  <1>5. t \in Places
    BY <1>1 DEF Places
  <1>6. wire = <<>> /\ Len(wire) = 0 /\ Len(decoded) = 0 /\ Len(written) = 0
    BY DEF Init
  <1>7. Path(written, client, wire, run)
    <2>1. t.n \in Nat /\ t.acks \in Nat
      OBVIOUS
    <2>2. Leads(t, t)
      BY <2>1 DEF Leads
    <2> HIDE DEF t
    <2>3. run \in [1..1 -> Places] /\ run[1] = t
      BY <1>5
    <2> QED BY <1>6, <2>2, <2>3 DEF Path
  <1>8. run[1] = t /\ run[Len(wire) + 1] = t
    BY <1>6
  <1>9. AtDecoder(t)
    BY <1>6 DEF Init, AtDecoder
  <1>10. Writing(t)
    BY <1>6 DEF Init, Writing
  <1>11. Encoding(t)
    BY <1>1, <1>2, FitUnset DEF Init, Encoding
  <1>12. Owed(t)
    BY SizesAssumption DEF Init, Owed, One, LastAsked, Processed
  <1> HIDE DEF run, t
  <1> QED BY <1>3, <1>4, <1>7, <1>8, <1>9, <1>10, <1>11, <1>12 DEF IInv, Inv

LEMMA StepProcessSettings ==
  ASSUME ~WhileEncoding, NEW run, IInv(run), ProcessSettings
  PROVE  Inv'
  <1>0. PICK t, v : t = run[Len(wire) + 1] /\ v = Min({Head(client.arriving), TableSize})
    OBVIOUS
  <1>1. /\ Shape /\ Queues /\ Path(written, client, wire, run) /\ AtDecoder(run[1])
        /\ Writing(t) /\ Encoding(t) /\ Owed(t)
    BY <1>0 DEF IInv
  <1>2. t \in Places /\ t.acks \in Nat
    BY <1>0, <1>1, Ends, PlaceHas DEF Shape
  <1>3. /\ Processed \in Nat /\ Processed <= Len(client.unacked) /\ client.allowed \in Nat
        /\ client.unacked \in Seq(Nat) /\ client.arriving \in Seq(Nat)
        /\ Len(client.unacked) \in Nat
    BY <1>1, ProcessedType
  <1>4. /\ serve.pc = "select" /\ client.arriving # <<>> /\ writer.pc \in {"idle", "other"}
        /\ client' = [client EXCEPT !.arriving = Tail(@)]
        /\ UNCHANGED <<writer, wire, dec, written, decoded>>
    BY DEF ProcessSettings
  <1>5. /\ enc' = [enc EXCEPT !.minSize = Min({@, v}), !.tableSizeUpdate = TRUE]
        /\ serve' = [serve EXCEPT !.pc = "resize", !.size = v]
    BY <1>0 DEF ProcessSettings
  <1>6. /\ Head(client.arriving) \in Nat /\ Tail(client.arriving) \in Seq(Nat)
        /\ Len(Tail(client.arriving)) = Len(client.arriving) - 1 /\ Len(client.arriving) \in Nat
        /\ Len(client.arriving) >= 1 /\ Head(client.arriving) = client.arriving[1]
        /\ \A i \in 1..Len(client.arriving) - 1 : Tail(client.arriving)[i] = client.arriving[i + 1]
    BY <1>3, <1>4
  <1>7. v \in 0..TableSize /\ v <= Head(client.arriving)
    BY <1>0, <1>6, SizesAssumption, LessOf
  <1>8. enc.minSize \in 0..Unset /\ enc.minSize \in Nat /\ Unset \in Nat
    BY <1>1, SizesAssumption DEF Shape, Unset
  <1>9. Min({enc.minSize, v}) = Lesser(enc.minSize, v) /\ Lesser(enc.minSize, v) \in 0..Unset
    BY <1>7, <1>8, LessOf DEF Lesser
  <1>10. /\ client' \in [unacked : Seq(Nat), arriving : Seq(Nat), allowed : Nat, sent : Nat]
         /\ client'.unacked = client.unacked /\ client'.allowed = client.allowed
         /\ client'.arriving = Tail(client.arriving)
    BY <1>1, <1>4, <1>6 DEF Shape
  <1>11. Processed' = Processed + 1 /\ Processed' <= Len(client.unacked)
    <2> DEFINE a == Len(client.arriving)
               u == Len(client.unacked)
    <2>1. /\ a \in Nat /\ u \in Nat /\ a >= 1 /\ Processed = u - a
          /\ Processed' = u - Len(client'.arriving) /\ Len(client'.arriving) = a - 1
      BY <1>3, <1>6, <1>10 DEF Processed
    <2> HIDE DEF a, u
    <2>2. Processed' = Processed + 1 /\ Processed' <= u
      BY <2>1
    <2> QED BY <2>2 DEF u
  <1>12. /\ enc'.table = enc.table /\ enc'.minSize = Lesser(enc.minSize, v)
         /\ enc'.tableSizeUpdate = TRUE
         /\ enc' \in [table : Tables, minSize : 0..Unset, tableSizeUpdate : BOOLEAN]
    BY <1>1, <1>5, <1>9 DEF Shape
  <1>13. /\ serve'.pc = "resize" /\ serve'.size = v
         /\ serve'.needToSendSettingsAck = serve.needToSendSettingsAck
         /\ serve' \in [pc : {"select", "resize"}, size : 0..TableSize,
                         needToSendSettingsAck : BOOLEAN]
    BY <1>1, <1>5, <1>7 DEF Shape
  <1>14. Shape'
    BY <1>1, <1>4, <1>10, <1>12, <1>13 DEF Shape
  <1>15. Queues'
    <2>1. DOMAIN client'.arriving = 1..Len(client.arriving) - 1
      BY <1>6, <1>10
    <2>2. DOMAIN client.arriving = 1..Len(client.arriving)
      BY <1>3
    <2>3. ASSUME NEW i \in 1..Len(client.arriving) - 1
          PROVE  client'.arriving[i] = client'.unacked[Processed' + i]
      <3>1. i + 1 \in 1..Len(client.arriving) /\ i \in Int
        BY <1>6
      <3>2. client.arriving[i + 1] = client.unacked[Processed + (i + 1)]
        BY <1>1, <2>2, <3>1 DEF Queues
      <3>3. Processed + (i + 1) = Processed' + i
        BY <1>3, <1>11, <3>1
      <3> QED BY <1>6, <1>10, <3>2, <3>3
    <2>4. Len(client'.arriving) <= Len(client'.unacked)
      BY <1>1, <1>3, <1>6, <1>10 DEF Queues
    <2> QED BY <1>1, <1>10, <2>1, <2>3, <2>4 DEF Queues
  <1>16. Path(written', client', wire', run)
    <2>1. \A m \in Nat : \A k \in Nat : InForce(client, m, k) => InForce(client', m, k)
      BY <1>10 DEF InForce
    <2>2. wire \in Seq(Messages)
      BY <1>1 DEF Shape
    <2> QED BY <1>1, <1>4, <2>1, <2>2, PathAllowed
  <1>17. AtDecoder(run[1])'
    BY <1>1, <1>4 DEF AtDecoder
  <1>18. Writing(t)'
    BY <1>1, <1>4 DEF Writing
  <1>19. Encoding(t)'
    BY <1>1, <1>4, <1>8, <1>12, <1>13 DEF Encoding
  <1>20. Owed(t)'
    <2>1. t.acks + One(serve.needToSendSettingsAck) + 0 <= Processed
      BY <1>1, <1>4 DEF Owed, One
    <2>2. t.acks + One(serve.needToSendSettingsAck) + 1 <= Processed'
      BY <1>2, <1>3, <1>11, <2>1 DEF One
    <2>3. One(serve'.pc = "resize") = 1
      BY <1>13 DEF One
    <2>4. v <= client.unacked[Processed']
      <3>1. 1 \in DOMAIN client.arriving
        BY <1>3, <1>6
      <3>2. client.arriving[1] = client.unacked[Processed + 1]
        BY <1>1, <3>1 DEF Queues
      <3> QED BY <1>6, <1>7, <1>11, <3>2
    <2>5. LastAsked(v)'
      BY <1>3, <1>7, <1>10, <1>11, <2>4 DEF LastAsked
    <2> QED BY <1>13, <2>2, <2>3, <2>5 DEF Owed
  <1>21. IInv(run)'
    BY <1>4, <1>14, <1>15, <1>16, <1>17, <1>18, <1>19, <1>20, <1>0 DEF IInv
  <1> QED BY <1>21 DEF Inv

\* What the invariant says, with a name for the end of the path
Known(run, t) ==
  /\ t \in Places /\ t = run[Len(wire) + 1]
  /\ Shape /\ Queues /\ Path(written, client, wire, run) /\ AtDecoder(run[1])
  /\ Writing(t) /\ Encoding(t) /\ Owed(t)

LEMMA IsKnown ==
  ASSUME NEW run, IInv(run)
  PROVE  \E t : Known(run, t)
  <1>1. run[Len(wire) + 1] \in Places
    BY Ends DEF IInv, Shape
  <1> QED BY <1>1 DEF IInv, Known

LEMMA Holds ==
  ASSUME NEW run, NEW t, t = run[Len(wire') + 1],
         Shape', Queues', Path(written, client, wire, run)', AtDecoder(run[1])',
         Writing(t)', Encoding(t)', Owed(t)'
  PROVE  Inv'
  BY DEF IInv, Inv

LEMMA Typed ==
  ASSUME Shape
  PROVE  /\ enc.table \in Tables /\ enc.minSize \in 0..Unset /\ enc.minSize \in Nat
         /\ Unset \in Nat /\ enc.table.max \in Nat /\ enc.table.ents \in Seq(Fields)
         /\ dec.table \in Tables /\ serve.size \in 0..TableSize /\ serve.size \in Nat
         /\ wire \in Seq(Messages) /\ Len(wire) \in Nat
         /\ written \in Seq(Fields) /\ decoded \in Seq(Fields)
         /\ Len(written) \in Nat /\ Len(decoded) \in Nat
  <1>1. Unset \in Nat
    BY SizesAssumption DEF Unset
  <1>2. enc.table \in Tables /\ enc.minSize \in 0..Unset /\ enc.minSize \in Nat
    BY <1>1 DEF Shape
  <1>3. enc.table.max \in Nat /\ enc.table.ents \in Seq(Fields)
    BY <1>2, TableHas
  <1>4. dec.table \in Tables /\ serve.size \in 0..TableSize /\ serve.size \in Nat
    BY SizesAssumption DEF Shape
  <1> QED BY <1>1, <1>2, <1>3, <1>4 DEF Shape

LEMMA StepResize ==
  ASSUME NEW run, IInv(run), Resize
  PROVE  Inv'
  <1>1. PICK t : Known(run, t)
    BY IsKnown
  <1>2. /\ serve.pc = "resize" /\ UNCHANGED <<writer, wire, dec, client, written, decoded>>
        /\ enc' = [enc EXCEPT !.table = SetMaxSize(@, serve.size)]
        /\ serve' = [serve EXCEPT !.pc = "select", !.needToSendSettingsAck = TRUE]
    BY DEF Resize
  <1>3. /\ Shape /\ Encoding(t) /\ Owed(t) /\ Writing(t) /\ t \in Places
    BY <1>1 DEF Known
  <1>4. /\ enc.table \in Tables /\ serve.size \in 0..TableSize /\ serve.size \in Nat
        /\ t.table.ents \in Seq(Fields) /\ t.acks \in Nat /\ Unset \in Nat
    BY <1>3, Typed, PlaceHas, TableHas
  <1>5. /\ SetMaxSize(enc.table, serve.size)
             = [ents |-> Fit(enc.table.ents, serve.size), max |-> serve.size]
        /\ SetMaxSize(enc.table, serve.size) \in Tables
    BY <1>4, SetMaxSizeFits
  <1>6. /\ enc'.table.ents = Fit(enc.table.ents, serve.size) /\ enc'.table.max = serve.size
        /\ enc'.minSize = enc.minSize /\ enc'.tableSizeUpdate = enc.tableSizeUpdate
        /\ enc' \in [table : Tables, minSize : 0..Unset, tableSizeUpdate : BOOLEAN]
    <2>1. PICK s \in Tables : /\ s = SetMaxSize(enc.table, serve.size)
                              /\ s.ents = Fit(enc.table.ents, serve.size) /\ s.max = serve.size
      BY <1>5
    <2>2. enc' = [enc EXCEPT !.table = s]
      BY <1>2, <2>1
    <2>3. /\ enc'.table = s /\ enc'.minSize = enc.minSize
          /\ enc'.tableSizeUpdate = enc.tableSizeUpdate
          /\ enc' \in [table : Tables, minSize : 0..Unset, tableSizeUpdate : BOOLEAN]
      BY <1>3, <2>2 DEF Shape
    <2> QED BY <2>1, <2>3
  <1>7. /\ serve'.pc = "select" /\ serve'.size = serve.size /\ serve'.needToSendSettingsAck = TRUE
        /\ serve' \in [pc : {"select", "resize"}, size : 0..TableSize,
                       needToSendSettingsAck : BOOLEAN]
    BY <1>2, <1>3 DEF Shape
  <1>8. Shape'
    BY <1>2, <1>3, <1>6, <1>7 DEF Shape
  <1>9. Queues' /\ AtDecoder(run[1])' /\ Path(written', client', wire', run)
    BY <1>1, <1>2 DEF Known, Queues, Processed, AtDecoder
  <1>10. enc.tableSizeUpdate /\ writer.pc \notin {"block", "search", "put"}
    BY <1>2, <1>3 DEF Encoding, Writing
  <1>11. Writing(t)'
    BY <1>2, <1>3, <1>7, <1>10 DEF Writing
  <1>12. Encoding(t)'
    <2>1. PICK m \in 0..Unset : /\ enc.minSize = Lesser(m, serve.size)
                                /\ enc.table.ents = Fit(t.table.ents, m)
      BY <1>2, <1>3 DEF Encoding
    <2>2. m \in Nat
      BY <1>4
    <2>3. enc'.table.ents = Fit(t.table.ents, enc.minSize)
      BY <1>4, <1>6, <2>1, <2>2, FitTwice DEF Lesser
    <2>4. enc.minSize <= serve.size
      BY <1>4, <2>1, <2>2 DEF Lesser
    <2> QED BY <1>6, <1>7, <1>10, <2>3, <2>4 DEF Encoding
  <1>13. Owed(t)'
    <2>1. One(serve.pc = "resize") = 1 /\ One(serve'.pc = "resize") = 0
          /\ One(serve'.needToSendSettingsAck) = 1 /\ One(serve.needToSendSettingsAck) \in {0, 1}
      BY <1>2, <1>7 DEF One
    <2>2. Processed \in Nat /\ Processed' = Processed
      BY <1>1, <1>2, ProcessedType DEF Known, Processed
    <2>3. t.acks + One(serve.needToSendSettingsAck) + 1 <= Processed
      BY <1>3, <2>1 DEF Owed
    <2>4. t.acks + One(serve'.needToSendSettingsAck) + 0 <= Processed'
      BY <1>4, <2>1, <2>2, <2>3
    <2>5. LastAsked(serve.size)
      BY <1>2, <1>3 DEF Owed
    <2>6. LastAsked(enc.table.max)'
      BY <1>2, <1>6, <2>2, <2>5 DEF LastAsked
    <2> QED BY <1>7, <2>1, <2>4, <2>6 DEF Owed
  <1>14. t = run[Len(wire') + 1]
    BY <1>1, <1>2 DEF Known
  <1> QED BY <1>8, <1>9, <1>11, <1>12, <1>13, <1>14, Holds

LEMMA StepStartAck ==
  ASSUME NEW run, IInv(run), StartAck
  PROVE  Inv'
  <1>1. PICK t : Known(run, t)
    BY IsKnown
  <1>2. /\ serve.pc = "select" /\ writer.pc = "idle" /\ serve.needToSendSettingsAck
        /\ serve' = [serve EXCEPT !.needToSendSettingsAck = FALSE]
        /\ writer' = [writer EXCEPT !.pc = "other"]
        /\ wire' = Append(wire, Ack)
        /\ UNCHANGED <<enc, dec, client, written, decoded>>
    BY DEF StartAck, MayStart
  <1>3. /\ Shape /\ Encoding(t) /\ Owed(t) /\ Writing(t) /\ t \in Places
    BY <1>1 DEF Known
  <1> DEFINE u == [t EXCEPT !.acks = @ + 1]
  <1>4. /\ u \in Places /\ u = [table |-> t.table, n |-> t.n, acks |-> t.acks + 1]
        /\ t.acks \in Nat /\ t.n \in Nat
    BY <1>3 DEF Places
  <1>5. Ack \in Messages /\ Ack.kind = "ack"
    BY DEF Ack, Messages
  <1>6. Step(written, client, Ack, t, u) /\ Leads(t, u)
    BY <1>4, <1>5 DEF Step, Decodes, Leads
  <1>7. u.table = t.table /\ u.n = t.n /\ u.acks = t.acks + 1
    BY <1>4
  <1> HIDE DEF u
  <1>8. PICK more : /\ Path(written, client, wire', more)
                    /\ more[1] = run[1] /\ more[Len(wire') + 1] = u
    <2>1. Reaches(written, client, wire, run[1], t)
      BY <1>1, <1>3 DEF Known, Shape, Reaches
    <2>2. Reaches(written, client, Append(wire, Ack), run[1], u)
      BY <1>4, <1>6, <2>1, PathAppend
    <2> QED BY <1>2, <2>2 DEF Reaches
  <1>9. wire' \in Seq(Messages)
    BY <1>2, <1>3, <1>5 DEF Shape
  <1>10. /\ serve'.pc = "select" /\ serve'.size = serve.size /\ serve'.needToSendSettingsAck = FALSE
         /\ serve' \in [pc : {"select", "resize"}, size : 0..TableSize,
                        needToSendSettingsAck : BOOLEAN]
         /\ writer'.pc = "other"
         /\ writer' \in [pc : {"idle", "other", "block", "search", "put"},
                         field : Fields \cup {Nothing}, idx : Nat, match : BOOLEAN]
    BY <1>2, <1>3 DEF Shape
  <1>11. Shape'
    BY <1>2, <1>3, <1>9, <1>10 DEF Shape
  <1>12. Queues' /\ AtDecoder(more[1])' /\ Path(written', client', wire', more)
    BY <1>1, <1>2, <1>8 DEF Known, Queues, Processed, AtDecoder
  <1>13. Writing(u)'
    BY <1>2, <1>3, <1>7, <1>10 DEF Writing
  <1>14. Encoding(u)'
    BY <1>2, <1>3, <1>7, <1>10 DEF Encoding
  <1>15. Owed(u)'
    <2>1. /\ One(serve.pc = "resize") = 0 /\ One(serve'.pc = "resize") = 0
          /\ One(serve.needToSendSettingsAck) = 1 /\ One(serve'.needToSendSettingsAck) = 0
      BY <1>2, <1>10 DEF One
    <2>2. Processed \in Nat /\ Processed' = Processed
      BY <1>1, <1>2, ProcessedType DEF Known, Processed
    <2>3. t.acks + 1 + 0 <= Processed
      BY <1>3, <2>1 DEF Owed
    <2>4. u.acks + 0 + 0 <= Processed'
      BY <1>4, <1>7, <2>2, <2>3
    <2>5. LastAsked(enc.table.max)
      BY <1>2, <1>3 DEF Owed
    <2>6. LastAsked(enc.table.max)'
      BY <1>2, <2>2, <2>5 DEF LastAsked
    <2> QED BY <1>10, <2>1, <2>4, <2>6 DEF Owed
  <1> QED BY <1>8, <1>11, <1>12, <1>13, <1>14, <1>15, Holds

\* The writer alone moves on.
LEMMA StepWriter ==
  ASSUME NEW run, IInv(run), StartFrame \/ EndFrame \/ SearchTable \/ UNCHANGED vars
  PROVE  Inv'
  <1>1. PICK t : Known(run, t)
    BY IsKnown
  <1>2. UNCHANGED <<enc, serve, wire, dec, client, written, decoded>>
    BY DEF StartFrame, EndFrame, SearchTable, vars
  <1>3. /\ Shape /\ Encoding(t) /\ Owed(t) /\ Writing(t) /\ t \in Places
    BY <1>1 DEF Known
  <1>4. Queues' /\ AtDecoder(run[1])' /\ Path(written', client', wire', run)
    BY <1>1, <1>2 DEF Known, Queues, Processed, AtDecoder
  <1>5. Encoding(t)' /\ Owed(t)'
    BY <1>2, <1>3 DEF Encoding, Owed, LastAsked, Processed
  <1>6. Shape' /\ Writing(t)'
    <2>1. CASE StartFrame
      <3>1. serve.pc = "select" /\ writer.pc = "idle"
            /\ \E pc \in {"block", "other"} : writer' = [writer EXCEPT !.pc = pc]
        BY <2>1 DEF StartFrame, MayStart
      <3>2. /\ writer'.pc \in {"block", "other"}
            /\ writer' \in [pc : {"idle", "other", "block", "search", "put"},
                            field : Fields \cup {Nothing}, idx : Nat, match : BOOLEAN]
        BY <1>3, <3>1 DEF Shape
      <3>3. Shape'
        BY <1>2, <1>3, <3>2 DEF Shape
      <3>4. Writing(t)'
        BY <1>2, <1>3, <3>1, <3>2 DEF Writing
      <3> QED BY <3>3, <3>4
    <2>2. CASE EndFrame
      <3>1. writer.pc \in {"block", "other"} /\ writer' = [writer EXCEPT !.pc = "idle"]
        BY <2>2 DEF EndFrame
      <3>2. /\ writer'.pc = "idle"
            /\ writer' \in [pc : {"idle", "other", "block", "search", "put"},
                            field : Fields \cup {Nothing}, idx : Nat, match : BOOLEAN]
        BY <1>3, <3>1 DEF Shape
      <3>3. Shape'
        BY <1>2, <1>3, <3>2 DEF Shape
      <3>4. Writing(t)'
        BY <1>2, <1>3, <3>1, <3>2 DEF Writing
      <3> QED BY <3>3, <3>4
    <2>3. CASE SearchTable
      <3>1. PICK found : found = Search(enc.table, writer.field)
        OBVIOUS
      <3>2. /\ writer.pc = "search"
            /\ writer' = [writer EXCEPT !.pc = "put", !.idx = found.idx, !.match = found.match]
        BY <2>3, <3>1 DEF SearchTable
      <3>3. writer.field \in Fields
        <4>1. t.n + 1 = Len(written) /\ writer.field = written[t.n + 1] /\ t.n \in Nat
          BY <1>3, <3>2, PlaceHas DEF Writing
        <4>2. written \in Seq(Fields) /\ t.n + 1 \in 1..Len(written)
          BY <1>3, <4>1, Typed
        <4> QED BY <4>1, <4>2
      <3>4. found.idx \in Nat /\ found.match \in BOOLEAN
        <4>1. found.idx \in Nat
          BY <1>3, <3>1, <3>3, SearchFinds, Typed
        <4> QED BY <3>1, <4>1 DEF Search
      <3>5. /\ writer'.pc = "put" /\ writer'.field = writer.field
            /\ writer'.idx = found.idx /\ writer'.match = found.match
            /\ writer' \in [pc : {"idle", "other", "block", "search", "put"},
                            field : Fields \cup {Nothing}, idx : Nat, match : BOOLEAN]
        BY <1>3, <3>2, <3>4 DEF Shape
      <3>6. Shape'
        BY <1>2, <1>3, <3>5 DEF Shape
      <3>7. Writing(t)'
        BY <1>2, <1>3, <3>1, <3>2, <3>5 DEF Writing
      <3> QED BY <3>6, <3>7
    <2>4. CASE UNCHANGED vars
      <3>1. writer' = writer
        BY <2>4 DEF vars
      <3> QED BY <1>2, <1>3, <3>1 DEF Shape, Writing
    <2> QED BY <2>1, <2>2, <2>3, <2>4
  <1>7. t = run[Len(wire') + 1]
    BY <1>1, <1>2 DEF Known
  <1> QED BY <1>4, <1>5, <1>6, <1>7, Holds

\* What the encoder has told so far is in force.
LEMMA TableInForce ==
  ASSUME Shape, Queues, serve.pc = "select", NEW t \in Places, Owed(t),
         NEW m \in Nat, m <= enc.table.max
  PROVE  InForce(client, m, t.acks)
  <1>1. /\ Processed \in Nat /\ t.acks \in Nat /\ enc.table.max \in Nat
        /\ client.allowed \in Nat /\ Processed <= Len(client.unacked)
        /\ Len(client.unacked) \in Nat
        /\ \A i \in 1..Len(client.unacked) : client.unacked[i] \in Nat
    BY ProcessedType, PlaceHas, Typed
  <1>2. One(serve.pc = "resize") = 0 /\ One(serve.needToSendSettingsAck) \in Nat
    BY DEF One
  <1>3. t.acks + One(serve.needToSendSettingsAck) + 0 <= Processed
    BY <1>2 DEF Owed
  <1>4. t.acks <= Processed
    BY <1>1, <1>2, <1>3
  <1>5. LastAsked(enc.table.max)
    BY DEF Owed
  <1>6. LastAsked(m)
    <2>1. CASE Processed = 0
      BY <1>1, <1>5, <2>1 DEF LastAsked
    <2>2. CASE Processed # 0
      <3>1. client.unacked[Processed] \in Nat
        BY <1>1, <2>2
      <3> QED BY <1>1, <1>5, <2>2, <3>1 DEF LastAsked
    <2> QED BY <2>1, <2>2
  <1> QED BY <1>1, <1>4, <1>6, ToldInForce

Covers(c, max, k) == \A m \in Nat : m <= max => InForce(c, m, k)

\* What a header starts with when sizes are to be told
Announced(m, max) ==
  IF m < max THEN <<SizeUpdate(m), SizeUpdate(max)>> ELSE <<SizeUpdate(max)>>

LEMMA SizeStep ==
  ASSUME NEW h, NEW c, NEW t \in Places, NEW v \in 0..TableSize, InForce(c, v, t.acks)
  PROVE  LET u == [table |-> SetMaxSize(t.table, v), n |-> t.n, acks |-> t.acks] IN
         /\ u \in Places /\ SizeUpdate(v) \in Messages
         /\ Step(h, c, SizeUpdate(v), t, u) /\ Leads(t, u)
  <1> DEFINE u == [table |-> SetMaxSize(t.table, v), n |-> t.n, acks |-> t.acks]
             e == SizeUpdate(v)
  <1>1. /\ t.table \in Tables /\ t.n \in Nat /\ t.acks \in Nat
        /\ t = [table |-> t.table, n |-> t.n, acks |-> t.acks]
    BY PlaceHas
  <1>2. SetMaxSize(t.table, v) \in Tables /\ SetMaxSize(t.table, v).max = v
    BY <1>1, SetMaxSizeFits
  <1>3. u \in Places /\ u.table.max = v /\ u.acks = t.acks /\ u.n = t.n
    BY <1>1, <1>2 DEF Places
  <1>4. e \in Messages /\ e.kind = "size" /\ e.max = v
    BY DEF SizeUpdate, Messages
  <1>5. u = [t EXCEPT !.table = SetMaxSize(t.table, e.max)]
    BY <1>1, <1>4
  <1>6. Decodes(h, e, t, u)
    BY <1>4, <1>5 DEF Decodes
  <1>7. Leads(t, u)
    BY <1>1, <1>3 DEF Leads
  <1> HIDE DEF u, e
  <1>8. Step(h, c, e, t, u)
    BY <1>3, <1>4, <1>6 DEF Step
  <1> QED BY <1>3, <1>4, <1>7, <1>8 DEF u, e

\* The updates written before the next field lead the decoder's table to where the
\* encoder's is.
LEMMA Told ==
  ASSUME NEW h, NEW c, NEW w, NEW from, NEW t \in Places, Reaches(h, c, w, from, t),
         NEW T \in Tables, NEW m \in Nat, m <= T.max, T.ents = Fit(t.table.ents, m),
         Covers(c, T.max, t.acks)
  PROVE  Reaches(h, c, w \o Announced(m, T.max), from,
                 [table |-> T, n |-> t.n, acks |-> t.acks])
  <1>1. /\ T.max \in 0..TableSize /\ T.max \in Nat /\ t.table.ents \in Seq(Fields)
        /\ t.table \in Tables /\ T = [ents |-> T.ents, max |-> T.max]
        /\ w \in Seq(Messages)
    BY TableHas, PlaceHas DEF Reaches
  <1>2. CASE m < T.max
    <2>1. m \in 0..TableSize
      BY <1>1, <1>2, SizesAssumption
    <2> DEFINE s == SetMaxSize(t.table, m)
               u == [table |-> s, n |-> t.n, acks |-> t.acks]
               x == Append(w, SizeUpdate(m))
    <2>2. s \in Tables /\ s.ents = Fit(t.table.ents, m) /\ s.max = m
      BY <1>1, <2>1, SetMaxSizeFits
    <2>3. InForce(c, m, t.acks) /\ InForce(c, T.max, t.acks)
      BY <1>1, <1>2 DEF Covers
    <2>4. /\ u \in Places /\ SizeUpdate(m) \in Messages
          /\ Step(h, c, SizeUpdate(m), t, u) /\ Leads(t, u)
      BY <2>1, <2>3, SizeStep
    <2>5. u.table = s /\ u.n = t.n /\ u.acks = t.acks
      OBVIOUS
    <2> HIDE DEF u, s
    <2>6. Reaches(h, c, x, from, u)
      BY <2>4, PathAppend
    <2> DEFINE y == [table |-> SetMaxSize(u.table, T.max), n |-> u.n, acks |-> u.acks]
               z == Append(x, SizeUpdate(T.max))
    <2> HIDE DEF x
    <2>8. /\ y \in Places /\ SizeUpdate(T.max) \in Messages
          /\ Step(h, c, SizeUpdate(T.max), u, y) /\ Leads(u, y)
      BY <1>1, <2>3, <2>4, <2>5, SizeStep
    <2>9. SetMaxSize(u.table, T.max) = T
      <3>1. SetMaxSize(s, T.max) = [ents |-> Fit(s.ents, T.max), max |-> T.max]
        BY <1>1, <2>2, SetMaxSizeFits
      <3>2. Fit(s.ents, T.max) = Fit(t.table.ents, m)
        BY <1>1, <1>2, <2>2, FitTwice
      <3> QED BY <1>1, <2>5, <3>1, <3>2
    <2>10. y = [table |-> T, n |-> t.n, acks |-> t.acks]
      BY <2>5, <2>9
    <2> HIDE DEF y
    <2>11. Reaches(h, c, z, from, y)
      BY <2>6, <2>8, PathAppend
    <2>12. z = w \o Announced(m, T.max)
      <3>1. Announced(m, T.max) = <<SizeUpdate(m), SizeUpdate(T.max)>>
        BY <1>2 DEF Announced
      <3>2. Append(Append(w, SizeUpdate(m)), SizeUpdate(T.max))
              = w \o <<SizeUpdate(m), SizeUpdate(T.max)>>
        BY <1>1, <2>4, <2>8
      <3> QED BY <3>1, <3>2 DEF x
    <2> QED BY <2>10, <2>11, <2>12
  <1>3. CASE ~(m < T.max)
    <2>1. m = T.max
      BY <1>1, <1>3
    <2> DEFINE y == [table |-> SetMaxSize(t.table, T.max), n |-> t.n, acks |-> t.acks]
               z == Append(w, SizeUpdate(T.max))
    <2>2. InForce(c, T.max, t.acks)
      BY <1>1 DEF Covers
    <2>3. /\ y \in Places /\ SizeUpdate(T.max) \in Messages
          /\ Step(h, c, SizeUpdate(T.max), t, y) /\ Leads(t, y)
      BY <1>1, <2>2, SizeStep
    <2>4. SetMaxSize(t.table, T.max) = T
      BY <1>1, <2>1, SetMaxSizeFits
    <2>5. y = [table |-> T, n |-> t.n, acks |-> t.acks]
      BY <2>4
    <2> HIDE DEF y
    <2>6. Reaches(h, c, z, from, y)
      BY <2>3, PathAppend
    <2>7. z = w \o Announced(m, T.max)
      BY <1>1, <1>3, <2>3 DEF Announced
    <2> QED BY <2>5, <2>6, <2>7
  <1> QED BY <1>2, <1>3

LEMMA StepAnnounceSize ==
  ASSUME NEW run, IInv(run), NEW f \in Fields, AnnounceSize(f)
  PROVE  Inv'
  <1>1. PICK t : Known(run, t)
    BY IsKnown
  <1>2. /\ writer.pc = "block"
        /\ enc' = [enc EXCEPT !.tableSizeUpdate = FALSE,
                              !.minSize = IF enc.tableSizeUpdate THEN Unset ELSE @]
        /\ wire' = wire \o IF ~enc.tableSizeUpdate THEN <<>>
                           ELSE IF enc.minSize < enc.table.max
                           THEN <<SizeUpdate(enc.minSize), SizeUpdate(enc.table.max)>>
                           ELSE <<SizeUpdate(enc.table.max)>>
        /\ writer' = [writer EXCEPT !.pc = "search", !.field = f]
        /\ written' = Append(written, f)
        /\ UNCHANGED <<serve, dec, client, decoded>>
    BY DEF AnnounceSize
  <1>3. /\ Shape /\ Queues /\ Encoding(t) /\ Owed(t) /\ Writing(t) /\ t \in Places
        /\ Path(written, client, wire, run) /\ t = run[Len(wire) + 1] /\ AtDecoder(run[1])
    BY <1>1 DEF Known
  <1>4. /\ serve.pc = "select" /\ t.n = Len(written)
        /\ enc.table.ents = Fit(t.table.ents, enc.minSize)
        /\ enc.tableSizeUpdate => enc.minSize <= enc.table.max
        /\ ~enc.tableSizeUpdate => t.table = enc.table /\ enc.minSize = Unset
    BY <1>2, <1>3 DEF Writing, Encoding
  <1>5. /\ enc.table \in Tables /\ wire \in Seq(Messages) /\ enc.minSize \in Nat
        /\ written \in Seq(Fields) /\ decoded \in Seq(Fields) /\ Len(written) \in Nat
        /\ Unset \in Nat /\ Len(decoded) \in Nat /\ enc.table.max \in Nat
    BY <1>3, Typed
  <1>6. /\ written' \in Seq(Fields) /\ Len(written') = Len(written) + 1
        /\ written'[Len(written) + 1] = f
        /\ \A i \in 1..Len(written) : written'[i] = written[i]
    BY <1>2, <1>5
  <1>7. Path(written', client, wire, run)
    BY <1>2, <1>3, <1>5, PathWritten
  <1> DEFINE u == [table |-> enc.table, n |-> t.n, acks |-> t.acks]
  <1>8. wire' \in Seq(Messages) /\ \E more : /\ Path(written', client, wire', more)
                                            /\ more[1] = run[1] /\ more[Len(wire') + 1] = u
    <2>1. CASE enc.tableSizeUpdate
      <3>1. Covers(client, enc.table.max, t.acks)
        BY <1>3, <1>4, TableInForce DEF Covers
      <3>2. wire' = wire \o Announced(enc.minSize, enc.table.max)
        BY <1>2, <2>1 DEF Announced
      <3>3. Reaches(written', client, wire, run[1], t)
        BY <1>3, <1>5, <1>7 DEF Reaches
      <3>4. PICK T, m : T = enc.table /\ m = enc.minSize
        OBVIOUS
      <3>5. T \in Tables /\ m \in Nat /\ m <= T.max /\ T.ents = Fit(t.table.ents, m)
        BY <1>4, <1>5, <2>1, <3>4
      <3>6. Reaches(written', client, wire \o Announced(m, T.max), run[1],
                    [table |-> T, n |-> t.n, acks |-> t.acks])
        BY <1>3, <3>1, <3>3, <3>4, <3>5, Told
      <3> QED BY <3>2, <3>4, <3>6 DEF Reaches
    <2>2. CASE ~enc.tableSizeUpdate
      <3>1. wire' = wire
        BY <1>2, <1>5, <2>2
      <3>2. t = u
        BY <1>3, <1>4, <2>2, PlaceHas
      <3> QED BY <1>3, <1>5, <1>7, <3>1, <3>2
    <2> QED BY <2>1, <2>2
  <1>9. u.table = enc.table /\ u.n = t.n /\ u.acks = t.acks
    OBVIOUS
  <1>10. PICK x : x = u
    OBVIOUS
  <1>11. x.table = enc.table /\ x.n = t.n /\ x.acks = t.acks
    BY <1>10
  <1>12. PICK more : /\ Path(written', client, wire', more)
                     /\ more[1] = run[1] /\ more[Len(wire') + 1] = x
    BY <1>8, <1>10
  <1> HIDE DEF u
  <1>13. /\ enc'.table = enc.table /\ enc'.tableSizeUpdate = FALSE /\ enc'.minSize = Unset
         /\ enc' \in [table : Tables, minSize : 0..Unset, tableSizeUpdate : BOOLEAN]
    <2>1. (IF enc.tableSizeUpdate THEN Unset ELSE enc.minSize) = Unset
      BY <1>4
    <2>2. enc' = [enc EXCEPT !.tableSizeUpdate = FALSE, !.minSize = Unset]
      BY <1>2, <2>1
    <2>3. Unset \in 0..Unset
      BY <1>5
    <2> QED BY <1>3, <2>2, <2>3 DEF Shape
  <1>14. /\ writer'.pc = "search" /\ writer'.field = f
         /\ writer' \in [pc : {"idle", "other", "block", "search", "put"},
                         field : Fields \cup {Nothing}, idx : Nat, match : BOOLEAN]
    BY <1>2, <1>3 DEF Shape
  <1>15. Shape'
    BY <1>2, <1>3, <1>6, <1>8, <1>13, <1>14 DEF Shape
  <1>16. Queues' /\ Path(written', client', wire', more)
    BY <1>2, <1>3, <1>12 DEF Queues, Processed
  <1>17. AtDecoder(more[1])'
    <2>1. decoded = SubSeq(written, 1, Len(decoded)) /\ Len(decoded) <= Len(written)
      <3>1. Leads(run[1], t) /\ run[1].n = Len(decoded)
        <4>1. 1 \in 1..Len(wire) + 1 /\ Len(wire) + 1 \in 1..Len(wire) + 1
          BY <1>5
        <4> QED BY <1>3, <4>1 DEF Path, AtDecoder
      <3> QED BY <1>3, <1>4, <3>1 DEF AtDecoder, Leads
    <2>2. SubSeq(written', 1, Len(decoded)) = SubSeq(written, 1, Len(decoded))
      BY <1>5, <1>6, <2>1
    <2> QED BY <1>2, <1>3, <1>12, <2>1, <2>2 DEF AtDecoder
  <1>18. Writing(x)'
    BY <1>2, <1>4, <1>6, <1>11, <1>13, <1>14 DEF Writing
  <1>19. Encoding(x)'
    BY <1>2, <1>4, <1>5, <1>11, <1>13, FitUnset DEF Encoding
  <1>20. Owed(x)'
    <2>1. Processed' = Processed /\ serve' = serve
      BY <1>2 DEF Processed
    <2> QED BY <1>2, <1>3, <1>11, <1>13, <2>1 DEF Owed, LastAsked
  <1> QED BY <1>12, <1>15, <1>16, <1>17, <1>18, <1>19, <1>20, Holds

LEMMA FieldIs ==
  ASSUME NEW f \in Fields
  PROVE  /\ f = [name |-> f.name, value |-> f.value, sensitive |-> f.sensitive]
         /\ f.sensitive \in BOOLEAN
  BY FieldsAssumption

\* What PutField writes for a field, and the table it leaves
Put(f, idx, match, indexing) == IF match THEN Indexed(idx) ELSE Literal(f, idx, indexing)

PutTable(table, f, match, indexing) ==
  IF ~match /\ indexing THEN Add(table, f) ELSE table

LEMMA PutStep ==
  ASSUME NEW h, NEW c, NEW t \in Places, NEW f \in Fields, t.n + 1 <= Len(h), h[t.n + 1] = f,
         Len(h) \in Nat, InForce(c, t.table.max, t.acks),
         NEW idx, NEW match \in BOOLEAN,
         idx = Search(t.table, f).idx, match = Search(t.table, f).match,
         NEW indexing \in BOOLEAN, indexing => ~f.sensitive,
         NEW u, u = [table |-> PutTable(t.table, f, match, indexing),
                     n |-> t.n + 1, acks |-> t.acks]
  PROVE  u \in Places /\ Step(h, c, Put(f, idx, match, indexing), t, u) /\ Leads(t, u)
  <1>0. PICK e, T : e = Put(f, idx, match, indexing) /\ T = PutTable(t.table, f, match, indexing)
    OBVIOUS
  <1>1. t.table \in Tables /\ t.n \in Nat /\ t.acks \in Nat
    BY PlaceHas
  <1>2. /\ idx \in Nat
        /\ idx # 0 => idx \in Indexes(t.table) /\ At(t.table, idx).name = f.name
        /\ match => /\ idx \in Indexes(t.table) /\ At(t.table, idx).name = f.name
                    /\ At(t.table, idx).value = f.value /\ ~f.sensitive
    BY <1>1, SearchFinds
  <1>3. T \in Tables /\ T.max = t.table.max
    BY <1>0, <1>1, AddKeeps DEF PutTable
  <1>4. /\ u \in Places /\ u.table = T /\ u.n = t.n + 1 /\ u.acks = t.acks
        /\ u.n \in Nat
    BY <1>0, <1>1, <1>3 DEF Places
  <1>5. Gives(h, t, u) /\ h[u.n] = f
    BY <1>4 DEF Gives
  <1>6. ASSUME match PROVE Step(h, c, e, t, u)
    <2>1. e = [kind |-> "indexed", idx |-> idx] /\ T = t.table
      BY <1>0, <1>6 DEF Indexed, Put, PutTable
    <2>2. e \in Messages /\ e.kind = "indexed" /\ e.idx = idx
      BY <1>2, <2>1 DEF Messages
    <2>3. IndexedAt(t.table, e) = f
      <3>1. f.sensitive = FALSE
        BY <1>2, <1>6, FieldIs
      <3> QED BY <1>2, <1>6, <2>2, <3>1, FieldIs DEF IndexedAt
    <2>4. Decodes(h, e, t, u)
      BY <1>2, <1>4, <1>5, <1>6, <2>1, <2>2, <2>3 DEF Decodes
    <2> QED BY <1>3, <1>4, <2>2, <2>4 DEF Step
  <1>7. ASSUME ~match PROVE Step(h, c, e, t, u)
    <2>0. PICK type, name :
            /\ type = IF f.sensitive THEN "never" ELSE IF indexing THEN "add" ELSE "without"
            /\ name = IF idx = 0 THEN f.name ELSE ""
      OBVIOUS
    <2>1. e = [kind |-> "literal", idx |-> idx, name |-> name, value |-> f.value, type |-> type]
      BY <1>0, <1>7, <2>0 DEF Literal, Put
    <2>2. /\ type \in {"add", "without", "never"}
          /\ type = "never" <=> f.sensitive
          /\ type = "add" <=> indexing
      BY <2>0, FieldIs
    <2>3. name \in {g.name : g \in Fields} \cup {""} /\ f.value \in {g.value : g \in Fields}
      BY <2>0
    <2>4. /\ e.kind = "literal" /\ e.idx = idx /\ e.name = name /\ e.value = f.value
          /\ e.type = type
      BY <2>1
    <2>5. e \in Messages
      BY <1>2, <2>1, <2>2, <2>3 DEF Messages
    <2>6. LiteralAt(t.table, e) = f
      <3>1. (IF e.idx = 0 THEN e.name ELSE At(t.table, e.idx).name) = f.name
        BY <1>2, <2>0, <2>4
      <3>2. (e.type = "never") = f.sensitive
        BY <2>2, <2>4, FieldIs
      <3>3. LiteralAt(t.table, e) = [name |-> f.name, value |-> f.value, sensitive |-> f.sensitive]
        BY <2>4, <3>1, <3>2 DEF LiteralAt
      <3> QED BY <3>3, FieldIs
    <2>7. T = IF e.type = "add" THEN Add(t.table, f) ELSE t.table
      BY <1>0, <1>7, <2>2, <2>4 DEF PutTable
    <2>8. e.idx \in Indexes(t.table) \cup {0}
      BY <1>2, <2>4
    <2>9. Decodes(h, e, t, u)
      BY <1>4, <1>5, <2>4, <2>6, <2>7, <2>8 DEF Decodes
    <2> QED BY <1>3, <1>4, <2>4, <2>5, <2>9 DEF Step
  <1>8. Leads(t, u)
    BY <1>1, <1>4 DEF Leads
  <1> QED BY <1>0, <1>4, <1>6, <1>7, <1>8

LEMMA StepPutField ==
  ASSUME NEW run, IInv(run), PutField
  PROVE  Inv'
  <1>1. PICK t : Known(run, t)
    BY IsKnown
  <1>2. PICK f, idx, match, indexing :
          f = writer.field /\ idx = writer.idx /\ match = writer.match /\ indexing = ShouldIndex(f)
    OBVIOUS
  <1>3. /\ writer.pc = "put"
        /\ IF match
           THEN wire' = Append(wire, Indexed(idx)) /\ UNCHANGED enc
           ELSE /\ wire' = Append(wire, Literal(f, idx, indexing))
                /\ enc' = IF indexing THEN [enc EXCEPT !.table = Add(@, f)] ELSE enc
        /\ writer' = [pc |-> "block", field |-> Nothing, idx |-> 0, match |-> FALSE]
        /\ UNCHANGED <<serve, dec, client, written, decoded>>
    BY <1>2 DEF PutField
  <1>4. /\ Shape /\ Queues /\ Encoding(t) /\ Owed(t) /\ Writing(t) /\ t \in Places
        /\ Path(written, client, wire, run) /\ t = run[Len(wire) + 1] /\ AtDecoder(run[1])
    BY <1>1 DEF Known
  <1>5. /\ serve.pc = "select" /\ ~enc.tableSizeUpdate /\ t.table = enc.table
        /\ enc.minSize = Unset /\ t.n + 1 = Len(written) /\ f = written[t.n + 1]
    BY <1>2, <1>3, <1>4 DEF Writing, Encoding
  <1>6. /\ enc.table \in Tables /\ wire \in Seq(Messages) /\ Unset \in Nat
        /\ written \in Seq(Fields) /\ Len(written) \in Nat /\ enc.table.max \in Nat
        /\ t.n \in Nat /\ t.acks \in Nat
    BY <1>4, Typed, PlaceHas
  <1>7. f \in Fields
    <2>1. t.n + 1 \in 1..Len(written)
      BY <1>5, <1>6
    <2> QED BY <1>5, <1>6, <2>1
  <1>8. /\ idx = Search(t.table, f).idx /\ match = Search(t.table, f).match
    BY <1>2, <1>3, <1>4, <1>5 DEF Writing
  <1>9. indexing \in BOOLEAN /\ (indexing => ~f.sensitive)
    BY <1>2 DEF ShouldIndex
  <1>10. InForce(client, t.table.max, t.acks)
    <2>1. enc.table.max <= enc.table.max
      BY <1>6
    <2> QED BY <1>4, <1>5, <1>6, <2>1, TableInForce
  <1>11. match \in BOOLEAN
    BY <1>2, <1>4 DEF Shape
  <1>12. PICK e, T : /\ e = Put(f, idx, match, indexing)
                    /\ T = PutTable(t.table, f, match, indexing)
    OBVIOUS
  <1>13. PICK u : u = [table |-> T, n |-> t.n + 1, acks |-> t.acks]
    OBVIOUS
  <1>14. u \in Places /\ Step(written, client, e, t, u) /\ Leads(t, u)
    <2>1. PICK h, c : h = written /\ c = client
      OBVIOUS
    <2>2. t.n + 1 <= Len(h) /\ h[t.n + 1] = f /\ Len(h) \in Nat /\ InForce(c, t.table.max, t.acks)
      BY <1>5, <1>6, <1>10, <2>1
    <2>3. u = [table |-> PutTable(t.table, f, match, indexing), n |-> t.n + 1, acks |-> t.acks]
      BY <1>13, <1>12
    <2>4. t \in Places
      BY <1>4
    <2>5. u \in Places /\ Step(h, c, Put(f, idx, match, indexing), t, u) /\ Leads(t, u)
      BY <1>7, <1>8, <1>9, <1>11, <2>2, <2>3, <2>4, PutStep
    <2> QED BY <1>12, <2>1, <2>5
  <1>15. wire' = Append(wire, e)
    BY <1>3, <1>12 DEF Put
  <1>16. PICK more : /\ Path(written, client, wire', more)
                     /\ more[1] = run[1] /\ more[Len(wire') + 1] = u
    <2>1. Reaches(written, client, wire, run[1], t)
      BY <1>4, <1>6 DEF Reaches
    <2>2. Reaches(written, client, Append(wire, e), run[1], u)
      BY <1>14, <2>1, PathAppend
    <2> QED BY <1>15, <2>2 DEF Reaches
  <1>17. wire' \in Seq(Messages)
    <2>1. e \in Messages
      BY <1>14 DEF Step
    <2> QED BY <1>6, <1>15, <2>1
  <1>18. T \in Tables /\ T.max = enc.table.max
    BY <1>5, <1>6, <1>7, <1>12, AddKeeps DEF PutTable
  <1>19. /\ enc'.table = T /\ enc'.tableSizeUpdate = FALSE /\ enc'.minSize = Unset
         /\ enc' \in [table : Tables, minSize : 0..Unset, tableSizeUpdate : BOOLEAN]
    <2>1. CASE ~match /\ indexing
      <3>1. enc' = [enc EXCEPT !.table = T]
        BY <1>3, <1>5, <1>12, <2>1 DEF PutTable
      <3>2. T \in Tables
        BY <1>18
      <3> QED BY <1>4, <1>5, <3>1, <3>2 DEF Shape
    <2>2. CASE ~(~match /\ indexing)
      <3>1. enc' = enc /\ T = enc.table
        BY <1>3, <1>5, <1>12, <2>2 DEF PutTable
      <3> QED BY <1>4, <1>5, <3>1 DEF Shape
    <2> QED BY <2>1, <2>2
  <1>20. u.table = T /\ u.n = t.n + 1 /\ u.acks = t.acks
    BY <1>13
  <1>21. u.table = enc'.table /\ enc'.table \in Tables /\ enc'.table.max = enc.table.max
    BY <1>18, <1>19, <1>20
  <1>22. /\ writer'.pc = "block"
         /\ writer' \in [pc : {"idle", "other", "block", "search", "put"},
                         field : Fields \cup {Nothing}, idx : Nat, match : BOOLEAN]
    BY <1>3
  <1>23. Shape'
    BY <1>3, <1>4, <1>17, <1>19, <1>22 DEF Shape
  <1>24. Queues' /\ Path(written', client', wire', more) /\ AtDecoder(more[1])'
    BY <1>3, <1>4, <1>16 DEF Queues, Processed, AtDecoder
  <1>25. Writing(u)'
    BY <1>3, <1>5, <1>20, <1>22 DEF Writing
  <1>26. Encoding(u)'
    BY <1>3, <1>5, <1>19, <1>21, FitUnset DEF Encoding
  <1>27. Owed(u)'
    <2>1. Processed' = Processed /\ serve' = serve
      BY <1>3 DEF Processed
    <2> QED BY <1>3, <1>4, <1>5, <1>20, <1>21, <2>1 DEF Owed, LastAsked
  <1> QED BY <1>16, <1>23, <1>24, <1>25, <1>26, <1>27, Holds

LEMMA StepSendSettings ==
  ASSUME NEW run, IInv(run), NEW v \in Sizes, SendSettings(v)
  PROVE  Inv'
  <1>1. PICK t : Known(run, t)
    BY IsKnown
  <1>2. PICK U, A, b : U = client.unacked /\ A = client.arriving /\ b = client.allowed
    OBVIOUS
  <1>3. /\ client' = [unacked  |-> Append(U, v), arriving |-> Append(A, v),
                      allowed  |-> Max({b, v}), sent |-> client.sent + 1]
        /\ UNCHANGED <<enc, writer, serve, wire, dec, written, decoded>>
    BY <1>2 DEF SendSettings
  <1>4. /\ Shape /\ Queues /\ Encoding(t) /\ Owed(t) /\ Writing(t) /\ t \in Places
        /\ Path(written, client, wire, run) /\ t = run[Len(wire) + 1] /\ AtDecoder(run[1])
    BY <1>1 DEF Known
  <1>5. v \in Nat
    BY SizesAssumption
  <1>6. /\ U \in Seq(Nat) /\ A \in Seq(Nat) /\ b \in Nat /\ client.sent \in Nat
        /\ Len(U) \in Nat /\ Len(A) \in Nat /\ Len(A) <= Len(U)
        /\ DOMAIN U = 1..Len(U) /\ DOMAIN A = 1..Len(A)
    BY <1>2, <1>4 DEF Shape, Queues
  <1>7. \A i \in 1..Len(U) : U[i] \in Nat /\ U[i] <= b
    BY <1>2, <1>4, <1>6 DEF Queues
  <1>8. Processed = Len(U) - Len(A) /\ \A i \in 1..Len(A) : A[i] = U[Len(U) - Len(A) + i]
    BY <1>2, <1>4, <1>6 DEF Queues, Processed
  <1>9. PICK W, B, m : W = Append(U, v) /\ B = Append(A, v) /\ m = Max({b, v})
    OBVIOUS
  <1>10. /\ W \in Seq(Nat) /\ Len(W) = Len(U) + 1 /\ W[Len(U) + 1] = v
         /\ B \in Seq(Nat) /\ Len(B) = Len(A) + 1 /\ B[Len(A) + 1] = v
         /\ \A i \in 1..Len(U) : W[i] = U[i]
         /\ \A i \in 1..Len(A) : B[i] = A[i]
         /\ DOMAIN W = 1..Len(U) + 1 /\ DOMAIN B = 1..Len(A) + 1
    BY <1>5, <1>6, <1>9
  <1>11. m \in Nat /\ b <= m /\ v <= m
    BY <1>5, <1>6, <1>9, MoreOf
  <1>12. /\ client'.unacked = W /\ client'.arriving = B /\ client'.allowed = m
         /\ client' \in [unacked : Seq(Nat), arriving : Seq(Nat), allowed : Nat, sent : Nat]
    BY <1>3, <1>6, <1>9, <1>10, <1>11
  <1>13. Shape'
    BY <1>3, <1>4, <1>12 DEF Shape
  <1>14. Processed' = Processed
    <2>1. Processed' = Len(W) - Len(B)
      BY <1>12 DEF Processed
    <2>2. PICK x, y : x = Len(U) /\ y = Len(A)
      OBVIOUS
    <2>3. x \in Nat /\ y \in Nat /\ Len(W) = x + 1 /\ Len(B) = y + 1
      BY <1>6, <1>10, <2>2
    <2>4. Processed = x - y
      BY <1>8, <2>2
    <2> QED BY <2>1, <2>3, <2>4
  <1>15. Queues'
    <2>1. Len(B) <= Len(W)
      BY <1>6, <1>10
    <2>2. ASSUME NEW i \in 1..Len(A) + 1 PROVE B[i] = W[Len(U) - Len(A) + i]
      <3>1. CASE i = Len(A) + 1
        <4>1. Len(U) - Len(A) + i = Len(U) + 1
          BY <1>6, <3>1
        <4> QED BY <1>10, <3>1, <4>1
      <3>2. CASE i # Len(A) + 1
        <4>1. i \in 1..Len(A) /\ Len(U) - Len(A) + i \in 1..Len(U)
          BY <1>6, <3>2
        <4> QED BY <1>8, <1>10, <4>1
      <3> QED BY <3>1, <3>2
    <2>3. ASSUME NEW i \in 1..Len(U) + 1 PROVE W[i] <= m
      <3>1. CASE i = Len(U) + 1
        BY <1>10, <1>11, <3>1
      <3>2. CASE i # Len(U) + 1
        <4>1. i \in 1..Len(U)
          BY <1>6, <3>2
        <4> QED BY <1>6, <1>7, <1>10, <1>11, <4>1
      <3> QED BY <3>1, <3>2
    <2> QED BY <1>8, <1>10, <1>12, <1>14, <2>1, <2>2, <2>3 DEF Queues
  <1>16. Path(written', client', wire', run)
    <2>1. ASSUME NEW n \in Nat, NEW k \in Nat, InForce(client, n, k)
          PROVE  InForce(client', n, k)
      <3>1. CASE k = 0
        <4>1. n <= b
          BY <1>2, <2>1, <3>1 DEF InForce
        <4> QED BY <1>6, <1>11, <1>12, <3>1, <4>1 DEF InForce
      <3>2. CASE k # 0
        <4>1. PICK j \in k..Len(U) : n <= U[j]
          BY <1>2, <2>1, <3>2 DEF InForce
        <4>2. j \in 1..Len(U) /\ j \in k..Len(W)
          BY <1>6, <1>10, <3>2
        <4>3. n <= W[j]
          BY <1>10, <4>1, <4>2
        <4> QED BY <1>12, <3>2, <4>2, <4>3 DEF InForce
      <3> QED BY <3>1, <3>2
    <2>2. wire \in Seq(Messages)
      BY <1>4, Typed
    <2> QED BY <1>3, <1>4, <2>1, <2>2, PathAllowed
  <1>17. AtDecoder(run[1])' /\ Writing(t)' /\ Encoding(t)'
    BY <1>3, <1>4 DEF AtDecoder, Writing, Encoding
  <1>18. Owed(t)'
    <2>1. ASSUME NEW n \in Nat, LastAsked(n) PROVE LastAsked(n)'
      <3>1. CASE Processed = 0
        <4>1. n <= b
          BY <1>2, <2>1, <3>1 DEF LastAsked
        <4> QED BY <1>6, <1>11, <1>12, <1>14, <3>1, <4>1 DEF LastAsked
      <3>2. CASE Processed # 0
        <4>1. Processed \in 1..Len(U)
          <5>1. PICK x, y : x = Len(U) /\ y = Len(A)
            OBVIOUS
          <5>2. x \in Nat /\ y \in Nat /\ y <= x /\ Processed = x - y
            BY <1>6, <1>8, <5>1
          <5>3. Processed \in 1..x
            BY <3>2, <5>2
          <5> QED BY <5>1, <5>3
        <4> QED BY <1>2, <1>10, <1>12, <1>14, <2>1, <3>2, <4>1 DEF LastAsked
      <3> QED BY <3>1, <3>2
    <2>2. PICK n : n = IF serve.pc = "resize" THEN serve.size ELSE enc.table.max
      OBVIOUS
    <2>3. n \in Nat
      BY <1>4, <2>2, Typed
    <2>4. LastAsked(n)
      BY <1>4, <2>2 DEF Owed
    <2>5. LastAsked(n)'
      BY <2>1, <2>3, <2>4
    <2>6. n = IF serve'.pc = "resize" THEN serve'.size ELSE enc'.table.max
      BY <1>3, <2>2
    <2> QED BY <1>3, <1>4, <1>14, <2>5, <2>6 DEF Owed
  <1> QED BY <1>3, <1>4, <1>13, <1>15, <1>16, <1>17, <1>18, Holds

LEMMA StepReceiveAck ==
  ASSUME NEW run, IInv(run), ReceiveAck
  PROVE  Inv'
  <1>1. PICK t : Known(run, t)
    BY IsKnown
  <1>2. PICK U, A : U = client.unacked /\ A = client.arriving
    OBVIOUS
  <1>3. PICK m : m = Max({U[i] : i \in DOMAIN U})
    OBVIOUS
  <1>4. /\ client' = [client EXCEPT !.unacked = Tail(U), !.allowed = m]
        /\ wire # <<>> /\ Head(wire).kind = "ack" /\ wire' = Tail(wire)
        /\ UNCHANGED <<enc, writer, serve, dec, written, decoded>>
    BY <1>2, <1>3 DEF ReceiveAck, Received
  <1>5. /\ Shape /\ Queues /\ Encoding(t) /\ Owed(t) /\ Writing(t) /\ t \in Places
        /\ Path(written, client, wire, run) /\ t = run[Len(wire) + 1] /\ AtDecoder(run[1])
    BY <1>1 DEF Known
  <1>6. /\ U \in Seq(Nat) /\ A \in Seq(Nat) /\ client.allowed \in Nat
        /\ Len(U) \in Nat /\ Len(A) \in Nat /\ Len(A) <= Len(U)
        /\ DOMAIN U = 1..Len(U) /\ DOMAIN A = 1..Len(A)
        /\ \A i \in 1..Len(U) : U[i] \in Nat
    BY <1>2, <1>5 DEF Shape, Queues
  <1>7. Processed = Len(U) - Len(A) /\ \A i \in 1..Len(A) : A[i] = U[Len(U) - Len(A) + i]
    BY <1>2, <1>5, <1>6 DEF Queues, Processed
  <1>8. wire \in Seq(Messages) /\ t.acks \in Nat /\ run[1].acks = 0
    BY <1>5, Typed, PlaceHas DEF AtDecoder
  <1>9. t.acks >= 1
    <2>1. 2 \in 1..Len(wire) + 1 /\ Len(wire) + 1 \in 2..Len(wire) + 1 /\ 1 \in 1..Len(wire)
          /\ wire[1] = Head(wire) /\ Len(wire) \in Nat
      BY <1>4, <1>8
    <2>2. Leads(run[2], t) /\ Step(written, client, Head(wire), run[1], run[2])
      BY <1>5, <2>1 DEF Path
    <2>3. run[2] = [run[1] EXCEPT !.acks = @ + 1] /\ run[1] \in Places /\ run[2] \in Places
      <3>1. run[1] \in Places /\ run[2] \in Places
        BY <1>5, <1>8, <2>1, Ends DEF Path
      <3> QED BY <1>4, <2>2, <3>1 DEF Step, Decodes
    <2>4. run[2].acks = 1
      BY <1>8, <2>3 DEF Places
    <2> QED BY <1>8, <2>2, <2>4 DEF Leads
  <1>10. t.acks <= Processed
    <2>1. One(serve.pc = "resize") \in Nat /\ One(serve.needToSendSettingsAck) \in Nat
      BY DEF One
    <2>2. t.acks + One(serve.needToSendSettingsAck) + One(serve.pc = "resize") <= Processed
      BY <1>5 DEF Owed
    <2> QED BY <1>6, <1>7, <1>8, <2>1, <2>2
  <1>11. Len(U) > 0 /\ Processed >= 1 /\ Processed \in Nat /\ Processed <= Len(U)
    BY <1>6, <1>7, <1>8, <1>9, <1>10
  <1>12. m \in Nat /\ \A i \in 1..Len(U) : U[i] <= m
    <2>1. \A i \in DOMAIN U : U[i] <= client.allowed
      BY <1>2, <1>5 DEF Queues
    <2> QED BY <1>3, <1>6, <1>11, <2>1, LargestOf
  <1>13. /\ Tail(U) \in Seq(Nat) /\ Len(Tail(U)) = Len(U) - 1
         /\ DOMAIN Tail(U) = 1..Len(U) - 1
         /\ \A i \in 1..Len(U) - 1 : Tail(U)[i] = U[i + 1]
    BY <1>6, <1>11
  <1>14. /\ client'.unacked = Tail(U) /\ client'.arriving = A /\ client'.allowed = m
         /\ client' \in [unacked : Seq(Nat), arriving : Seq(Nat), allowed : Nat, sent : Nat]
    BY <1>2, <1>4, <1>5, <1>12, <1>13 DEF Shape
  <1>15. Processed' = Processed - 1
    BY <1>6, <1>7, <1>13, <1>14 DEF Processed
  <1>16. PICK less : less = Counted(wire, run)
    OBVIOUS
  <1>17. PICK u : u = Less(t)
    OBVIOUS
  <1>18. /\ Tail(wire) \in Seq(Messages) /\ Path(written, client', Tail(wire), less)
         /\ less[1] = run[1] /\ less[Len(Tail(wire)) + 1] = u
    <2>1. PICK h, c, d, w : h = written /\ c = client /\ d = client' /\ w = wire
      OBVIOUS
    <2>2. /\ w \in Seq(Messages) /\ w # <<>> /\ Path(h, c, w, run) /\ run[1].acks = 0
          /\ Head(w).kind = "ack" /\ Acknowledges(c, d)
      BY <1>2, <1>4, <1>5, <1>6, <1>8, <1>11, <1>12, <1>14, <2>1 DEF Acknowledges
    <2>3. /\ Tail(w) \in Seq(Messages) /\ Path(h, d, Tail(w), Counted(w, run))
          /\ Counted(w, run)[1] = run[1]
          /\ Counted(w, run)[Len(Tail(w)) + 1] = Less(run[Len(w) + 1])
      BY <2>2, PathAcked
    <2> QED BY <1>5, <1>16, <1>17, <2>1, <2>3
  <1>19. u.table = t.table /\ u.n = t.n /\ u.acks = t.acks - 1
    BY <1>5, <1>17 DEF Places, Less
  <1>20. Shape'
    BY <1>4, <1>5, <1>14, <1>18 DEF Shape
  <1>21. Queues'
    <2>1. Len(A) <= Len(Tail(U))
      BY <1>6, <1>7, <1>11, <1>13
    <2>2. ASSUME NEW i \in 1..Len(A) PROVE A[i] = Tail(U)[Processed' + i]
      <3>1. /\ Processed' + i \in 1..Len(U) - 1
            /\ (Processed' + i) + 1 = Len(U) - Len(A) + i
        BY <1>6, <1>7, <1>11, <1>15
      <3> QED BY <1>7, <1>13, <3>1
    <2>3. ASSUME NEW i \in 1..Len(U) - 1 PROVE Tail(U)[i] <= m
      <3>1. i + 1 \in 1..Len(U)
        BY <1>6
      <3> QED BY <1>12, <1>13, <3>1
    <2> QED BY <1>6, <1>13, <1>14, <2>1, <2>2, <2>3 DEF Queues
  <1>22. AtDecoder(less[1])' /\ Writing(u)' /\ Encoding(u)'
    BY <1>4, <1>5, <1>18, <1>19 DEF AtDecoder, Writing, Encoding
  <1>23. Owed(u)'
    <2>1. ASSUME NEW n \in Nat, LastAsked(n) PROVE LastAsked(n)'
      <3>0. n <= U[Processed] /\ Processed \in 1..Len(U)
        BY <1>2, <1>6, <1>11, <2>1 DEF LastAsked
      <3>1. CASE Processed = 1
        <4>1. n <= m
          BY <1>6, <1>12, <3>0
        <4>2. Processed' = 0
          BY <1>15, <3>1
        <4> QED BY <1>14, <4>1, <4>2 DEF LastAsked
      <3>2. CASE Processed # 1
        <4>1. Processed' \in 1..Len(U) - 1 /\ Processed' + 1 = Processed
          BY <1>6, <1>11, <1>15, <3>2
        <4>2. Tail(U)[Processed'] = U[Processed] /\ Processed' # 0
          BY <1>13, <4>1
        <4> QED BY <1>14, <3>0, <4>2 DEF LastAsked
      <3> QED BY <3>1, <3>2
    <2>2. PICK n : n = IF serve.pc = "resize" THEN serve.size ELSE enc.table.max
      OBVIOUS
    <2>3. n \in Nat
      BY <1>5, <2>2, Typed
    <2>4. LastAsked(n)
      BY <1>5, <2>2 DEF Owed
    <2>5. LastAsked(n)'
      BY <2>1, <2>3, <2>4
    <2>6. n = IF serve'.pc = "resize" THEN serve'.size ELSE enc'.table.max
      BY <1>4, <2>2
    <2>7. PICK a, b : a = One(serve.needToSendSettingsAck) /\ b = One(serve.pc = "resize")
      OBVIOUS
    <2>8. a \in Nat /\ b \in Nat /\ t.acks + a + b <= Processed
      BY <1>5, <2>7 DEF Owed, One
    <2>9. u.acks + a + b <= Processed'
      BY <1>8, <1>11, <1>15, <1>19, <2>8
    <2>10. a = One(serve'.needToSendSettingsAck) /\ b = One(serve'.pc = "resize")
      BY <1>4, <2>7
    <2> QED BY <2>5, <2>6, <2>9, <2>10 DEF Owed
  <1>24. u = less[Len(wire') + 1] /\ Path(written', client', wire', less)
    BY <1>4, <1>18
  <1> QED BY <1>20, <1>21, <1>22, <1>23, <1>24, Holds

\* The first message, and the place after it
LEMMA FirstArrives ==
  ASSUME NEW run, NEW t, Known(run, t), wire # <<>>
  PROVE  /\ run[1] \in Places /\ run[2] \in Places
         /\ Step(written, client, Head(wire), run[1], run[2])
         /\ Tail(wire) \in Seq(Messages)
         /\ Path(written, client, Tail(wire), Onward(wire, run))
         /\ Onward(wire, run)[1] = run[2] /\ Onward(wire, run)[Len(Tail(wire)) + 1] = t
         /\ run[1].table = dec.table /\ run[1].n = Len(decoded) /\ run[1].acks = 0
         /\ written \in Seq(Fields) /\ decoded = SubSeq(written, 1, Len(decoded))
  <1>1. /\ wire \in Seq(Messages) /\ Path(written, client, wire, run)
        /\ t = run[Len(wire) + 1] /\ AtDecoder(run[1]) /\ written \in Seq(Fields)
    BY DEF Known, Shape
  <1>2. /\ Tail(wire) \in Seq(Messages)
        /\ Path(written, client, Tail(wire), Onward(wire, run))
        /\ Onward(wire, run)[1] = run[2]
        /\ Onward(wire, run)[Len(Tail(wire)) + 1] = run[Len(wire) + 1]
        /\ Step(written, client, Head(wire), run[1], run[2])
    <2>1. PICK h, c, w : h = written /\ c = client /\ w = wire
      OBVIOUS
    <2>2. w \in Seq(Messages) /\ w # <<>> /\ Path(h, c, w, run)
      BY <1>1, <2>1
    <2>3. /\ Tail(w) \in Seq(Messages)
          /\ Path(h, c, Tail(w), Onward(w, run))
          /\ Onward(w, run)[1] = run[2]
          /\ Onward(w, run)[Len(Tail(w)) + 1] = run[Len(w) + 1]
          /\ Step(h, c, Head(w), run[1], run[2])
      BY <2>2, PathTail
    <2> QED BY <2>1, <2>3
  <1>3. 2 \in 1..Len(wire) + 1 /\ 1 \in 1..Len(wire) + 1
    BY <1>1
  <1>4. run[1] \in Places /\ run[2] \in Places
    BY <1>1, <1>3 DEF Path
  <1> QED BY <1>1, <1>2, <1>4 DEF AtDecoder

\* The decoder gets to the next place.
LEMMA Decoded ==
  ASSUME NEW run, NEW t, Known(run, t), wire # <<>>, wire' = Tail(wire),
         UNCHANGED <<enc, writer, serve, client, written>>,
         dec' = [table |-> run[2].table, failed |-> FALSE],
         run[2].n = Len(decoded'), run[2].acks = 0,
         decoded' \in Seq(Fields), decoded' = SubSeq(written, 1, Len(decoded'))
  PROVE  Inv'
  <1>1. PICK on : on = Onward(wire, run)
    OBVIOUS
  <1>2. /\ run[2] \in Places /\ Tail(wire) \in Seq(Messages)
        /\ Path(written, client, Tail(wire), on)
        /\ on[1] = run[2] /\ on[Len(Tail(wire)) + 1] = t
    BY <1>1, FirstArrives
  <1>3. /\ Shape /\ Queues /\ Encoding(t) /\ Owed(t) /\ Writing(t) /\ t \in Places
    BY DEF Known
  <1>4. run[2].table \in Tables /\ run[2] = [table |-> run[2].table, n |-> run[2].n, acks |-> 0]
    BY <1>2, PlaceHas
  <1>5. dec' \in [table : Tables, failed : {FALSE}] /\ dec'.table = run[2].table
    BY <1>4
  <1>6. Shape'
    BY <1>2, <1>3, <1>5 DEF Shape
  <1>7. Queues' /\ Path(written', client', wire', on) /\ t = on[Len(wire') + 1]
    BY <1>2, <1>3 DEF Queues, Processed
  <1>8. AtDecoder(on[1])'
    BY <1>2, <1>4, <1>5 DEF AtDecoder
  <1>9. Writing(t)' /\ Encoding(t)' /\ Owed(t)'
    BY <1>3 DEF Writing, Encoding, Owed, LastAsked, Processed
  <1> QED BY <1>6, <1>7, <1>8, <1>9, Holds

LEMMA NextField ==
  ASSUME NEW h \in Seq(Fields), NEW d, d = SubSeq(h, 1, Len(d)), NEW n, n = Len(d),
         n \in Nat, n + 1 <= Len(h)
  PROVE  /\ Append(d, h[n + 1]) \in Seq(Fields) /\ Len(Append(d, h[n + 1])) = n + 1
         /\ Append(d, h[n + 1]) = SubSeq(h, 1, n + 1)
  <1>1. d = SubSeq(h, 1, n) /\ n + 1 \in 1..Len(h)
    OBVIOUS
  <1>2. d \in Seq(Fields) /\ h[n + 1] \in Fields /\ \A i \in 1..n : d[i] = h[i]
    BY <1>1
  <1>3. Append(d, h[n + 1]) \in Seq(Fields) /\ Len(Append(d, h[n + 1])) = n + 1
    BY <1>2
  <1>4. SubSeq(h, 1, n + 1) \in Seq(Fields) /\ Len(SubSeq(h, 1, n + 1)) = n + 1
    BY <1>1, SubSeqProperties
  <1>5. ASSUME NEW i \in 1..n + 1 PROVE Append(d, h[n + 1])[i] = SubSeq(h, 1, n + 1)[i]
    <2>1. SubSeq(h, 1, n + 1)[i] = h[i]
      BY <1>1
    <2> QED BY <1>2, <2>1
  <1> QED BY <1>3, <1>4, <1>5, SeqEqual

LEMMA StepUpdateSize ==
  ASSUME NEW run, IInv(run), UpdateSize
  PROVE  Inv'
  <1>1. PICK t : Known(run, t)
    BY IsKnown
  <1>2. PICK e : e = Head(wire)
    OBVIOUS
  <1>3. /\ wire # <<>> /\ e.kind = "size" /\ wire' = Tail(wire)
        /\ dec' = IF e.max > client.allowed THEN [dec EXCEPT !.failed = TRUE]
                  ELSE [dec EXCEPT !.table = SetMaxSize(@, e.max)]
        /\ UNCHANGED <<enc, writer, serve, client, written, decoded>>
    BY <1>2 DEF UpdateSize, Decoding, Received
  <1>4. /\ run[1] \in Places /\ run[2] \in Places
        /\ Step(written, client, e, run[1], run[2])
        /\ run[1].table = dec.table /\ run[1].n = Len(decoded) /\ run[1].acks = 0
        /\ decoded = SubSeq(written, 1, Len(decoded))
    BY <1>1, <1>2, <1>3, FirstArrives
  <1>5. /\ dec.table \in Tables /\ dec \in [table : Tables, failed : {FALSE}]
        /\ client.allowed \in Nat /\ decoded \in Seq(Fields)
    BY <1>1 DEF Known, Shape
  <1>6. /\ e.max \in 0..TableSize /\ run[2] = [run[1] EXCEPT !.table = SetMaxSize(@, e.max)]
        /\ InForce(client, run[2].table.max, run[2].acks)
    BY <1>3, <1>4 DEF Step, Decodes
  <1>7. PICK T \in Tables : T = SetMaxSize(dec.table, e.max) /\ T.max = e.max
    BY <1>5, <1>6, SetMaxSizeFits
  <1>8. /\ run[2].table = T /\ run[2].n = Len(decoded) /\ run[2].acks = 0
    BY <1>4, <1>6, <1>7 DEF Places
  <1>9. e.max <= client.allowed
    BY <1>6, <1>7, <1>8 DEF InForce
  <1>10. dec' = [table |-> T, failed |-> FALSE]
    <2>1. ~(e.max > client.allowed)
      BY <1>5, <1>6, <1>9, SizesAssumption
    <2>2. dec' = [dec EXCEPT !.table = T]
      BY <1>3, <1>7, <2>1
    <2> QED BY <1>5, <2>2
  <1>11. /\ decoded' = decoded /\ wire # <<>> /\ wire' = Tail(wire)
         /\ UNCHANGED <<enc, writer, serve, client, written>>
    BY <1>3
  <1>12. /\ run[2].n = Len(decoded') /\ decoded' \in Seq(Fields)
         /\ decoded' = SubSeq(written, 1, Len(decoded'))
    BY <1>4, <1>5, <1>8, <1>11
  <1>13. dec' = [table |-> run[2].table, failed |-> FALSE]
    BY <1>8, <1>10
  <1> QED BY <1>1, <1>8, <1>11, <1>12, <1>13, Decoded

\* A field that arrives is the next that was written.
LEMMA FieldArrives ==
  ASSUME NEW run, IInv(run), ParseIndexed \/ ParseLiteral
  PROVE  /\ Inv'
         /\ dec.table.max <= client.allowed
  <1>1. PICK t : Known(run, t)
    BY IsKnown
  <1>2. PICK e, T, n : e = Head(wire) /\ T = dec.table /\ n = Len(decoded)
    OBVIOUS
  <1>3. /\ wire # <<>> /\ e.kind \in {"indexed", "literal"} /\ wire' = Tail(wire)
        /\ UNCHANGED <<enc, writer, serve, client, written>>
    BY <1>2 DEF ParseIndexed, ParseLiteral, Decoding, Received
  <1>4. /\ run[1] \in Places /\ run[2] \in Places
        /\ Step(written, client, e, run[1], run[2])
        /\ run[1].table = T /\ run[1].n = n /\ run[1].acks = 0
        /\ written \in Seq(Fields) /\ decoded = SubSeq(written, 1, Len(decoded))
    BY <1>1, <1>2, <1>3, FirstArrives
  <1>5. /\ T \in Tables /\ dec = [table |-> T, failed |-> FALSE]
        /\ decoded \in Seq(Fields) /\ n \in Nat
    <2>1. dec \in [table : Tables, failed : {FALSE}] /\ decoded \in Seq(Fields)
      BY <1>1 DEF Known, Shape
    <2>2. dec.table \in Tables /\ dec = [table |-> dec.table, failed |-> FALSE]
      BY <2>1
    <2>3. Len(decoded) \in Nat
      BY <2>1
    <2> QED BY <1>2, <2>1, <2>2, <2>3
  <1>6. /\ Decodes(written, e, run[1], run[2])
        /\ InForce(client, run[2].table.max, run[2].acks)
    BY <1>3, <1>4 DEF Step
  <1>7. /\ run[2].n = n + 1 /\ run[2].acks = 0 /\ n + 1 <= Len(written)
    BY <1>3, <1>4, <1>6 DEF Decodes, Gives
  <1>8. PICK f : f = written[n + 1]
    OBVIOUS
  <1>9. /\ Append(decoded, f) \in Seq(Fields) /\ Len(Append(decoded, f)) = n + 1
        /\ Append(decoded, f) = SubSeq(written, 1, n + 1) /\ f \in Fields
    <2>1. PICK h, d : h = written /\ d = decoded
      OBVIOUS
    <2>2. h \in Seq(Fields) /\ d = SubSeq(h, 1, Len(d)) /\ n = Len(d) /\ n + 1 <= Len(h)
      BY <1>2, <1>4, <1>7, <2>1
    <2>3. /\ Append(d, h[n + 1]) \in Seq(Fields) /\ Len(Append(d, h[n + 1])) = n + 1
          /\ Append(d, h[n + 1]) = SubSeq(h, 1, n + 1)
      BY <1>5, <2>2, NextField
    <2>4. h[n + 1] \in Fields
      BY <1>5, <2>2
    <2> QED BY <1>8, <2>1, <2>3, <2>4
  <1>10. /\ decoded' = Append(decoded, f)
         /\ dec' = [table |-> run[2].table, failed |-> FALSE]
         /\ run[2].table.max = T.max
    <2>1. CASE e.kind = "indexed"
      <3>1. ParseIndexed
        BY <1>2, <2>1 DEF ParseLiteral, Decoding, Received
      <3>2. /\ e.idx \in Indexes(T) /\ run[2].table = T /\ IndexedAt(T, e) = f
        BY <1>4, <1>6, <1>7, <1>8, <2>1 DEF Decodes
      <3>3. decoded' = Append(decoded, IndexedAt(T, e)) /\ dec' = dec
        BY <1>2, <3>1, <3>2 DEF ParseIndexed, IndexedAt
      <3> QED BY <1>5, <3>2, <3>3
    <2>2. CASE e.kind = "literal"
      <3>1. ParseLiteral
        BY <1>2, <2>2 DEF ParseIndexed, Decoding, Received
      <3>2. /\ e.idx \in Indexes(T) \cup {0} /\ LiteralAt(T, e) = f
            /\ run[2].table = IF e.type = "add" THEN Add(T, f) ELSE T
        BY <1>4, <1>6, <1>7, <1>8, <2>2 DEF Decodes
      <3>3. PICK A : A = Add(T, f)
        OBVIOUS
      <3>4. /\ decoded' = Append(decoded, LiteralAt(T, e))
            /\ dec' = IF e.type = "add" THEN [dec EXCEPT !.table = Add(@, LiteralAt(T, e))]
                      ELSE dec
        BY <1>2, <3>1, <3>2 DEF ParseLiteral, LiteralAt
      <3>5. dec' = IF e.type = "add" THEN [dec EXCEPT !.table = A] ELSE dec
        BY <1>2, <3>2, <3>3, <3>4
      <3>6. dec' = [table |-> run[2].table, failed |-> FALSE]
        BY <1>5, <3>2, <3>3, <3>5
      <3>7. run[2].table.max = T.max
        BY <1>5, <1>9, <3>2, AddKeeps
      <3> QED BY <3>2, <3>4, <3>6, <3>7
    <2> QED BY <1>3, <2>1, <2>2
  <1>11. dec.table.max <= client.allowed
    BY <1>2, <1>6, <1>7, <1>10 DEF InForce
  <1>12. Inv'
    <2>1. /\ wire # <<>> /\ wire' = Tail(wire)
          /\ UNCHANGED <<enc, writer, serve, client, written>>
      BY <1>3
    <2>2. /\ run[2].n = Len(decoded') /\ decoded' \in Seq(Fields)
          /\ decoded' = SubSeq(written, 1, Len(decoded'))
      BY <1>7, <1>9, <1>10
    <2>3. dec' = [table |-> run[2].table, failed |-> FALSE] /\ run[2].acks = 0
      BY <1>7, <1>10
    <2> QED BY <1>1, <2>1, <2>2, <2>3, Decoded
  <1> QED BY <1>11, <1>12

LEMMA StepInv ==
  ASSUME ~WhileEncoding, Inv, [Next]_vars
  PROVE  Inv'
  <1>1. PICK run : IInv(run)
    BY DEF Inv
  <1> QED BY <1>1, StepProcessSettings, StepResize, StepStartAck, StepWriter, StepAnnounceSize,
             StepPutField, StepSendSettings, StepReceiveAck, StepUpdateSize, FieldArrives DEF Next

---------------------------------------------------------------------------
(* Theorems *)

LEMMA Invariant ==
  ASSUME ~WhileEncoding
  PROVE  Spec => []Inv
  <1>1. Init => Inv
    BY InitInv
  <1>2. Inv /\ [Next]_vars => Inv'
    BY StepInv
  <1> QED BY <1>1, <1>2, PTL DEF Spec

LEMMA Implied ==
  ASSUME Inv
  PROVE  TypeOK /\ FieldsArrive /\ TablesAgree
  <1>1. PICK run : IInv(run)
    BY DEF Inv
  <1>2. PICK t : Known(run, t)
    BY <1>1, IsKnown
  <1>3. /\ Shape /\ Path(written, client, wire, run) /\ AtDecoder(run[1])
        /\ Writing(t) /\ Encoding(t) /\ t \in Places /\ t = run[Len(wire) + 1]
    BY <1>2 DEF Known
  <1>4. /\ Len(wire) \in Nat /\ Len(decoded) \in Nat /\ Len(written) \in Nat /\ t.n \in Nat
        /\ run[1].n = Len(decoded) /\ run[1].table = dec.table
    BY <1>3, Typed, PlaceHas DEF AtDecoder
  <1>5. Len(decoded) <= Len(written)
    <2>1. 1 \in 1..Len(wire) + 1 /\ Len(wire) + 1 \in 1..Len(wire) + 1
      BY <1>4
    <2>2. Leads(run[1], t)
      BY <1>3, <2>1 DEF Path
    <2>3. t.n <= Len(written)
      BY <1>3, <1>4 DEF Writing
    <2> QED BY <1>4, <2>2, <2>3 DEF Leads
  <1>6. TypeOK
    <2>1. ASSUME NEW T \in {enc.table, dec.table}
          PROVE  T.max \in 0..TableSize /\ TableUse(T.ents) <= T.max
      BY <1>3, <2>1, Typed, TableHas
    <2> QED BY <1>3, <1>5, <2>1 DEF TypeOK, Shape
  <1>7. FieldsArrive
    BY <1>3 DEF FieldsArrive, AtDecoder, Shape
  <1>8. TablesAgree
    <2> SUFFICES ASSUME wire = <<>>, writer.pc \in {"idle", "other", "block"},
                        ~enc.tableSizeUpdate
                 PROVE  dec.table = enc.table /\ Len(decoded) = Len(written)
      BY DEF TablesAgree
    <2>1. t = run[1]
      BY <1>3
    <2> QED BY <1>3, <1>4, <2>1 DEF Writing, Encoding
  <1> QED BY <1>6, <1>7, <1>8

\* If headers are encoded by one goroutine at a time, every table stays within its
\* size and every variable keeps its type, for any fields, sizes and lengths.
THEOREM TypeCorrect ==
  ASSUME ~WhileEncoding
  PROVE  Spec => []TypeOK
  BY Invariant, Implied, PTL

\* ... the client decodes what was written, in order, and is never sent anything that
\* it has to take for an error: no index beyond its table, no size it does not allow.
THEOREM FieldsDoArrive ==
  ASSUME ~WhileEncoding
  PROVE  Spec => []FieldsArrive
  BY Invariant, Implied, PTL

\* ... both tables are the same when nothing is on its way, however often the client
\* resized them: telling the smallest size and the last is enough.
THEOREM TablesDoAgree ==
  ASSUME ~WhileEncoding
  PROVE  Spec => []TablesAgree
  BY Invariant, Implied, PTL

\* ... and a size is in force once it was acknowledged, although serve has one flag for
\* all acknowledgements and the client counts them.
THEOREM LimitsInForce ==
  ASSUME ~WhileEncoding
  PROVE  Spec => LimitInForce
  <1>1. Inv /\ [Next]_vars => [decoded' # decoded => dec.table.max <= client.allowed]_vars
    <2> SUFFICES ASSUME Inv, [Next]_vars, decoded' # decoded
                 PROVE  dec.table.max <= client.allowed
      OBVIOUS
    <2>1. PICK run : IInv(run)
      BY DEF Inv
    <2>2. ParseIndexed \/ ParseLiteral
      BY DEF Next, vars, ProcessSettings, Resize, StartAck, StartFrame, EndFrame, AnnounceSize,
             SearchTable, PutField, SendSettings, ReceiveAck, UpdateSize
    <2> QED BY <2>1, <2>2, FieldArrives
  <1> QED BY <1>1, Invariant, PTL DEF Spec, LimitInForce
=============================================================================
