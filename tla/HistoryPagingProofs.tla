-------------------------- MODULE HistoryPagingProofs --------------------------
(***************************************************************************)
(* What a run of the backfill reads, for every history, page size, server  *)
(* cap, ceiling and width of a window: all of it, or it fails.             *)
(***************************************************************************)
EXTENDS HistoryPaging, FiniteSetTheorems, SequenceTheorems, TLAPS

-----------------------------------------------------------------------------
(* Least and greatest instants.                                              *)

LEMMA LeastNatural ==
  ASSUME NEW T, T \subseteq Nat, T # {} PROVE \E x \in T : \A y \in T : x <= y
<1>1. PICK x \in T : \A y \in T : ~ (<<y, x>> \in OpToRel(<, Nat))
  BY NatLessThanWellFounded, WFMin
<1>2. \A y \in T : ~ (y < x) BY <1>1 DEF OpToRel
<1> QED BY <1>2

LEMMA MinIsLeast ==
  ASSUME NEW T, T \subseteq Nat, T # {} PROVE Min(T) \in T /\ \A y \in T : Min(T) <= y
BY LeastNatural DEF Min

LEMMA MaxIsGreatest ==
  ASSUME NEW T, T \subseteq Instants, T # {} PROVE Max(T) \in T /\ \A y \in T : y <= Max(T)
<1> DEFINE U == {Span - x : x \in T}
<1>1. Span \in Nat BY PagingAssumption
<1>2. \A x \in T : x \in Nat /\ x <= Span BY <1>1 DEF Instants
<1>3. U \subseteq Nat /\ U # {} BY <1>1, <1>2
<1>4. PICK u \in U : \A y \in U : u <= y BY <1>3, LeastNatural
<1>5. PICK x \in T : u = Span - x BY <1>4
<1>6. \A y \in T : x >= y
  <2> SUFFICES ASSUME NEW y \in T PROVE x >= y
    OBVIOUS
  <2>1. u <= Span - y BY <1>4
  <2> QED BY <1>1, <1>2, <1>5, <2>1
<1>7. Max(T) \in T /\ \A y \in T : Max(T) >= y BY <1>6 DEF Max
<1> QED BY <1>2, <1>7

-----------------------------------------------------------------------------
(* The oldest rows of a set.                                                 *)

LEMMA RowsAreFinite == ASSUME NEW S, S \subseteq AllRows PROVE IsFiniteSet(S)
<1>1. Span \in Int /\ MaxPerInstant \in Int /\ 0 \in Int /\ 1 \in Int BY PagingAssumption
<1>2. IsFiniteSet(0 .. Span) /\ IsFiniteSet(1 .. MaxPerInstant) BY <1>1, FS_Interval, Zenon
<1>3. IsFiniteSet(AllRows) BY <1>2, FS_Product, Zenon DEF AllRows, Instants
<1> QED BY <1>3, FS_Subset

LEMMA RowsAreOrdered ==
  /\ \A r \in AllRows : r[1] \in Instants /\ r[1] \in Nat /\ ~Before(r, r)
  /\ \A q, r \in AllRows : q = r \/ Before(q, r) \/ Before(r, q)
  /\ \A p, q, r \in AllRows : Before(p, q) /\ Before(q, r) => Before(p, r)
  /\ \A q, r \in AllRows : q[1] < r[1] => Before(q, r)
<1>1. Span \in Nat /\ MaxPerInstant \in Nat BY PagingAssumption
<1>2. \A r \in AllRows : r[1] \in Instants /\ r[1] \in Nat /\ r[2] \in Nat /\ r = <<r[1], r[2]>>
  BY <1>1 DEF AllRows, Instants
<1>3. \A r \in AllRows : ~Before(r, r) BY <1>2 DEF Before
<1>4. \A q, r \in AllRows : q = r \/ Before(q, r) \/ Before(r, q)
  <2> SUFFICES ASSUME NEW q \in AllRows, NEW r \in AllRows, ~Before(q, r), ~Before(r, q) PROVE q = r
    OBVIOUS
  <2>1. q[1] \in Nat /\ q[2] \in Nat /\ r[1] \in Nat /\ r[2] \in Nat BY <1>2
  <2>2. q[1] = r[1] /\ q[2] = r[2] BY <2>1 DEF Before
  <2> QED BY <1>2, <2>2
<1>5. \A p, q, r \in AllRows : Before(p, q) /\ Before(q, r) => Before(p, r) BY <1>2 DEF Before
<1>6. \A q, r \in AllRows : q[1] < r[1] => Before(q, r) BY DEF Before
<1> QED BY <1>2, <1>3, <1>4, <1>5, <1>6

\* What precedes one of the oldest is one of them.
LEMMA OldestIsClosed ==
  ASSUME NEW S, S \subseteq AllRows, NEW n \in Nat, NEW r \in Oldest(n, S), NEW q \in S, Before(q, r)
  PROVE  q \in Oldest(n, S)
<1> DEFINE B(x) == {p \in S : Before(p, x)}
<1>1. r \in S /\ Cardinality(B(r)) < n BY DEF Oldest
<1>2. B(q) \subseteq B(r)
  <2>1. \A p \in S : Before(p, q) => Before(p, r) BY <1>1, RowsAreOrdered
  <2> QED BY <2>1
<1>3. IsFiniteSet(B(r)) /\ IsFiniteSet(B(q)) BY RowsAreFinite
<1>4. Cardinality(B(q)) <= Cardinality(B(r)) /\ Cardinality(B(q)) \in Nat /\ Cardinality(B(r)) \in Nat
  <2> HIDE DEF B
  <2> QED BY <1>2, <1>3, FS_Subset, FS_CardinalityType
<1>5. Cardinality(B(q)) < n
  <2> HIDE DEF B
  <2> QED BY <1>1, <1>4
<1> QED BY <1>5 DEF Oldest

\* Fewer than asked for are all there are.
LEMMA FewerAreAll ==
  ASSUME NEW S, S \subseteq AllRows, NEW n \in Nat, Cardinality(Oldest(n, S)) < n
  PROVE  Oldest(n, S) = S
<1> DEFINE B(x) == {p \in S : Before(p, x)}
           left == S \ Oldest(n, S)
           Bs == {B(x) : x \in left}
<1> SUFFICES ASSUME left # {} PROVE FALSE
  BY DEF Oldest
<1>1. IsFiniteSet(S) BY RowsAreFinite
<1>2. \A x \in left : B(x) \in FiniteSubsetsOf(S) BY <1>1, FS_Subset DEF FiniteSubsetsOf
<1>3. Bs \subseteq FiniteSubsetsOf(S) /\ Bs # {} BY <1>2
<1>4. PICK b \in Bs : \A c \in Bs : ~ (<<c, b>> \in StrictSubsetOrdering(S))
  <2> HIDE DEF Bs
  <2> QED BY <1>3, FS_StrictSubsetOrderingWellFounded, WFMin
<1>5. PICK r \in left : b = B(r) BY <1>4
<1>6. \A q \in B(r) : q \notin left
  <2> SUFFICES ASSUME NEW q \in left, q \in B(r) PROVE FALSE
    OBVIOUS
  <2>1. q \in S /\ r \in S /\ Before(q, r) OBVIOUS
  <2>2. B(q) \subseteq B(r)
    <3>1. \A p \in S : Before(p, q) => Before(p, r) BY <2>1, RowsAreOrdered
    <3> QED BY <3>1
  <2>3. q \notin B(q) BY <2>1, RowsAreOrdered
  <2>4. B(q) # B(r) BY <2>3
  <2>5. <<B(q), B(r)>> \in StrictSubsetOrdering(S) BY <2>2, <2>4 DEF StrictSubsetOrdering
  <2>6. B(q) \in Bs OBVIOUS
  <2> HIDE DEF B, Bs, left
  <2> QED BY <1>4, <1>5, <2>5, <2>6
<1>7. B(r) \subseteq Oldest(n, S) BY <1>6
<1>8. IsFiniteSet(Oldest(n, S)) /\ IsFiniteSet(B(r)) BY <1>1, FS_Subset DEF Oldest
<1>9. ~ (Cardinality(B(r)) < n) BY DEF Oldest
<1> HIDE DEF B, left
<1>10. /\ Cardinality(B(r)) <= Cardinality(Oldest(n, S)) /\ Cardinality(B(r)) \in Nat
       /\ Cardinality(Oldest(n, S)) \in Nat
  BY <1>7, <1>8, FS_Subset, FS_CardinalityType
<1> QED BY <1>9, <1>10
-----------------------------------------------------------------------------
(* What the historian gives.                                                 *)

ServerOK ==
  /\ history \subseteq AllRows /\ pageSize \in Nat /\ pageSize > 0 /\ serverCap \in Nat /\ serverCap > 0

LEMMA AskedAndGiven ==
  ASSUME ServerOK, NEW a, NEW b
  PROVE  /\ Given(a, b) \subseteq Asked(a, b) /\ Asked(a, b) \subseteq Between(a, b)
         /\ Between(a, b) \subseteq history /\ Between(a, b) \subseteq AllRows
         /\ Lesser(pageSize, Ceiling) \in Nat
         /\ IsFiniteSet(Given(a, b)) /\ Cardinality(Given(a, b)) \in Nat
<1>1. /\ Given(a, b) \subseteq Asked(a, b) /\ Asked(a, b) \subseteq Between(a, b)
      /\ Between(a, b) \subseteq history
  BY DEF Given, Asked, Between, Oldest
<1>2. Given(a, b) \subseteq AllRows /\ Between(a, b) \subseteq AllRows BY <1>1 DEF ServerOK
<1>3. Lesser(pageSize, Ceiling) \in Nat BY PagingAssumption DEF Lesser, ServerOK
<1>4. IsFiniteSet(Given(a, b)) /\ Cardinality(Given(a, b)) \in Nat
  BY <1>2, RowsAreFinite, FS_CardinalityType
<1> QED BY <1>1, <1>2, <1>3, <1>4

\* Without a point, a page short of what was asked and of the ceiling is everything.
LEMMA ShortPageIsAll ==
  ASSUME ServerOK, NEW a, NEW b, NoPoint \in Points(a, b),
         ~(Cardinality(Given(a, b)) >= pageSize), ~AtCeiling(Cardinality(Given(a, b)))
  PROVE  Given(a, b) = Between(a, b)
<1> DEFINE withheld == Asked(a, b) \ Given(a, b)
<1>1. withheld = {}
  <2> SUFFICES ASSUME withheld # {} PROVE FALSE
    OBVIOUS
  <2>1. Given(a, b) # {}
    <3> SUFFICES ASSUME Given(a, b) = {} PROVE FALSE
      OBVIOUS
    <3>1. Cardinality(Given(a, b)) = 0 BY FS_EmptySet
    <3>2. Cardinality(Oldest(serverCap, Asked(a, b))) < serverCap BY <3>1 DEF Given, ServerOK
    <3>3. Asked(a, b) \subseteq AllRows /\ serverCap \in Nat BY AskedAndGiven DEF ServerOK
    <3>4. Given(a, b) = Asked(a, b) BY <3>2, <3>3, FewerAreAll DEF Given
    <3> QED BY <3>4
  <2>2. Asked(a, b) \subseteq AllRows /\ Given(a, b) \subseteq AllRows BY AskedAndGiven
  <2> DEFINE T == {r[1] : r \in Given(a, b)}
             U == {r[1] : r \in withheld}
  <2>3. T \subseteq Instants /\ T # {} /\ U \subseteq Nat /\ U # {} BY <2>1, <2>2, RowsAreOrdered
  <2>4. Points(a, b) = {Max(T), Min(U)} BY DEF Points
  <2> HIDE DEF T, U
  <2>5. Max(T) \in Instants /\ Min(U) \in Nat BY <2>3, MaxIsGreatest, MinIsLeast
  <2>6. Span \in Nat BY PagingAssumption
  <2>7. Max(T) # NoPoint /\ Min(U) # NoPoint BY <2>5, <2>6 DEF NoPoint, Instants
  <2> QED BY <2>4, <2>7
<1>2. Given(a, b) = Asked(a, b) BY <1>1, AskedAndGiven
<1>3. Cardinality(Given(a, b)) < Lesser(pageSize, Ceiling)
  BY AskedAndGiven, PagingAssumption DEF AtCeiling, Lesser, ServerOK
<1>4. Cardinality(Oldest(Lesser(pageSize, Ceiling), Between(a, b))) < Lesser(pageSize, Ceiling)
  BY <1>2, <1>3 DEF Asked
<1>5. Oldest(Lesser(pageSize, Ceiling), Between(a, b)) = Between(a, b)
  BY <1>4, AskedAndGiven, FewerAreAll
<1> QED BY <1>2, <1>5 DEF Asked

\* A point is an instant of the read, and every row before it is on the page.
LEMMA PointCovers ==
  ASSUME ServerOK, NEW a, NEW b, NEW p \in Points(a, b), p # NoPoint
  PROVE  p \in Instants /\ a <= p /\ p <= b /\ \A q \in Between(a, b) : q[1] < p => q \in Given(a, b)
<1> DEFINE withheld == Asked(a, b) \ Given(a, b)
           T == {r[1] : r \in Given(a, b)}
           U == {r[1] : r \in withheld}
<1>1. withheld # {} /\ p \in {Max(T), Min(U)} BY DEF Points
<1>2. Given(a, b) # {}
  <2> SUFFICES ASSUME Given(a, b) = {} PROVE FALSE
    OBVIOUS
  <2>1. Cardinality(Given(a, b)) = 0 BY FS_EmptySet
  <2>2. Cardinality(Oldest(serverCap, Asked(a, b))) < serverCap BY <2>1 DEF Given, ServerOK
  <2>3. Asked(a, b) \subseteq AllRows /\ serverCap \in Nat BY AskedAndGiven DEF ServerOK
  <2>4. Given(a, b) = Asked(a, b) BY <2>2, <2>3, FewerAreAll DEF Given
  <2> QED BY <1>1, <2>4
<1>3. /\ Asked(a, b) \subseteq AllRows /\ Given(a, b) \subseteq AllRows /\ Between(a, b) \subseteq AllRows
      /\ withheld \subseteq Asked(a, b) /\ Given(a, b) \subseteq Asked(a, b) /\ Asked(a, b) \subseteq Between(a, b)
  BY AskedAndGiven
<1>4. T \subseteq Instants /\ T # {} /\ U \subseteq Nat /\ U # {} BY <1>1, <1>2, <1>3, RowsAreOrdered
<1>5. \A r \in Asked(a, b), q \in Between(a, b) : q[1] < r[1] => q \in Asked(a, b)
  <2> SUFFICES ASSUME NEW r \in Asked(a, b), NEW q \in Between(a, b), q[1] < r[1] PROVE q \in Asked(a, b)
    OBVIOUS
  <2>1. Before(q, r) BY <1>3, RowsAreOrdered
  <2> QED BY <1>3, <2>1, AskedAndGiven, OldestIsClosed DEF Asked
<1>6. CASE p = Max(T)
  <2> HIDE DEF T
  <2>1. PICK r \in Given(a, b) : p = r[1] BY <1>4, <1>6, MaxIsGreatest DEF T
  <2>2. ASSUME NEW q \in Between(a, b), q[1] < p PROVE q \in Given(a, b)
    <3>1. q \in Asked(a, b) BY <1>3, <1>5, <2>1, <2>2
    <3>2. Before(q, r) BY <1>3, <2>1, <2>2, RowsAreOrdered
    <3>3. serverCap \in Nat BY DEF ServerOK
    <3> QED BY <1>3, <3>1, <3>2, <3>3, OldestIsClosed DEF Given
  <2>3. a <= p /\ p <= b BY <1>3, <2>1 DEF Between
  <2>4. p \in Instants BY <1>3, <2>1, RowsAreOrdered
  <2> QED BY <2>2, <2>3, <2>4
<1>7. CASE p = Min(U)
  <2>1. p \in U /\ \A y \in U : p <= y
    <3> HIDE DEF U
    <3> QED BY <1>4, <1>7, MinIsLeast
  <2>2. PICK r \in withheld : p = r[1] BY <2>1
  <2>3. ASSUME NEW q \in Between(a, b), q[1] < p PROVE q \in Given(a, b)
    <3>1. q \in Asked(a, b) BY <1>3, <1>5, <2>2, <2>3
    <3>2. q \notin withheld
      <4> SUFFICES ASSUME q \in withheld PROVE FALSE
        OBVIOUS
      <4>1. p <= q[1] BY <2>1
      <4>2. p \in Nat /\ q[1] \in Nat BY <1>3, <2>2, RowsAreOrdered
      <4> QED BY <2>3, <4>1, <4>2
    <3> QED BY <3>1, <3>2
  <2>4. a <= p /\ p <= b BY <1>3, <2>2 DEF Between
  <2>5. p \in Instants BY <1>3, <2>2, RowsAreOrdered
  <2> QED BY <2>3, <2>4, <2>5
<1> QED BY <1>1, <1>6, <1>7
-----------------------------------------------------------------------------
(* The windows still to be read: the rest of the run, cut into pieces.       *)

Tiled(w, e) ==
  /\ w \in Seq(Window) /\ e \in Instants
  /\ \A i \in 1 .. Len(w) : w[i].from <= w[i].to /\ w[i].from = IF i = 1 THEN e ELSE w[i - 1].to
  /\ (IF Len(w) = 0 THEN e ELSE w[Len(w)].to) = Span

LEMMA InstantsAreNatural == \A t \in Instants : t \in Nat /\ t <= Span
BY PagingAssumption DEF Instants

\* The next window is read: the rest starts where it ended.
LEMMA RestIsTiled ==
  ASSUME NEW w, NEW e, Tiled(w, e), w # <<>>
  PROVE  /\ Head(w) \in Window /\ Head(w).from = e /\ Head(w).from <= Head(w).to
         /\ Tail(w) \in Seq(Window) /\ Tiled(Tail(w), Head(w).to)
<1> DEFINE t == Tail(w)
           h == Head(w)
<1>1. /\ w \in Seq(Window) /\ Len(w) \in Nat /\ Len(w) > 0 /\ h = w[1] /\ t \in Seq(Window)
      /\ Len(t) = Len(w) - 1 /\ \A i \in 1 .. Len(w) - 1 : t[i] = w[i + 1]
  BY DEF Tiled
<1> HIDE DEF t, h
<1>2. 1 \in 1 .. Len(w) BY <1>1
<1>3. h \in Window BY <1>1, <1>2
<1>4. h.from = e /\ h.from <= h.to BY <1>1, <1>2 DEF Tiled
<1>5. h.to \in Instants BY <1>3 DEF Window
<1>6. ASSUME NEW i \in 1 .. Len(t)
      PROVE  t[i].from <= t[i].to /\ t[i].from = IF i = 1 THEN h.to ELSE t[i - 1].to
  <2>1. i + 1 \in 1 .. Len(w) /\ t[i] = w[i + 1] /\ i + 1 # 1 BY <1>1
  <2>2. w[i + 1].from <= w[i + 1].to /\ w[i + 1].from = w[i + 1 - 1].to BY <2>1 DEF Tiled
  <2>3. i + 1 - 1 = i BY <1>1
  <2>4. CASE i = 1 BY <1>1, <2>1, <2>2, <2>3, <2>4
  <2>5. CASE i # 1
    <3>1. i - 1 \in 1 .. Len(w) - 1 /\ i - 1 + 1 = i BY <1>1, <2>5
    <3>2. t[i - 1] = w[i] BY <1>1, <3>1
    <3> QED BY <2>1, <2>2, <2>3, <2>5, <3>2
  <2> QED BY <2>4, <2>5
<1>7. (IF Len(t) = 0 THEN h.to ELSE t[Len(t)].to) = Span
  <2>1. w[Len(w)].to = Span BY <1>1 DEF Tiled
  <2>2. CASE Len(t) = 0
    <3>1. Len(w) = 1 BY <1>1, <2>2
    <3> QED BY <1>1, <2>1, <2>2, <3>1
  <2>3. CASE Len(t) # 0
    <3>1. Len(t) \in 1 .. Len(w) - 1 /\ Len(t) + 1 = Len(w) BY <1>1, <2>3
    <3>2. t[Len(t)] = w[Len(w)] BY <1>1, <3>1
    <3> QED BY <2>1, <2>3, <3>2
  <2> QED BY <2>2, <2>3
<1>8. Tiled(t, h.to) BY <1>1, <1>5, <1>6, <1>7 DEF Tiled
<1> QED BY <1>1, <1>3, <1>4, <1>8 DEF t, h

\* A window in front of what is tiled from its end.
LEMMA FrontIsTiled ==
  ASSUME NEW w, NEW v \in Window, v.from <= v.to, Tiled(w, v.to)
  PROVE  Tiled(<<v>> \o w, v.from)
<1> DEFINE n == <<v>> \o w
<1>1. w \in Seq(Window) /\ Len(w) \in Nat BY DEF Tiled
<1>2. /\ n \in Seq(Window) /\ Len(n) = Len(w) + 1 /\ n[1] = v
      /\ \A i \in 1 .. Len(w) : n[i + 1] = w[i]
  BY <1>1
<1> HIDE DEF n
<1>3. v.from \in Instants BY DEF Window
<1>4. ASSUME NEW i \in 1 .. Len(n)
      PROVE  n[i].from <= n[i].to /\ n[i].from = IF i = 1 THEN v.from ELSE n[i - 1].to
  <2>1. CASE i = 1 BY <1>2, <2>1
  <2>2. CASE i # 1
    <3>1. i - 1 \in 1 .. Len(w) /\ i - 1 + 1 = i BY <1>1, <1>2, <2>2
    <3>2. n[i] = w[i - 1] BY <1>2, <3>1
    <3>3. w[i - 1].from <= w[i - 1].to /\ w[i - 1].from = IF i - 1 = 1 THEN v.to ELSE w[i - 1 - 1].to
      BY <3>1 DEF Tiled
    <3>4. CASE i - 1 = 1
      <4>1. n[i - 1] = v BY <1>2, <3>4
      <4> QED BY <2>2, <3>2, <3>3, <3>4, <4>1
    <3>5. CASE i - 1 # 1
      <4>1. i - 1 - 1 \in 1 .. Len(w) /\ i - 1 - 1 + 1 = i - 1 BY <3>1, <3>5
      <4>2. n[i - 1] = w[i - 1 - 1] BY <1>2, <4>1
      <4> QED BY <2>2, <3>2, <3>3, <3>5, <4>2
    <3> QED BY <3>4, <3>5
  <2> QED BY <2>1, <2>2
<1>5. (IF Len(n) = 0 THEN v.from ELSE n[Len(n)].to) = Span
  <2>1. CASE Len(w) = 0
    <3>1. v.to = Span /\ n[Len(n)] = v /\ Len(n) = 1 BY <1>2, <2>1 DEF Tiled
    <3> QED BY <3>1
  <2>2. CASE Len(w) # 0
    <3>1. Len(w) \in 1 .. Len(w) /\ w[Len(w)].to = Span BY <1>1, <2>2 DEF Tiled
    <3>2. n[Len(n)] = w[Len(w)] /\ Len(n) # 0 BY <1>1, <1>2, <3>1
    <3> QED BY <3>1, <3>2
  <2> QED BY <2>1, <2>2
<1>6. Tiled(n, v.from) BY <1>2, <1>3, <1>4, <1>5 DEF Tiled
<1> QED BY <1>6 DEF n

LEMMA PairIsJoined == ASSUME NEW S, NEW a \in S, NEW b \in S PROVE <<a>> \o <<b>> = <<a, b>>
<1> DEFINE x == <<a>>
           y == <<b>>
           n == x \o y
           p == <<a, b>>
<1>1. x \in Seq(S) /\ Len(x) = 1 /\ x[1] = a /\ y \in Seq(S) /\ Len(y) = 1 /\ y[1] = b OBVIOUS
<1>2. p \in Seq(S) /\ Len(p) = 2 /\ p[1] = a /\ p[2] = b OBVIOUS
<1> HIDE DEF x, y, p
<1>3. n \in Seq(S) /\ Len(n) = 2 /\ n[1] = a /\ n[2] = b
  <2>1. /\ n \in Seq(S) /\ Len(n) = 2
        /\ \A i \in 1 .. 2 : n[i] = IF i <= 1 THEN x[i] ELSE y[i - 1]
    BY <1>1, ConcatProperties
  <2>2. n[1] = x[1] /\ n[2] = y[1] BY <2>1
  <2> QED BY <1>1, <2>1, <2>2
<1> HIDE DEF n
<1>4. \A i \in 1 .. Len(n) : n[i] = p[i] BY <1>2, <1>3
<1>5. n = p BY <1>2, <1>3, <1>4, SeqEqual
<1> QED BY <1>5 DEF x, y, n, p

LEMMA JoinsAssociate ==
  ASSUME NEW S, NEW a \in S, NEW b \in S, NEW t \in Seq(S)
  PROVE  (<<a>> \o <<b>>) \o t = <<a>> \o (<<b>> \o t)
<1>1. <<a>> \in Seq(S) /\ <<b>> \in Seq(S) OBVIOUS
<1> QED BY <1>1, ConcatAssociative

\* The halves of a window tile it.
LEMMA HalvesAreTiled ==
  ASSUME NEW w, NEW e, Tiled(w, e), w # <<>> PROVE Tiled(Subdivide(Head(w)) \o Tail(w), e)
<1> DEFINE h == Head(w)
           t == Tail(w)
           middle == h.from + ((h.to - h.from) \div 2)
           left == [from |-> h.from, to |-> middle]
           right == [from |-> middle, to |-> h.to]
<1>1. h \in Window /\ h.from = e /\ h.from <= h.to /\ t \in Seq(Window) /\ Tiled(t, h.to) BY RestIsTiled
<1>2. h.from \in Nat /\ h.to \in Nat /\ h.to <= Span /\ Span \in Nat
  BY <1>1, InstantsAreNatural, PagingAssumption DEF Window
<1>3. middle \in Nat /\ h.from <= middle /\ middle <= h.to
  <2> HIDE DEF h
  <2> QED BY <1>1, <1>2
<1>4. middle \in Instants
  <2> HIDE DEF middle, h
  <2> QED BY <1>2, <1>3 DEF Instants
<1>5. Subdivide(h) = <<left, right>> BY DEF Subdivide
<1>6. /\ left \in Window /\ left.from = e /\ left.to = middle /\ left.from <= left.to
      /\ right \in Window /\ right.from = middle /\ right.to = h.to /\ right.from <= right.to
  <2> HIDE DEF middle, h
  <2> QED BY <1>1, <1>3, <1>4 DEF Window
<1> HIDE DEF left, right, middle, h, t
<1>7. Tiled(<<right>> \o t, middle) BY <1>1, <1>6, FrontIsTiled
<1>8. Tiled(<<left>> \o (<<right>> \o t), e) BY <1>6, <1>7, FrontIsTiled
<1>9. <<left>> \o (<<right>> \o t) = <<left, right>> \o t
  <2>1. (<<left>> \o <<right>>) \o t = <<left>> \o (<<right>> \o t) BY <1>1, <1>6, JoinsAssociate
  <2>2. <<left>> \o <<right>> = <<left, right>> BY <1>6, PairIsJoined
  <2> QED BY <2>1, <2>2
<1> QED BY <1>5, <1>8, <1>9 DEF h, t

LEMMA RunIsTiled == Tiled(RunWindows, 0)
<1> DEFINE W == BackfillWindow
           n == (Span + W - 1) \div W
<1>1. Span \in Nat /\ Span > 0 /\ W \in Nat /\ W > 0 BY PagingAssumption
<1>2. n \in Nat /\ n >= 1 /\ (n - 1) * W < Span /\ Span <= n * W
  <2> HIDE DEF W
  <2> QED BY <1>1
<1>3. RunWindows = [i \in 1 .. n |-> [from |-> (i - 1) * W, to |-> Lesser(i * W, Span)]] BY DEF RunWindows
<1> HIDE DEF W, n
<1>4. ASSUME NEW i \in 1 .. n PROVE (i - 1) * W \in Nat /\ i * W \in Nat /\ (i - 1) * W < Span
                                    /\ (i - 1) * W <= i * W
  <2>1. i \in Nat /\ i - 1 \in Nat /\ n - i \in Nat BY <1>2
  <2>2. (i - 1) * W \in Nat /\ i * W \in Nat /\ (n - i) * W \in Nat BY <1>1, <2>1
  <2>3. (n - 1) * W = (n - i) * W + (i - 1) * W /\ i * W = (i - 1) * W + W BY <1>1, <1>2, <2>1
  <2> QED BY <1>1, <1>2, <2>2, <2>3
<1>5. ASSUME NEW i \in 1 .. n
      PROVE  /\ RunWindows[i] \in Window /\ RunWindows[i].from = (i - 1) * W
             /\ RunWindows[i].to = Lesser(i * W, Span) /\ RunWindows[i].from <= RunWindows[i].to
  <2> DEFINE a == (i - 1) * W
             b == Lesser(i * W, Span)
  <2>1. RunWindows[i] = [from |-> a, to |-> b] BY <1>3
  <2>2. a \in Instants /\ b \in Instants /\ a <= b BY <1>1, <1>4 DEF Instants, Lesser
  <2> HIDE DEF a, b
  <2>3. RunWindows[i] \in Window /\ RunWindows[i].from = a /\ RunWindows[i].to = b BY <2>1, <2>2 DEF Window
  <2> QED BY <2>2, <2>3 DEF a, b
<1>6. RunWindows \in Seq(Window) /\ Len(RunWindows) = n
  <2>1. \A i \in 1 .. n : RunWindows[i] \in Window BY <1>5
  <2>2. DOMAIN RunWindows = 1 .. n BY <1>3
  <2>3. RunWindows = [i \in 1 .. n |-> RunWindows[i]] BY <1>3
  <2> QED BY <1>2, <2>1, <2>2, <2>3
<1>7. ASSUME NEW i \in 1 .. n
      PROVE  RunWindows[i].from = IF i = 1 THEN 0 ELSE RunWindows[i - 1].to
  <2>1. CASE i = 1
    <3>1. (i - 1) * W = 0 BY <1>1, <2>1
    <3> QED BY <1>5, <2>1, <3>1
  <2>2. CASE i # 1
    <3>1. i - 1 \in 1 .. n BY <1>2, <2>2
    <3>2. RunWindows[i - 1].to = Lesser((i - 1) * W, Span) BY <1>5, <3>1
    <3>3. Lesser((i - 1) * W, Span) = (i - 1) * W BY <1>4 DEF Lesser
    <3> QED BY <1>5, <2>2, <3>2, <3>3
  <2> QED BY <2>1, <2>2
<1>8. RunWindows[n].to = Span
  <2>1. n \in 1 .. n BY <1>2
  <2>2. RunWindows[n].to = Lesser(n * W, Span) BY <1>5, <2>1
  <2>3. n * W \in Nat BY <1>4, <2>1
  <2> QED BY <1>1, <1>2, <2>2, <2>3 DEF Lesser
<1>9. 0 \in Instants BY <1>1 DEF Instants
<1> QED BY <1>2, <1>5, <1>6, <1>7, <1>8, <1>9 DEF Tiled
-----------------------------------------------------------------------------
(* The inductive invariant.                                                  *)

LedgerRow == [from : Instants, to : Instants, rows : Nat, pages : Nat]

\* Where the ledger's first i windows end.
Upto(i) == IF i = 0 THEN 0 ELSE ledger[i].to

Counted == rows \in Nat /\ pages \in Nat /\ point \in Instants \cup {NoPoint}

LedgerOK ==
  /\ ledger \in Seq(LedgerRow)
  /\ \A i \in 1 .. Len(ledger) : ledger[i].from = Upto(i - 1)
  /\ Tiled(work, Upto(Len(ledger)))

\* Nothing the ledger covers is missing, its last instant included.
Covered ==
  /\ handed \subseteq history
  /\ ledger # <<>> => \A r \in history : r[1] <= Upto(Len(ledger)) => r \in handed

\* Of the window being read, nothing before the next page is missing.
Reading ==
  step = "paging" =>
    /\ work # <<>>
    /\ \A r \in history : Head(work).from <= r[1] /\ r[1] < From => r \in handed

Ended == step = "done" => work = <<>>

\* Besides the point of a page that was not decoded, the server holds the one the client knows
\* of and is about to use or release, at most.
PointHeld ==
  /\ undecoded # 0 => undecoded = pages + 1 /\ step \in {"release", "failed"}
  /\ \/ open = {undecoded} \ {0}
     \/ /\ open = {pages} \cup ({undecoded} \ {0})
        /\ point # NoPoint /\ step \in {"paging", "release"}

IInv == ServerOK /\ Counted /\ LedgerOK /\ Covered /\ Reading /\ Ended /\ PointHeld

LEMMA InitOK == Init => IInv
<1> SUFFICES ASSUME Init PROVE IInv
  OBVIOUS
<1>1. Span \in Nat /\ Span > 0 BY PagingAssumption
<1>2. ServerOK
  <2>1. history \subseteq AllRows BY DEF Init, Histories
  <2>2. MaxPerInstant \in Nat BY PagingAssumption
  <2>3. serverCap \in Nat /\ serverCap > MaxPerInstant BY PagingAssumption DEF Init
  <2>4. serverCap > 0 BY <2>2, <2>3
  <2>5. pageSize \in Nat /\ pageSize > 0 BY PagingAssumption DEF Init
  <2> QED BY <2>1, <2>3, <2>4, <2>5 DEF ServerOK
<1>3. Counted BY DEF Init, Counted
<1>4. LedgerOK
  <2>1. ledger = <<>> /\ Len(ledger) = 0 /\ work = RunWindows BY DEF Init
  <2>2. Upto(Len(ledger)) = 0 BY <2>1 DEF Upto
  <2> QED BY <2>1, <2>2, RunIsTiled DEF LedgerOK
<1>5. Covered BY DEF Init, Covered
<1>6. Reading /\ Ended /\ PointHeld BY DEF Init, Reading, Ended, PointHeld
<1> QED BY <1>2, <1>3, <1>4, <1>5, <1>6 DEF IInv

\* A step that settles no window.
LEMMA NothingSettled ==
  ASSUME IInv, UNCHANGED <<server, work, ledger>>, handed \subseteq handed', handed' \subseteq history
  PROVE  ServerOK' /\ LedgerOK' /\ Covered'
<1>1. history' = history /\ pageSize' = pageSize /\ serverCap' = serverCap BY DEF server
<1>2. ServerOK' BY <1>1 DEF IInv, ServerOK
<1>3. \A i : Upto(i)' = Upto(i) BY DEF Upto
<1>4. LedgerOK' BY DEF IInv, LedgerOK, Upto, Tiled
<1>5. Covered'
  <2>1. ledger' = ledger /\ Upto(Len(ledger))' = Upto(Len(ledger)) BY DEF Upto
  <2> QED BY <1>1, <2>1 DEF IInv, Covered
<1> QED BY <1>2, <1>4, <1>5

LEMMA HandedIsKept ==
  ASSUME IInv, UNCHANGED handed PROVE handed \subseteq handed' /\ handed' \subseteq history
BY DEF IInv, Covered

LEMMA StartWindowOK == ASSUME IInv, StartWindow PROVE IInv'
<1>1. UNCHANGED <<server, work, ledger, handed>> BY DEF StartWindow
<1>2. ServerOK' /\ LedgerOK' /\ Covered' BY <1>1, HandedIsKept, NothingSettled
<1>3. Counted' BY DEF StartWindow, Counted
<1>4. Reading'
  <2>1. work' # <<>> /\ From' = Head(work').from BY DEF StartWindow, From
  <2>2. Head(work').from \in Nat
    <3>1. Head(work').from \in Instants BY <2>1, <1>2, RestIsTiled DEF LedgerOK, StartWindow, IInv, Window
    <3> QED BY <3>1, InstantsAreNatural
  <2>3. \A r \in history' : r[1] \in Nat BY <1>2, RowsAreOrdered DEF ServerOK
  <2> QED BY <2>1, <2>2, <2>3 DEF Reading
<1>5. Ended' BY DEF StartWindow, Ended
<1>6. PointHeld' BY DEF StartWindow, IInv, PointHeld
<1> QED BY <1>2, <1>3, <1>4, <1>5, <1>6 DEF IInv

\* A failure on the way out.
LEMMA LeavesOK ==
  ASSUME IInv, step' \in {"release", "failed"}, UNCHANGED <<server, work, ledger>>, Counted', PointHeld',
         handed \subseteq handed', handed' \subseteq history
  PROVE  IInv'
BY NothingSettled DEF IInv, Reading, Ended

LEMMA ReadThrowsOK == ASSUME IInv, ReadThrows PROVE IInv'
<1>1. UNCHANGED <<server, work, ledger, handed>> /\ step' = "release" BY DEF ReadThrows
<1>2. Counted' BY DEF ReadThrows, IInv, Counted, read
<1>3. PointHeld' BY DEF ReadThrows, IInv, PointHeld, read
<1> QED BY <1>1, <1>2, <1>3, HandedIsKept, LeavesOK

LEMMA LeaveCancelledOK == ASSUME IInv, LeaveCancelled PROVE IInv'
<1>1. UNCHANGED <<server, work, ledger, handed>> /\ step' = "release" BY DEF LeaveCancelled
<1>2. Counted' BY DEF LeaveCancelled, IInv, Counted, read
<1>3. PointHeld' BY DEF LeaveCancelled, IInv, PointHeld, read
<1> QED BY <1>1, <1>2, <1>3, HandedIsKept, LeavesOK

LEMMA ReleaseOK == ASSUME IInv, Release PROVE IInv'
<1>1. UNCHANGED <<server, work, ledger, handed>> /\ step' = "failed" BY DEF Release
<1>2. Counted' BY DEF Release, IInv, Counted
<1>3. PointHeld'
  <2>1. /\ UNCHANGED <<pages, undecoded>> /\ step' = "failed" /\ pages \in Nat
        /\ open' = IF point # NoPoint THEN open \ {pages} ELSE open
    BY DEF Release, Owed, IInv, Counted
  <2>2. open' = {undecoded} \ {0} BY <2>1 DEF IInv, PointHeld
  <2> QED BY <2>1, <2>2 DEF IInv, PointHeld
<1> QED BY <1>1, <1>2, <1>3, HandedIsKept, LeavesOK

LEMMA DecodeThrowsOK == ASSUME IInv, DecodeThrows PROVE IInv'
<1>1. UNCHANGED <<server, work, ledger>> /\ step' = "release" BY DEF DecodeThrows
<1>2. Counted' BY DEF DecodeThrows, IInv, Counted, read
<1>3. PointHeld'
  <2>1. /\ step = "paging" /\ undecoded = 0 /\ step' = "release" /\ UNCHANGED read
        /\ pages \in Nat /\ open \subseteq {pages}
    BY DEF DecodeThrows, IInv, PointHeld, Counted
  <2>2. PICK p \in Points(From, Head(work).to) :
          open' = HeldWith(p) /\ undecoded' = IF p = NoPoint THEN 0 ELSE pages + 1
    BY DEF DecodeThrows
  <2>3. CASE p = NoPoint BY <2>1, <2>2, <2>3 DEF HeldWith, PointHeld, read
  <2>4. CASE p # NoPoint
    <3>1. open' = {pages + 1} /\ undecoded' = pages + 1 /\ pages' = pages
      BY <2>1, <2>2, <2>4 DEF HeldWith, read
    <3> QED BY <2>1, <3>1 DEF PointHeld
  <2> QED BY <2>3, <2>4
<1>4. handed \subseteq handed' /\ handed' \subseteq history
  <2> DEFINE page == Given(From, Head(work).to)
  <2>1. page \subseteq history BY AskedAndGiven DEF IInv
  <2> HIDE DEF page
  <2>2. PICK k \in 0 .. Cardinality(page) : handed' = handed \cup Oldest(k, page)
    BY DEF DecodeThrows, page
  <2>3. Oldest(k, page) \subseteq page BY DEF Oldest
  <2> QED BY <2>1, <2>2, <2>3 DEF IInv, Covered
<1> QED BY <1>1, <1>2, <1>3, <1>4, LeavesOK

LEMMA FinishOK == ASSUME IInv, Finish PROVE IInv'
<1>1. UNCHANGED <<server, work, ledger, handed>> BY DEF Finish
<1>2. ServerOK' /\ LedgerOK' /\ Covered' BY <1>1, HandedIsKept, NothingSettled
<1>3. Counted' BY DEF Finish, IInv, Counted, read
<1>4. Reading' /\ Ended' BY DEF Finish, Reading, Ended
<1>5. PointHeld' BY DEF Finish, IInv, PointHeld, read
<1> QED BY <1>2, <1>3, <1>4, <1>5 DEF IInv

\* The token, or nothing at all.
LEMMA StandsStillOK ==
  ASSUME IInv, UNCHANGED <<server, work, step, read, open, handed, ledger, undecoded>> PROVE IInv'
<1>1. UNCHANGED <<server, work, ledger, handed>> OBVIOUS
<1>2. ServerOK' /\ LedgerOK' /\ Covered' BY <1>1, HandedIsKept, NothingSettled
<1>3. UNCHANGED <<history, step, point, rows, pages, work, handed, open, undecoded>> BY DEF read, server
<1>4. Counted' BY <1>3 DEF IInv, Counted
<1>5. Reading' BY <1>3 DEF IInv, Reading, From
<1>6. Ended' /\ PointHeld' BY <1>3 DEF IInv, Ended, PointHeld
<1> QED BY <1>2, <1>4, <1>5, <1>6 DEF IInv

-----------------------------------------------------------------------------
(* A page.                                                                   *)

\* What is handed over once the page is: the window up to the point, or all of it.
LEMMA PageCovers ==
  ASSUME IInv, ReadPage
  PROVE  /\ work # <<>> /\ Head(work) \in Window /\ UNCHANGED server
         /\ handed \subseteq handed' /\ handed' \subseteq history
         /\ \A r \in history : Head(work).from <= r[1] /\ r[1] < From => r \in handed'
         /\ Given(From, Head(work).to) \subseteq handed'
<1>1. step = "paging" BY DEF ReadPage
<1>2. work # <<>> /\ \A r \in history : Head(work).from <= r[1] /\ r[1] < From => r \in handed
  BY <1>1 DEF IInv, Reading
<1>3. Head(work) \in Window BY <1>2, RestIsTiled DEF IInv, LedgerOK
<1>4. handed' = handed \cup Given(From, Head(work).to) /\ UNCHANGED server BY DEF ReadPage
<1>5. Given(From, Head(work).to) \subseteq history BY AskedAndGiven DEF IInv
<1>6. handed \subseteq history BY DEF IInv, Covered
<1> QED BY <1>2, <1>3, <1>4, <1>5, <1>6

LEMMA NextPageOK ==
  ASSUME IInv, ReadPage, PointHeld', UNCHANGED <<step, work, ledger>>,
         point' # NoPoint, point' \in Points(From, Head(work).to), rows' \in Nat, pages' \in Nat
  PROVE  IInv'
<1> DEFINE a == From
           b == Head(work).to
<1>1. /\ point' \in Instants
      /\ \A q \in Between(a, b) : q[1] < point' => q \in Given(a, b)
      /\ a <= point' /\ point' <= b
  BY PointCovers DEF IInv
<1>2. ServerOK' /\ LedgerOK' /\ Covered' BY PageCovers, NothingSettled
<1>3. Counted' BY <1>1 DEF Counted
<1>4. Reading'
  <2>1. From' = point' /\ work' = work /\ history' = history BY PageCovers DEF From, server
  <2>2. ASSUME NEW r \in history, Head(work).from <= r[1], r[1] < point' PROVE r \in handed'
    <3>1. r[1] \in Nat BY RowsAreOrdered DEF IInv, ServerOK
    <3>2. point' \in Nat BY <1>1, InstantsAreNatural
    <3>3. a \in Nat
      <4>1. a \in Instants BY PageCovers DEF IInv, Counted, From, Window
      <4> QED BY <4>1, InstantsAreNatural
    <3>4. b \in Nat BY PageCovers, InstantsAreNatural DEF Window
    <3>5. CASE r[1] < a BY <2>2, <3>5, PageCovers
    <3>6. CASE ~(r[1] < a)
      <4> HIDE DEF a, b
      <4>1. a <= r[1] /\ r[1] <= b BY <1>1, <2>2, <3>1, <3>2, <3>3, <3>4, <3>6
      <4>2. r \in Between(a, b) BY <4>1 DEF Between
      <4>3. r \in Given(a, b) BY <1>1, <2>2, <4>2
      <4> QED BY <4>3, PageCovers DEF a, b
    <3> QED BY <3>5, <3>6
  <2>3. work' # <<>> BY <2>1, PageCovers
  <2> QED BY <2>1, <2>2, <2>3 DEF Reading
<1>5. Ended' BY DEF ReadPage, Ended
<1> QED BY <1>2, <1>3, <1>4, <1>5 DEF IInv

\* A last page that is believed closes its window.
LEMMA CompleteOK ==
  ASSUME IInv, ReadPage, NoPoint \in Points(From, Head(work).to), PointHeld',
         LET n == Cardinality(Given(From, Head(work).to)) IN ~AtCeiling(n) /\ ~(n >= pageSize),
         point' = NoPoint, rows' \in Nat, pages' \in Nat, step' = "next", work' = Tail(work),
         ledger' = Append(ledger, [from |-> Head(work).from, to |-> Head(work).to,
                                   rows |-> rows', pages |-> pages'])
  PROVE  IInv'
<1> DEFINE h == Head(work)
           row == [from |-> h.from, to |-> h.to, rows |-> rows', pages |-> pages']
           len == Len(ledger)
<1>1. /\ Tiled(work, Upto(len)) /\ ledger \in Seq(LedgerRow) /\ len \in Nat
      /\ \A i \in 1 .. len : ledger[i].from = Upto(i - 1)
  BY DEF IInv, LedgerOK
<1>2. /\ h \in Window /\ h.from = Upto(len) /\ h.from <= h.to /\ Tiled(Tail(work), h.to)
  BY <1>1, PageCovers, RestIsTiled
<1>3. row \in LedgerRow /\ row.from = h.from /\ row.to = h.to
  BY <1>2 DEF LedgerRow, Window
<1>4. ledger' = Append(ledger, row) OBVIOUS
<1>5. history' = history /\ UNCHANGED server BY PageCovers DEF server
<1> HIDE DEF row, h
<1>6. /\ ledger' \in Seq(LedgerRow) /\ Len(ledger') = len + 1 /\ ledger' # <<>>
      /\ ledger'[len + 1] = row /\ \A i \in 1 .. len : ledger'[i] = ledger[i]
  BY <1>1, <1>3, <1>4
<1>7. ledger'[len + 1].to = h.to /\ \A i \in 0 .. len : Upto(i)' = Upto(i)
  <2>1. ledger'[len + 1].to = h.to BY <1>3, <1>6
  <2>2. ASSUME NEW i \in 0 .. len PROVE Upto(i)' = Upto(i)
    <3>1. CASE i = 0 BY <3>1 DEF Upto
    <3>2. CASE i # 0
      <4>1. i \in 1 .. len BY <1>1, <3>2
      <4> QED BY <1>6, <3>2, <4>1 DEF Upto
    <3> QED BY <3>1, <3>2
  <2> QED BY <2>1, <2>2
<1> HIDE DEF len
<1>8. LedgerOK'
  <2>1. ASSUME NEW i \in 1 .. Len(ledger') PROVE ledger'[i].from = Upto(i - 1)'
    <3>1. CASE i = len + 1
      <4>1. i - 1 = len /\ len \in 0 .. len BY <1>1, <3>1
      <4> QED BY <1>2, <1>3, <1>6, <1>7, <3>1, <4>1
    <3>2. CASE i # len + 1
      <4>1. i \in 1 .. len /\ i - 1 \in 0 .. len BY <1>1, <1>6, <3>2
      <4> QED BY <1>1, <1>6, <1>7, <4>1
    <3> QED BY <3>1, <3>2
  <2>2. Upto(Len(ledger))' = h.to
    <3>1. Len(ledger') = len + 1 /\ len + 1 # 0 BY <1>1, <1>6
    <3> QED BY <1>7, <3>1 DEF Upto
  <2>3. Tiled(work, Upto(Len(ledger)))' BY <1>2, <2>2 DEF Tiled
  <2> QED BY <1>6, <2>1, <2>3 DEF LedgerOK
<1>9. Covered'
  <2>1. handed' \subseteq history' BY <1>5, PageCovers
  <2>2. Upto(Len(ledger))' = h.to
    <3>1. Len(ledger') = len + 1 /\ len + 1 # 0 BY <1>1, <1>6
    <3> QED BY <1>7, <3>1 DEF Upto
  <2>3. Given(From, h.to) = Between(From, h.to) BY ShortPageIsAll DEF IInv, h
  <2>4. ASSUME NEW r \in history, r[1] <= h.to PROVE r \in handed'
    <3>1. r[1] \in Nat BY RowsAreOrdered DEF IInv, ServerOK
    <3>2. h.from \in Nat /\ h.to \in Nat BY <1>2, InstantsAreNatural DEF Window
    <3>3. From \in Nat
      <4>1. From \in Instants BY <1>2 DEF IInv, Counted, From, Window, h
      <4> QED BY <4>1, InstantsAreNatural
    <3>4. CASE r[1] < h.from
      <4>1. ledger # <<>>
        <5>1. ledger = <<>> => Len(ledger) = 0 OBVIOUS
        <5>2. ledger = <<>> => h.from = 0 BY <1>2, <5>1 DEF Upto, len
        <5> QED BY <3>1, <3>4, <5>2
      <4>2. r[1] <= Upto(len) BY <1>2, <3>1, <3>2, <3>4
      <4>3. r \in handed BY <4>1, <4>2 DEF IInv, Covered, len
      <4> QED BY <4>3, PageCovers
    <3>5. CASE h.from <= r[1] /\ r[1] < From BY <3>5, PageCovers DEF h
    <3>6. CASE h.from <= r[1] /\ From <= r[1]
      <4>1. r \in Between(From, h.to) BY <2>4, <3>6 DEF Between
      <4> QED BY <2>3, <4>1, PageCovers DEF h
    <3> QED BY <3>1, <3>2, <3>3, <3>4, <3>5, <3>6
  <2> QED BY <1>5, <2>1, <2>2, <2>4 DEF Covered
<1>10. ServerOK' BY <1>5 DEF IInv, ServerOK, server
<1>11. Counted' /\ Reading' /\ Ended' BY DEF Counted, Reading, Ended
<1> QED BY <1>8, <1>9, <1>10, <1>11 DEF IInv

\* One that is not is read again in halves, or fails the run at the floor.
LEMMA HalvedOK ==
  ASSUME IInv, ReadPage, PointHeld', point' = NoPoint, rows' \in Nat, pages' \in Nat, UNCHANGED ledger,
         \/ step' = "failed" /\ UNCHANGED work
         \/ step' = "next" /\ work' = Subdivide(Head(work)) \o Tail(work)
  PROVE  IInv'
<1>1. Counted' /\ Reading' /\ Ended' BY DEF Counted, Reading, Ended
<1>2. UNCHANGED server /\ history' = history BY PageCovers DEF server
<1>3. ServerOK' BY <1>2 DEF IInv, ServerOK, server
<1>4. \A i : Upto(i)' = Upto(i) BY DEF Upto
<1>5. Tiled(work', Upto(Len(ledger)))
  <2>1. Tiled(work, Upto(Len(ledger))) BY DEF IInv, LedgerOK
  <2>2. CASE work' = work BY <2>1, <2>2
  <2>3. CASE work' = Subdivide(Head(work)) \o Tail(work) BY <2>1, <2>3, PageCovers, HalvesAreTiled
  <2> QED BY <2>2, <2>3
<1>6. LedgerOK'
  <2>1. Upto(Len(ledger))' = Upto(Len(ledger)) /\ ledger' = ledger BY DEF Upto
  <2>2. Tiled(work, Upto(Len(ledger)))' BY <1>5, <2>1 DEF Tiled
  <2> QED BY <1>4, <2>1, <2>2 DEF IInv, LedgerOK
<1>7. Covered'
  <2>1. Upto(Len(ledger))' = Upto(Len(ledger)) /\ ledger' = ledger BY DEF Upto
  <2> QED BY <1>2, <2>1, PageCovers DEF IInv, Covered
<1> QED BY <1>1, <1>3, <1>6, <1>7 DEF IInv

LEMMA ReadPageOK == ASSUME IInv, ReadPage PROVE IInv'
<1> DEFINE page == Given(From, Head(work).to)
           n == Cardinality(page)
<1>1. n \in Nat BY AskedAndGiven DEF IInv
<1>2. PICK p \in Points(From, Head(work).to) :
        /\ point' = p /\ open' = HeldWith(p)
        /\ rows' = rows + n /\ pages' = pages + 1
        /\ IF p = NoPoint THEN Settle(rows', pages', ClassifyPage(n, FALSE))
                          ELSE UNCHANGED <<step, work, ledger>>
  BY DEF ReadPage
<1>3. rows' \in Nat /\ pages' \in Nat BY <1>1, <1>2 DEF IInv, Counted
<1>7. PointHeld'
  <2>1. /\ step = "paging" /\ undecoded = 0 /\ undecoded' = 0 /\ pages \in Nat
        /\ open \subseteq {pages}
    BY DEF ReadPage, IInv, PointHeld, Counted
  <2>2. CASE p = NoPoint BY <1>2, <2>1, <2>2 DEF HeldWith, PointHeld
  <2>3. CASE p # NoPoint
    <3>1. open' = {pages + 1} /\ step' = "paging" BY <1>2, <2>1, <2>3 DEF HeldWith
    <3> QED BY <1>2, <2>1, <2>3, <3>1 DEF PointHeld
  <2> QED BY <2>2, <2>3
<1>4. CASE p # NoPoint BY <1>2, <1>3, <1>4, <1>7, NextPageOK
<1>5. CASE p = NoPoint /\ ClassifyPage(n, FALSE) = "Complete"
  <2>1. ~AtCeiling(n) BY DEF ReadPage
  <2>2. ~(n >= pageSize) BY <1>5 DEF ClassifyPage
  <2>3. /\ step' = "next" /\ work' = Tail(work)
        /\ ledger' = Append(ledger, [from |-> Head(work).from, to |-> Head(work).to,
                                     rows |-> rows', pages |-> pages'])
    BY <1>2, <1>5 DEF Settle
  <2> QED BY <1>2, <1>3, <1>5, <1>7, <2>1, <2>2, <2>3, CompleteOK
<1>6. CASE p = NoPoint /\ ClassifyPage(n, FALSE) # "Complete"
  <2>1. /\ UNCHANGED ledger
        /\ \/ step' = "failed" /\ UNCHANGED work
           \/ step' = "next" /\ work' = Subdivide(Head(work)) \o Tail(work)
    BY <1>2, <1>6 DEF Settle
  <2> QED BY <1>2, <1>3, <1>6, <1>7, <2>1, HalvedOK
<1> QED BY <1>4, <1>5, <1>6

LEMMA NextOK == IInv /\ [Next]_vars => IInv'
<1> SUFFICES ASSUME IInv, [Next]_vars PROVE IInv'
  OBVIOUS
<1>1. CASE StartWindow BY <1>1, StartWindowOK
<1>2. CASE ReadPage BY <1>2, ReadPageOK
<1>3. CASE ReadThrows BY <1>3, ReadThrowsOK
<1>4. CASE DecodeThrows BY <1>4, DecodeThrowsOK
<1>5. CASE LeaveCancelled BY <1>5, LeaveCancelledOK
<1>6. CASE Release BY <1>6, ReleaseOK
<1>7. CASE Finish BY <1>7, FinishOK
<1>8. CASE Cancel BY <1>8, StandsStillOK DEF Cancel
<1>9. CASE UNCHANGED vars BY <1>9, StandsStillOK DEF vars
<1> QED BY <1>1, <1>2, <1>3, <1>4, <1>5, <1>6, <1>7, <1>8, <1>9 DEF Next

LEMMA Inductive == Spec => []IInv
BY InitOK, NextOK, PTL DEF Spec

-----------------------------------------------------------------------------
(* What a run promises.                                                      *)

\* A run that ended leaves the server at most one continuation point, that of a page whose
\* decoding threw: continuationPoint is assigned only once a page is decoded, so that one alone
\* escapes the release at the end of HistoryBackfill.ReadPagesAsync.
THEOREM PointsAreReleased == Spec => []OnlyUndecodedPointsLeak
<1>1. IInv => OnlyUndecodedPointsLeak BY DEF IInv, PointHeld, OnlyUndecodedPointsLeak
<1> QED BY <1>1, Inductive, PTL

\* However often a window is halved, the windows reported follow one another without a gap
\* or an overlap, and reach the end of the run when it is done (HistoryBackfill.ReadWindowAsync
\* and Subdivide).
THEOREM LedgerIsGapless == Spec => []LedgerTilesTheRun
<1>1. IInv => LedgerTilesTheRun
  <2> SUFFICES ASSUME IInv PROVE LedgerTilesTheRun
    OBVIOUS
  <2>1. /\ Tiled(work, Upto(Len(ledger))) /\ ledger \in Seq(LedgerRow)
        /\ \A i \in 1 .. Len(ledger) : ledger[i].from = Upto(i - 1)
    BY DEF IInv, LedgerOK
  <2>2. DOMAIN ledger = 1 .. Len(ledger) BY <2>1
  <2>3. work # <<>> => Head(work).from = Upto(Len(ledger)) BY <2>1, RestIsTiled
  <2>4. step = "done" => Upto(Len(ledger)) = Span
    <3>1. step = "done" => Len(work) = 0 BY DEF IInv, Ended
    <3> QED BY <2>1, <3>1 DEF Tiled
  <2> QED BY <2>1, <2>2, <2>3, <2>4 DEF LedgerTilesTheRun, Upto
<1> QED BY <1>1, Inductive, PTL

\* A run that reports success has handed over every row the plant kept, for every history,
\* page size, server cap and ceiling above the rows of an instant (HistoryBackfill's
\* ClassifyPage, CheckCeiling and Subdivide).
THEOREM NothingIsLeftUnread == Spec => []DoneIsComplete
<1>1. IInv => DoneIsComplete
  <2> SUFFICES ASSUME IInv, step = "done" PROVE handed = history
    BY DEF DoneIsComplete
  <2>1. Span \in Nat /\ Span > 0 BY PagingAssumption
  <2>2. work = <<>> /\ Len(work) = 0 BY DEF IInv, Ended
  <2>3. Upto(Len(ledger)) = Span BY <2>2 DEF IInv, LedgerOK, Tiled
  <2>4. ledger # <<>>
    <3>1. ledger = <<>> => Upto(Len(ledger)) = 0 BY DEF Upto
    <3> QED BY <2>1, <2>3, <3>1
  <2>5. \A r \in history : r[1] <= Span
    BY RowsAreOrdered, InstantsAreNatural DEF IInv, ServerOK
  <2> QED BY <2>3, <2>4, <2>5 DEF IInv, Covered
<1> QED BY <1>1, Inductive, PTL
=============================================================================
