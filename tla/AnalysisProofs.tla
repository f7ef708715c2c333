--------------------------- MODULE AnalysisProofs ---------------------------
(***************************************************************************)
(* Proofs of Analysis: every answer is what the routes say of the views it *)
(* was given from, and seven of its properties follow for every scenario.  *)
(* The phrases tile the days and the weeks, whatever the clocks do; the    *)
(* buckets of a window add up to it; a containment scope loses no part and *)
(* counts none twice; a chain of causes is evidence; a window's gaps cost  *)
(* what they cover together; the stops of a window that is over can be     *)
(* opened by their ids; and a list of patterns is the step-up procedure's. *)
(***************************************************************************)
EXTENDS Analysis, FiniteSetTheorems, TLAPS

-----------------------------------------------------------------------------
(* Sums over finite sets.                                                    *)

(* A recursion that takes its elements out of a finite set one by one has one  *)
(* solution at most.                                                          *)
Sums(f, S, n) ==
  \A s \in SUBSET S : f[s] = IF s = {} THEN 0
                             ELSE n[CHOOSE x \in s : TRUE] + f[s \ {CHOOSE x \in s : TRUE}]

LEMMA OneSum ==
  ASSUME NEW S, IsFiniteSet(S), NEW n, NEW f, NEW g, Sums(f, S, n), Sums(g, S, n)
  PROVE  f[S] = g[S]
<1> DEFINE T == {s \in SUBSET S : f[s] # g[s]}
<1>1. SUFFICES ASSUME T # {}
               PROVE  FALSE
  OBVIOUS
<1>2. T \subseteq FiniteSubsetsOf(S)
  BY FS_FiniteSubsetsOfFinite
<1>3. PICK s \in T : \A r \in T : ~(<<r, s>> \in StrictSubsetOrdering(S))
  <2> HIDE DEF T
  <2> QED
    BY <1>1, <1>2, FS_StrictSubsetOrderingWellFounded, WFMin
<1>4. s \subseteq S /\ f[s] # g[s]
  OBVIOUS
<1>5. s # {}
  BY <1>4 DEF Sums
<1> DEFINE x == CHOOSE y \in s : TRUE
<1> DEFINE r == s \ {x}
<1>6. x \in s
  BY <1>5
<1>7. r \subseteq s /\ r # s /\ r \in SUBSET S
  BY <1>4, <1>6
<1>8. <<r, s>> \in StrictSubsetOrdering(S)
  BY <1>4, <1>7 DEF StrictSubsetOrdering
<1>9. f[r] = g[r]
  BY <1>3, <1>7, <1>8
<1>10. f[s] = n[x] + f[r] /\ g[s] = n[x] + g[r]
  BY <1>4, <1>5 DEF Sums
<1> QED
  BY <1>4, <1>9, <1>10

(* Sets that share nothing have together as many elements as they have one by  *)
(* one.                                                                       *)
Apart(own, S) == \A x, y \in S : x # y => own[x] \cap own[y] = {}
Together(own, s) == UNION {own[x] : x \in s}

LEMMA DisjointUnion ==
  ASSUME NEW A, NEW B, IsFiniteSet(A), IsFiniteSet(B), A \cap B = {}
  PROVE  /\ IsFiniteSet(A \cup B) /\ Cardinality(A) \in Nat /\ Cardinality(B) \in Nat
         /\ Cardinality(A \cup B) = Cardinality(A) + Cardinality(B)
<1>1. /\ Cardinality(A) \in Nat /\ Cardinality(B) \in Nat
      /\ Cardinality(A \cup B) = Cardinality(A) + Cardinality(B) - Cardinality(A \cap B)
      /\ IsFiniteSet(A \cup B)
  BY FS_Union, FS_CardinalityType
<1>2. Cardinality(A \cap B) = 0
  BY FS_EmptySet
<1> QED
  BY <1>1, <1>2

LEMMA TogetherSums ==
  ASSUME NEW S, NEW P, IsFiniteSet(P), NEW own, \A x \in S : own[x] \subseteq P, Apart(own, S)
  PROVE  Sums([s \in SUBSET S |-> Cardinality(Together(own, s))], S, [x \in S |-> Cardinality(own[x])])
<1> DEFINE f == [s \in SUBSET S |-> Cardinality(Together(own, s))]
<1> DEFINE n == [x \in S |-> Cardinality(own[x])]
<1>1. ASSUME NEW s \in SUBSET S
      PROVE  f[s] = IF s = {} THEN 0 ELSE n[CHOOSE x \in s : TRUE] + f[s \ {CHOOSE x \in s : TRUE}]
  <2>1. CASE s = {}
    <3>1. Together(own, s) = {}
      BY <2>1 DEF Together
    <3> QED
      BY <2>1, <3>1, FS_EmptySet
  <2>2. CASE s # {}
    <3> DEFINE x == CHOOSE y \in s : TRUE
    <3> DEFINE r == s \ {x}
    <3>1. x \in s
      BY <2>2
    <3> HIDE DEF x
    <3>2. Together(own, s) = own[x] \cup Together(own, r)
      BY <3>1 DEF Together
    <3>3. own[x] \cap Together(own, r) = {}
      BY <3>1 DEF Together, Apart
    <3>4. own[x] \subseteq P /\ Together(own, r) \subseteq P
      BY <3>1 DEF Together
    <3>5. /\ IsFiniteSet(own[x]) /\ IsFiniteSet(Together(own, r))
          /\ Cardinality(own[x]) \in Nat /\ Cardinality(Together(own, r)) \in Nat
      BY <3>4, FS_Subset, FS_CardinalityType
    <3>6. Cardinality(Together(own, s)) = Cardinality(own[x]) + Cardinality(Together(own, r))
      BY <3>2, <3>3, <3>5, DisjointUnion
    <3>7. f[s] = n[x] + f[r]
      BY <3>1, <3>6
    <3> QED
      BY <2>2, <3>7 DEF x
  <2> QED
    BY <2>1, <2>2
<1> QED
  BY <1>1 DEF Sums

(* The sums the properties take over sets of records and of reports.           *)
FieldTotal(S, field) == MapThenSumSet(LAMBDA x : x[field], S)
CountTotal(t, S) == MapThenSumSet(LAMBDA x : t[x].count, S)

LEMMA FieldSum ==
  ASSUME NEW field, NEW S, IsFiniteSet(S), NEW n, NEW g, Sums(g, S, n), \A x \in S : x[field] = n[x]
  PROVE  FieldTotal(S, field) = g[S]
<1> DEFINE Iterates(f) == f = [s \in SUBSET S |-> IF s = {} THEN 0
                                 ELSE (CHOOSE x \in s : TRUE)[field] + f[s \ {CHOOSE x \in s : TRUE}]]
<1> DEFINE iter == CHOOSE f : Iterates(f)
<1> DEFINE h == [s \in SUBSET S |-> g[s]]
<1>1. Iterates(h)
  <2>1. ASSUME NEW s \in SUBSET S
        PROVE  h[s] = IF s = {} THEN 0 ELSE (CHOOSE x \in s : TRUE)[field] + h[s \ {CHOOSE x \in s : TRUE}]
    <3> DEFINE x == CHOOSE y \in s : TRUE
    <3>1. g[s] = IF s = {} THEN 0 ELSE n[x] + g[s \ {x}]
      BY DEF Sums
    <3>2. s # {} => x \in s
      OBVIOUS
    <3> HIDE DEF x
    <3>3. s \ {x} \in SUBSET S
      OBVIOUS
    <3>4. h[s] = IF s = {} THEN 0 ELSE x[field] + h[s \ {x}]
      BY <3>1, <3>2, <3>3
    <3> QED
      BY <3>4 DEF x
  <2> QED
    BY <2>1
<1>2. Iterates(iter)
  BY <1>1
<1>3. FieldTotal(S, field) = iter[S]
  BY DEF FieldTotal, MapThenSumSet, MapThenFoldSet
<1> HIDE DEF iter
<1>4. ASSUME NEW s \in SUBSET S
      PROVE  iter[s] = IF s = {} THEN 0 ELSE n[CHOOSE x \in s : TRUE] + iter[s \ {CHOOSE x \in s : TRUE}]
  <2> DEFINE x == CHOOSE y \in s : TRUE
  <2>1. iter[s] = IF s = {} THEN 0 ELSE x[field] + iter[s \ {x}]
    BY <1>2
  <2>2. s # {} => x \in s
    OBVIOUS
  <2> HIDE DEF x
  <2>3. iter[s] = IF s = {} THEN 0 ELSE n[x] + iter[s \ {x}]
    BY <2>1, <2>2
  <2> QED
    BY <2>3 DEF x
<1>5. Sums(iter, S, n)
  BY <1>4 DEF Sums
<1> QED
  BY <1>3, <1>5, OneSum
LEMMA CountsSum ==
  ASSUME NEW t, NEW S, IsFiniteSet(S), NEW n, NEW g, Sums(g, S, n), \A x \in S : t[x].count = n[x]
  PROVE  CountTotal(t, S) = g[S]
<1> DEFINE Iterates(f) == f = [s \in SUBSET S |-> IF s = {} THEN 0
                                 ELSE t[CHOOSE x \in s : TRUE].count + f[s \ {CHOOSE x \in s : TRUE}]]
<1> DEFINE iter == CHOOSE f : Iterates(f)
<1> DEFINE h == [s \in SUBSET S |-> g[s]]
<1>1. Iterates(h)
  <2>1. ASSUME NEW s \in SUBSET S
        PROVE  h[s] = IF s = {} THEN 0 ELSE t[CHOOSE x \in s : TRUE].count + h[s \ {CHOOSE x \in s : TRUE}]
    <3> DEFINE x == CHOOSE y \in s : TRUE
    <3>1. g[s] = IF s = {} THEN 0 ELSE n[x] + g[s \ {x}]
      BY DEF Sums
    <3>2. s # {} => x \in s
      OBVIOUS
    <3> HIDE DEF x
    <3>3. s \ {x} \in SUBSET S
      OBVIOUS
    <3>4. h[s] = IF s = {} THEN 0 ELSE t[x].count + h[s \ {x}]
      BY <3>1, <3>2, <3>3
    <3> QED
      BY <3>4 DEF x
  <2> QED
    BY <2>1
<1>2. Iterates(iter)
  BY <1>1
<1>3. CountTotal(t, S) = iter[S]
  BY DEF CountTotal, MapThenSumSet, MapThenFoldSet
<1> HIDE DEF iter
<1>4. ASSUME NEW s \in SUBSET S
      PROVE  iter[s] = IF s = {} THEN 0 ELSE n[CHOOSE x \in s : TRUE] + iter[s \ {CHOOSE x \in s : TRUE}]
  <2> DEFINE x == CHOOSE y \in s : TRUE
  <2>1. iter[s] = IF s = {} THEN 0 ELSE t[x].count + iter[s \ {x}]
    BY <1>2
  <2>2. s # {} => x \in s
    OBVIOUS
  <2> HIDE DEF x
  <2>3. iter[s] = IF s = {} THEN 0 ELSE n[x] + iter[s \ {x}]
    BY <2>1, <2>2
  <2> QED
    BY <2>3 DEF x
<1>5. Sums(iter, S, n)
  BY <1>4 DEF Sums
<1> QED
  BY <1>3, <1>5, OneSum

-----------------------------------------------------------------------------
(* The buckets of a window.                                                  *)

LEMMA BucketOf ==
  /\ \A t \in Int : BucketStart(t) \in Int /\ BucketStart(t) <= t /\ t < BucketStart(t) + BucketHours
  /\ \A t, u \in Int : (BucketStart(u) <= t /\ t < BucketStart(u) + BucketHours) => BucketStart(t) = BucketStart(u)
<1>1. BucketHours \in Int /\ BucketHours > 0
  BY PartsAssumption
<1>2. ASSUME NEW t \in Int
      PROVE  /\ t \div BucketHours \in Int /\ t % BucketHours \in Int
             /\ t = BucketHours * (t \div BucketHours) + (t % BucketHours)
             /\ 0 <= t % BucketHours /\ t % BucketHours < BucketHours
  BY <1>1
<1>3. ASSUME NEW t \in Int
      PROVE  BucketStart(t) \in Int /\ BucketStart(t) <= t /\ t < BucketStart(t) + BucketHours
  BY <1>1, <1>2 DEF BucketStart
<1>4. ASSUME NEW t \in Int, NEW u \in Int, BucketStart(u) <= t, t < BucketStart(u) + BucketHours
      PROVE  BucketStart(t) = BucketStart(u)
  <2> DEFINE a == t \div BucketHours
  <2> DEFINE b == u \div BucketHours
  <2>1. a \in Int /\ b \in Int
    BY <1>2
  <2>2. BucketStart(t) = a * BucketHours /\ BucketStart(u) = b * BucketHours
    BY DEF BucketStart
  <2>3. a * BucketHours <= t /\ t < a * BucketHours + BucketHours
    BY <1>3, <2>2
  <2> HIDE DEF a, b
  <2>4. a * BucketHours \in Int /\ b * BucketHours \in Int
    BY <1>1, <2>1
  <2>5. CASE a < b
    <3>1. (a + 1) * BucketHours <= b * BucketHours
      BY <1>1, <2>1, <2>5
    <3>2. (a + 1) * BucketHours = a * BucketHours + BucketHours
      BY <1>1, <2>1
    <3> QED
      BY <3>1, <3>2, <2>2, <2>3, <2>4, <1>1, <1>4
  <2>6. CASE b < a
    <3>1. (b + 1) * BucketHours <= a * BucketHours
      BY <1>1, <2>1, <2>6
    <3>2. (b + 1) * BucketHours = b * BucketHours + BucketHours
      BY <1>1, <2>1
    <3> QED
      BY <3>1, <3>2, <2>2, <2>3, <2>4, <1>1, <1>4
  <2> QED
    BY <2>1, <2>2, <2>5, <2>6
<1> QED
  BY <1>3, <1>4


(* The bucket of a window that starts at b, and the verdicts it counts.       *)
BucketParts(db, w, b) == {p \in InspectedIn(db, w) : BucketStart(Verdict(db, p).at) = b}
BucketRejects(db, w, b) == {p \in RejectedIn(db, w) : BucketStart(Verdict(db, p).at) = b}
Bucket(db, w, b) ==
  Group(b, Later(b, w.from), Earlier(b + BucketHours, w.to), BucketParts(db, w, b), BucketRejects(db, w, b))

LEMMA BucketFields ==
  ASSUME NEW db, NEW w, NEW b
  PROVE  /\ Bucket(db, w, b).key = b
         /\ Bucket(db, w, b).from = Later(b, w.from) /\ Bucket(db, w, b).to = Earlier(b + BucketHours, w.to)
         /\ Bucket(db, w, b).parts = Cardinality(BucketParts(db, w, b))
         /\ Bucket(db, w, b).rejects = Cardinality(BucketRejects(db, w, b))
  BY DEF Bucket, Group

LEMMA BucketsAreBuckets ==
  ASSUME NEW db, NEW w
  PROVE  CountsByTimeBucket(db, w) = {Bucket(db, w, b) : b \in BucketStarts(w)}
  BY DEF CountsByTimeBucket, Bucket, BucketParts, BucketRejects

(* What the rows of inspection results are, as far as counting them goes.      *)
Countable(db) == IsFiniteSet(DOMAIN db.parts) /\ \A p \in Inspected(db) : Verdict(db, p).at \in Int
Bounded(w) == w.from \in Int /\ w.to \in Int

LEMMA BucketsTile ==
  ASSUME NEW db, NEW w, Bounded(w), NEW t \in w.from .. (w.to - 1)
  PROVE  Cardinality({g \in CountsByTimeBucket(db, w) : g.from <= t /\ t < g.to}) = 1
<1> DEFINE home == Bucket(db, w, BucketStart(t))
<1> DEFINE holding == {g \in CountsByTimeBucket(db, w) : g.from <= t /\ t < g.to}
<1>1. t \in Int /\ w.from \in Int /\ w.to \in Int /\ w.from <= t /\ t < w.to
  BY DEF Bounded
<1>2. BucketHours \in Int /\ BucketHours > 0
  BY PartsAssumption
<1>3. BucketStart(t) \in Int /\ BucketStart(t) <= t /\ t < BucketStart(t) + BucketHours
  BY <1>1, BucketOf
<1>4. home \in CountsByTimeBucket(db, w)
  BY BucketsAreBuckets DEF BucketStarts
<1>5. home.from <= t /\ t < home.to
  <2>1. home.from = Later(BucketStart(t), w.from) /\ home.to = Earlier(BucketStart(t) + BucketHours, w.to)
    BY BucketFields
  <2>2. Later(BucketStart(t), w.from) <= t /\ t < Earlier(BucketStart(t) + BucketHours, w.to)
    BY <1>1, <1>2, <1>3 DEF Later, Earlier
  <2> QED
    BY <2>1, <2>2
<1>6. ASSUME NEW g \in holding
      PROVE  g = home
  <2>1. PICK u \in w.from .. (w.to - 1) : g = Bucket(db, w, BucketStart(u))
    BY BucketsAreBuckets DEF BucketStarts
  <2>2. u \in Int /\ BucketStart(u) \in Int
    BY <1>1, BucketOf
  <2>3. g.from = Later(BucketStart(u), w.from) /\ g.to = Earlier(BucketStart(u) + BucketHours, w.to)
    BY <2>1, BucketFields
  <2>4. BucketStart(u) <= t /\ t < BucketStart(u) + BucketHours
    BY <2>2, <2>3, <1>1, <1>2 DEF Later, Earlier
  <2>5. BucketStart(t) = BucketStart(u)
    BY <2>2, <2>4, <1>1, BucketOf
  <2> QED
    BY <2>1, <2>5
<1>7. holding = {home}
  BY <1>4, <1>5, <1>6
<1> QED
  BY <1>7, FS_Singleton

LEMMA BucketsAreFinite ==
  ASSUME NEW db, NEW w, Bounded(w)
  PROVE  IsFiniteSet(CountsByTimeBucket(db, w))
<1> DEFINE hours == w.from .. (w.to - 1)
<1> DEFINE f == [t \in hours |-> Bucket(db, w, BucketStart(t))]
<1>1. IsFiniteSet(hours)
  BY FS_Interval DEF Bounded
<1>2. CountsByTimeBucket(db, w) = {f[t] : t \in hours}
  BY BucketsAreBuckets DEF BucketStarts
<1>3. f \in Surjection(hours, CountsByTimeBucket(db, w))
  <2> HIDE DEF hours
  <2>1. DOMAIN f = hours /\ f = [t \in hours |-> f[t]]
    OBVIOUS
  <2> HIDE DEF f
  <2> QED
    BY <1>2, <2>1 DEF Surjection
<1> QED
  BY <1>1, <1>3, FS_Surjection

(* The counts of all buckets are the counts of the window.                    *)
LEMMA BucketsSum ==
  ASSUME NEW db, NEW w, Countable(db), Bounded(w)
  PROVE  /\ FieldTotal(CountsByTimeBucket(db, w), "parts") = Cardinality(InspectedIn(db, w))
         /\ FieldTotal(CountsByTimeBucket(db, w), "rejects") = Cardinality(RejectedIn(db, w))
<1> DEFINE S == CountsByTimeBucket(db, w)
<1>1. IsFiniteSet(S)
  BY BucketsAreFinite
<1>2. ASSUME NEW g \in S
      PROVE  /\ g.parts = Cardinality(BucketParts(db, w, g.key))
             /\ g.rejects = Cardinality(BucketRejects(db, w, g.key))
             /\ g = Bucket(db, w, g.key)
  BY BucketFields, BucketsAreBuckets
<1>3. IsFiniteSet(InspectedIn(db, w)) /\ IsFiniteSet(RejectedIn(db, w))
  <2>1. InspectedIn(db, w) \in SUBSET (DOMAIN db.parts) /\ RejectedIn(db, w) \in SUBSET (DOMAIN db.parts)
    BY DEF InspectedIn, RejectedIn, Inspected
  <2> QED
    BY <2>1, FS_Subset DEF Countable
<1>4. ASSUME NEW p \in InspectedIn(db, w)
      PROVE  Bucket(db, w, BucketStart(Verdict(db, p).at)) \in S
  <2>1. Verdict(db, p).at \in Int /\ InWindow(w, Verdict(db, p).at)
    BY DEF InspectedIn, Countable
  <2>2. Verdict(db, p).at \in w.from .. (w.to - 1)
    BY <2>1 DEF InWindow, Bounded
  <2> QED
    BY <2>2, BucketsAreBuckets DEF BucketStarts
<1>5. RejectedIn(db, w) \subseteq InspectedIn(db, w)
  BY DEF RejectedIn
<1> DEFINE made == [g \in S |-> BucketParts(db, w, g.key)]
<1> DEFINE lost == [g \in S |-> BucketRejects(db, w, g.key)]
<1>6. Apart(made, S) /\ Apart(lost, S)
  <2>1. \A g, h \in S : g # h => g.key # h.key
    BY <1>2
  <2> QED
    BY <2>1 DEF Apart, BucketParts, BucketRejects
<1>7. Together(made, S) = InspectedIn(db, w)
  <2>1. ASSUME NEW p \in InspectedIn(db, w)
        PROVE  \E g \in S : p \in made[g]
    <3>1. PICK g \in S : g = Bucket(db, w, BucketStart(Verdict(db, p).at))
      BY <1>4, <1>5
    <3>2. g.key = BucketStart(Verdict(db, p).at)
      BY <3>1, BucketFields
    <3>3. p \in BucketParts(db, w, g.key)
      BY <3>2 DEF BucketParts
    <3> QED
      BY <3>3
  <2>2. \A g \in S : made[g] \subseteq InspectedIn(db, w)
    BY DEF BucketParts
  <2> HIDE DEF made
  <2> QED
    BY <2>1, <2>2 DEF Together
<1>8. Together(lost, S) = RejectedIn(db, w)
  <2>1. ASSUME NEW p \in RejectedIn(db, w)
        PROVE  \E g \in S : p \in lost[g]
    <3>1. PICK g \in S : g = Bucket(db, w, BucketStart(Verdict(db, p).at))
      BY <1>4, <1>5
    <3>2. g.key = BucketStart(Verdict(db, p).at)
      BY <3>1, BucketFields
    <3>3. p \in BucketRejects(db, w, g.key)
      BY <3>2 DEF BucketRejects
    <3> QED
      BY <3>3
  <2>2. \A g \in S : lost[g] \subseteq RejectedIn(db, w)
    BY DEF BucketRejects
  <2> HIDE DEF lost
  <2> QED
    BY <2>1, <2>2 DEF Together
<1>9. \A g \in S : made[g] \subseteq InspectedIn(db, w) /\ lost[g] \subseteq RejectedIn(db, w)
  BY DEF BucketParts, BucketRejects
<1>10. ASSUME NEW own, NEW P, IsFiniteSet(P), \A g \in S : own[g] \subseteq P, Apart(own, S),
              NEW field, \A g \in S : g[field] = Cardinality(own[g])
       PROVE  FieldTotal(S, field) = Cardinality(Together(own, S))
  <2> DEFINE f == [s \in SUBSET S |-> Cardinality(Together(own, s))]
  <2> DEFINE n == [g \in S |-> Cardinality(own[g])]
  <2> HIDE DEF S
  <2>1. Sums(f, S, n)
    BY <1>10, TogetherSums
  <2>2. \A g \in S : g[field] = n[g]
    BY <1>10
  <2>3. f[S] = Cardinality(Together(own, S))
    OBVIOUS
  <2> HIDE DEF f, n
  <2>4. FieldTotal(S, field) = f[S]
    BY <2>1, <2>2, <1>1, FieldSum
  <2> QED
    BY <2>3, <2>4
<1>11. \A g \in S : g["parts"] = Cardinality(made[g]) /\ g["rejects"] = Cardinality(lost[g])
  BY <1>2
<1> HIDE DEF S, made, lost
<1>12. FieldTotal(S, "parts") = Cardinality(InspectedIn(db, w))
  BY <1>3, <1>6, <1>7, <1>9, <1>10, <1>11
<1>13. FieldTotal(S, "rejects") = Cardinality(RejectedIn(db, w))
  BY <1>3, <1>6, <1>8, <1>9, <1>10, <1>11
<1> QED
  BY <1>12, <1>13 DEF S

(* A bucket says the same in every window it reaches as far in.               *)
LEMMA BucketsAgree ==
  ASSUME NEW db, NEW v, NEW w, Countable(db), Bounded(v), Bounded(w),
         NEW g \in CountsByTimeBucket(db, v), NEW h \in CountsByTimeBucket(db, w),
         g.key = h.key, g.from = h.from, g.to = h.to
  PROVE  g = h
<1>1. PICK b \in BucketStarts(v) : g = Bucket(db, v, b)
  BY BucketsAreBuckets
<1>2. h = Bucket(db, w, b) /\ b \in BucketStarts(w)
  BY <1>1, BucketsAreBuckets, BucketFields
<1>3. b \in Int /\ BucketHours \in Int
  BY <1>1, BucketOf, PartsAssumption DEF BucketStarts, Bounded
<1>4. Later(b, v.from) = Later(b, w.from) /\ Earlier(b + BucketHours, v.to) = Earlier(b + BucketHours, w.to)
  BY <1>1, <1>2, BucketFields
<1>5. ASSUME NEW t \in Int, BucketStart(t) = b
      PROVE  InWindow(v, t) <=> InWindow(w, t)
  <2>1. b <= t /\ t < b + BucketHours
    BY <1>5, BucketOf
  <2> QED
    BY <2>1, <1>3, <1>4 DEF InWindow, Later, Earlier, Bounded
<1>6. BucketParts(db, v, b) = BucketParts(db, w, b)
  BY <1>5 DEF BucketParts, InspectedIn, Countable
<1>7. BucketRejects(db, v, b) = BucketRejects(db, w, b)
  BY <1>5 DEF BucketRejects, RejectedIn, InspectedIn, Countable
<1> QED
  BY <1>1, <1>2, <1>4, <1>6, <1>7 DEF Bucket

-----------------------------------------------------------------------------
(* The clock on the wall.                                                    *)

LEMMA HoursOfADay ==
  /\ \A d \in Int : \A h \in 0 .. 23 : (24 * d + h) \in Int /\ (24 * d + h) \div 24 = d /\ (24 * d + h) % 24 = h
  /\ \A x \in Int : x \div 24 \in Int /\ x % 24 \in 0 .. 23 /\ x = 24 * (x \div 24) + (x % 24)
  OBVIOUS

(* What Local returns: an instant that is that hour of that day, with every    *)
(* instant before it earlier by the clock on the wall.                        *)
Begins == {0, 6, 14, 22}

LEMMA LocalClock ==
  ASSUME NEW day \in Int, NEW hour \in Begins
  PROVE  /\ Local(day, hour) \in Int
         /\ LocalOf(Local(day, hour)) = 24 * day + hour
         /\ Local(day, hour) \in {24 * day + hour - Winter - 1, 24 * day + hour - Winter}
         /\ \A t \in Int : Local(day, hour) <= t <=> 24 * day + hour <= LocalOf(t)
<1> DEFINE clock == 24 * day + hour
<1> DEFINE early == clock - Winter - 1
<1> DEFINE late == clock - Winter
<1> DEFINE fits == {u \in {early, late} : LocalOf(u) = clock}
<1>1. /\ Winter \in Int /\ Winter >= 0 /\ Spring \in Int /\ Autumn \in Int /\ Spring < Autumn
  BY CalendarAssumption
<1>2. clock \in Int /\ early \in Int /\ late \in Int /\ late = early + 1
  BY <1>1 DEF Begins
<1>t. hour \in 0 .. 23 /\ hour \in {0, 6, 14, 22}
  BY DEF Begins
<1>3. clock % 24 = hour
  BY <1>t, HoursOfADay
<1>4. clock # Spring + Winter
  BY <1>3, ChangesAssumption DEF Begins
<1>5. Local(day, hour) = Min(fits)
  BY DEF Local
<1>h. early = clock - Winter - 1 /\ late = clock - Winter
  OBVIOUS
<1>i. /\ clock = 24 * day + hour
      /\ early = 24 * day + hour - Winter - 1
      /\ late = 24 * day + hour - Winter
  BY <1>1, <1>t
<1> HIDE DEF clock, early, late
<1>6. \A t \in Int : LocalOf(t) = IF Spring <= t /\ t < Autumn THEN t + Winter + 1 ELSE t + Winter
  BY <1>1 DEF LocalOf, Offset
<1>7. CASE Spring <= early /\ early < Autumn
  <2>1. LocalOf(early) = clock
    BY <1>1, <1>2, <1>6, <1>7, <1>h
  <2>2. Min(fits) = early
    BY <2>1, <1>2 DEF Min
  <2>3. \A t \in Int : early <= t <=> clock <= LocalOf(t)
    BY <1>1, <1>2, <1>6, <1>7, <1>h
  <2>4. Local(day, hour) = early
    BY <2>2, <1>5
  <2> QED
    BY <2>1, <2>3, <2>4, <1>2, <1>i
<1>8. CASE ~(Spring <= early /\ early < Autumn)
  <2>1. LocalOf(early) # clock
    BY <1>1, <1>2, <1>6, <1>8, <1>h
  <2>2. LocalOf(late) = clock
    BY <1>1, <1>2, <1>6, <1>8, <1>h, <1>4
  <2>3. Min(fits) = late
    BY <2>1, <2>2, <1>2 DEF Min
  <2>4. \A t \in Int : late <= t <=> clock <= LocalOf(t)
    BY <1>1, <1>2, <1>6, <1>8, <1>h, <1>4
  <2>5. Local(day, hour) = late
    BY <2>3, <1>5
  <2> QED
    BY <2>2, <2>4, <2>5, <1>2, <1>i
<1> QED
  BY <1>7, <1>8

LEMMA LocalReads ==
  ASSUME NEW day \in Int, NEW hour \in Begins
  PROVE  Local(day, hour) \in Int /\ DayOf(Local(day, hour)) = day /\ HourOf(Local(day, hour)) = hour
<1>1. hour \in 0 .. 23
  BY DEF Begins
<1>2. Local(day, hour) \in Int /\ LocalOf(Local(day, hour)) = 24 * day + hour
  BY LocalClock
<1>3. (24 * day + hour) \div 24 = day /\ (24 * day + hour) % 24 = hour
  BY <1>1, HoursOfADay
<1> QED
  BY <1>2, <1>3 DEF DayOf, HourOf

LEMMA InstantClock ==
  ASSUME NEW t \in Int
  PROVE  /\ DayOf(t) \in Int /\ HourOf(t) \in 0 .. 23
         /\ LocalOf(t) \in Int /\ LocalOf(t) = 24 * DayOf(t) + HourOf(t)
<1>1. LocalOf(t) \in Int
  BY CalendarAssumption DEF LocalOf, Offset
<1> QED
  BY <1>1, HoursOfADay DEF DayOf, HourOf

(* Two starts are in the order of the clock on the wall, and eight hours by    *)
(* that clock are seven to nine.                                              *)
LEMMA LocalOrder ==
  ASSUME NEW d \in Int, NEW h \in Begins, NEW e \in Int, NEW g \in Begins
  PROVE  /\ Local(d, h) <= Local(e, g) <=> 24 * d + h <= 24 * e + g
         /\ 24 * e + g = 24 * d + h + 8 => Local(e, g) - Local(d, h) \in 7 .. 9
<1>1. /\ Local(d, h) \in Int /\ Local(e, g) \in Int /\ LocalOf(Local(e, g)) = 24 * e + g
      /\ \A t \in Int : Local(d, h) <= t <=> 24 * d + h <= LocalOf(t)
  BY LocalClock
<1>2. Local(d, h) <= Local(e, g) <=> 24 * d + h <= 24 * e + g
  BY <1>1
<1>3. ASSUME 24 * e + g = 24 * d + h + 8
      PROVE  Local(e, g) - Local(d, h) \in 7 .. 9
  <2>1. Local(d, h) \in {24 * d + h - Winter - 1, 24 * d + h - Winter}
    BY LocalClock
  <2>2. Local(e, g) \in {24 * e + g - Winter - 1, 24 * e + g - Winter}
    BY LocalClock
  <2>3. Winter \in Int /\ h \in Int /\ g \in Int
    BY CalendarAssumption DEF Begins
  <2> QED
    BY <2>1, <2>2, <2>3, <1>1, <1>3
<1> QED
  BY <1>2, <1>3

-----------------------------------------------------------------------------
(* The shifts of a day, and the walk back through them.                      *)

Early(day) == Shift("early", Local(day, EARLY_SHIFT_START_HOUR), Local(day, LATE_SHIFT_START_HOUR))
Late(day) == Shift("late", Local(day, LATE_SHIFT_START_HOUR), Local(day, NIGHT_SHIFT_START_HOUR))
Night(day) == Shift("night", Local(day, NIGHT_SHIFT_START_HOUR), Local(day + 1, EARLY_SHIFT_START_HOUR))

LEMMA CurrentShiftIs ==
  ASSUME NEW moment \in Int
  PROVE  CurrentShift(moment) = IF HourOf(moment) < 6 THEN Night(DayOf(moment) - 1)
                             ELSE IF HourOf(moment) < 14 THEN Early(DayOf(moment))
                             ELSE IF HourOf(moment) < 22 THEN Late(DayOf(moment)) ELSE Night(DayOf(moment))
<1>1. HourOf(moment) \in 0 .. 23 /\ DayOf(moment) \in Int /\ (DayOf(moment) - 1) + 1 = DayOf(moment)
  BY InstantClock
<1> DEFINE shift == CurrentShift(moment)
<1>2. CASE HourOf(moment) < 6
  <2>1. CurrentShift(moment) = Shift("night", Local(DayOf(moment) - 1, 22), Local(DayOf(moment), 6))
    BY <1>1, <1>2 DEF CurrentShift, EARLY_SHIFT_START_HOUR, LATE_SHIFT_START_HOUR, NIGHT_SHIFT_START_HOUR
  <2> QED
    BY <2>1, <1>1, <1>2 DEF Night, EARLY_SHIFT_START_HOUR, NIGHT_SHIFT_START_HOUR
<1>3. CASE 6 <= HourOf(moment) /\ HourOf(moment) < 14
  BY <1>1, <1>3 DEF CurrentShift, Early, EARLY_SHIFT_START_HOUR, LATE_SHIFT_START_HOUR, NIGHT_SHIFT_START_HOUR
<1>4. CASE 14 <= HourOf(moment) /\ HourOf(moment) < 22
  BY <1>1, <1>4 DEF CurrentShift, Late, EARLY_SHIFT_START_HOUR, LATE_SHIFT_START_HOUR, NIGHT_SHIFT_START_HOUR
<1>5. CASE 22 <= HourOf(moment)
  BY <1>1, <1>5 DEF CurrentShift, Night, EARLY_SHIFT_START_HOUR, LATE_SHIFT_START_HOUR, NIGHT_SHIFT_START_HOUR
<1> QED
  BY <1>1, <1>2, <1>3, <1>4, <1>5

LEMMA ShiftsOneBack ==
  ASSUME NEW day \in Int
  PROVE  /\ PreviousShift(Early(day)) = Night(day - 1)
         /\ PreviousShift(Late(day)) = Early(day)
         /\ PreviousShift(Night(day)) = Late(day)
<1>1. /\ DayOf(Local(day, 6)) = day /\ DayOf(Local(day, 14)) = day /\ DayOf(Local(day, 22)) = day
      /\ (day - 1) + 1 = day
  BY LocalReads DEF Begins
<1>2. PreviousShift(Early(day)) = Shift("night", Local(day - 1, 22), Local(day, 6))
  BY <1>1 DEF PreviousShift, Early, Shift, EARLY_SHIFT_START_HOUR, NIGHT_SHIFT_START_HOUR
<1>3. PreviousShift(Early(day)) = Night(day - 1)
  BY <1>1, <1>2 DEF Night, EARLY_SHIFT_START_HOUR, NIGHT_SHIFT_START_HOUR
<1>4. PreviousShift(Late(day)) = Early(day)
  BY <1>1 DEF PreviousShift, Early, Late, Shift, EARLY_SHIFT_START_HOUR, LATE_SHIFT_START_HOUR
<1>5. PreviousShift(Night(day)) = Late(day)
  BY <1>1 DEF PreviousShift, Night, Late, Shift, LATE_SHIFT_START_HOUR, NIGHT_SHIFT_START_HOUR
<1> QED
  BY <1>3, <1>4, <1>5

(* The four shifts LastCompletedNight looks at, and the function of them its   *)
(* recursion defines.                                                         *)
ShiftsBack(moment) ==
  LET one == PreviousShift(CurrentShift(moment))
      two == PreviousShift(one)
  IN [n \in 0 .. 3 |-> IF n = 0 THEN CurrentShift(moment) ELSE IF n = 1 THEN one
                       ELSE IF n = 2 THEN two ELSE PreviousShift(two)]

LEMMA LastNightLooksBack ==
  ASSUME NEW moment, NEW m \in 0 .. 3,
         ShiftsBack(moment)[m].kind = "night" /\ ShiftsBack(moment)[m].to <= moment,
         \A n \in 0 .. m - 1 : ~(ShiftsBack(moment)[n].kind = "night" /\ ShiftsBack(moment)[n].to <= moment)
  PROVE  LastCompletedNight(moment) = ShiftsBack(moment)[m]
<1> DEFINE Walks(f) == f = [n \in 0 .. 3 |-> IF n = 0 THEN CurrentShift(moment) ELSE PreviousShift(f[n - 1])]
<1> DEFINE back == CHOOSE f : Walks(f)
<1> DEFINE done == {n \in 0 .. 3 : back[n].kind = "night" /\ back[n].to <= moment}
<1>1. Walks(ShiftsBack(moment))
  <2> DEFINE b == ShiftsBack(moment)
  <2>1. b[0] = CurrentShift(moment) /\ b[1] = PreviousShift(b[0]) /\ b[2] = PreviousShift(b[1])
        /\ b[3] = PreviousShift(b[2]) /\ DOMAIN b = 0 .. 3 /\ b = [n \in 0 .. 3 |-> b[n]]
    BY DEF ShiftsBack
  <2> HIDE DEF b
  <2>2. \A n \in 0 .. 3 : b[n] = IF n = 0 THEN CurrentShift(moment) ELSE PreviousShift(b[n - 1])
    <3>1. \A n \in 0 .. 3 : n = 0 \/ n = 1 \/ n = 2 \/ n = 3
      OBVIOUS
    <3>2. 1 - 1 = 0 /\ 2 - 1 = 1 /\ 3 - 1 = 2
      OBVIOUS
    <3> QED
      BY <3>1, <3>2, <2>1
  <2>3. Walks(b)
    BY <2>1, <2>2
  <2> QED
    BY <2>3 DEF b
<1>2. Walks(back)
  BY <1>1
<1>3. back[0] = ShiftsBack(moment)[0]
  BY <1>2 DEF ShiftsBack
<1>4. back[1] = ShiftsBack(moment)[1]
  BY <1>2, <1>3 DEF ShiftsBack
<1>5. back[2] = ShiftsBack(moment)[2]
  BY <1>2, <1>4 DEF ShiftsBack
<1>6. back[3] = ShiftsBack(moment)[3]
  BY <1>2, <1>5 DEF ShiftsBack
<1>7. LastCompletedNight(moment) = back[Min(done)]
  BY DEF LastCompletedNight
<1> HIDE DEF back
<1>8. \A n \in 0 .. 3 : back[n] = ShiftsBack(moment)[n]
  BY <1>3, <1>4, <1>5, <1>6
<1>9. Min(done) = m
  <2>1. m \in done /\ done \subseteq Int /\ \A n \in done : m <= n
    BY <1>8
  <2> HIDE DEF done
  <2>2. \A n \in done : (\A k \in done : n <= k) => n = m
    BY <2>1
  <2> QED
    BY <2>1, <2>2 DEF Min
<1> QED
  BY <1>7, <1>8, <1>9

LEMMA LastNightIs ==
  ASSUME NEW moment \in Int
  PROVE  LastCompletedNight(moment) = Night(IF HourOf(moment) < 6 THEN DayOf(moment) - 2 ELSE DayOf(moment) - 1)
<1> DEFINE d == DayOf(moment)
<1> DEFINE h == HourOf(moment)
<1> DEFINE b == ShiftsBack(moment)
<1>1. /\ d \in Int /\ h \in 0 .. 23 /\ LocalOf(moment) = 24 * d + h
      /\ d - 1 \in Int /\ d - 2 \in Int /\ (d - 1) - 1 = d - 2 /\ (d - 1) + 1 = d /\ (d - 2) + 1 = d - 1
  BY InstantClock
<1>2. b[0] = CurrentShift(moment) /\ b[1] = PreviousShift(b[0]) /\ b[2] = PreviousShift(b[1])
      /\ b[3] = PreviousShift(b[2])
  BY DEF ShiftsBack
<1>3. \A e : Early(e).kind = "early" /\ Late(e).kind = "late" /\ Night(e).kind = "night"
             /\ Night(e).to = Local(e + 1, 6)
  BY DEF Early, Late, Night, Shift, EARLY_SHIFT_START_HOUR
<1>4. \A e \in Int : Local(e, 6) <= moment <=> 24 * e + 6 <= 24 * d + h
  BY <1>1, LocalClock DEF Begins
<1>c. b[0] = IF h < 6 THEN Night(d - 1) ELSE IF h < 14 THEN Early(d)
             ELSE IF h < 22 THEN Late(d) ELSE Night(d)
  BY <1>2, CurrentShiftIs
<1> HIDE DEF d, h, b
<1>5. ASSUME NEW m \in 0 .. 3, b[m].kind = "night" /\ b[m].to <= moment,
             \A n \in 0 .. m - 1 : ~(b[n].kind = "night" /\ b[n].to <= moment)
      PROVE  LastCompletedNight(moment) = b[m]
  BY <1>5, LastNightLooksBack DEF b
<1>e. \A e \in Int : PreviousShift(Early(e)) = Night(e - 1) /\ PreviousShift(Late(e)) = Early(e)
                      /\ PreviousShift(Night(e)) = Late(e)
  BY ShiftsOneBack
<1>6. CASE h < 6
  <2>1. b[0] = Night(d - 1) /\ b[1] = Late(d - 1) /\ b[2] = Early(d - 1) /\ b[3] = Night(d - 2)
    BY <1>1, <1>2, <1>c, <1>e, <1>6
  <2>2. ~(b[0].to <= moment) /\ b[3].to <= moment
    BY <2>1, <1>1, <1>3, <1>4, <1>6
  <2>3. LastCompletedNight(moment) = b[3]
    BY <2>1, <2>2, <1>3, <1>5
  <2> QED
    BY <2>1, <2>3, <1>6 DEF d, h
<1>7. CASE 6 <= h /\ h < 14
  <2>1. b[0] = Early(d) /\ b[1] = Night(d - 1)
    BY <1>1, <1>2, <1>c, <1>e, <1>7
  <2>2. b[1].to <= moment
    BY <2>1, <1>1, <1>3, <1>4, <1>7
  <2>3. LastCompletedNight(moment) = b[1]
    BY <2>1, <2>2, <1>3, <1>5
  <2> QED
    BY <2>1, <2>3, <1>1, <1>7 DEF d, h
<1>8. CASE 14 <= h /\ h < 22
  <2>1. b[0] = Late(d) /\ b[1] = Early(d) /\ b[2] = Night(d - 1)
    BY <1>1, <1>2, <1>c, <1>e, <1>8
  <2>2. b[2].to <= moment
    BY <2>1, <1>1, <1>3, <1>4, <1>8
  <2>3. LastCompletedNight(moment) = b[2]
    BY <2>1, <2>2, <1>3, <1>5
  <2> QED
    BY <2>1, <2>3, <1>1, <1>8 DEF d, h
<1>9. CASE 22 <= h
  <2>1. b[0] = Night(d) /\ b[1] = Late(d) /\ b[2] = Early(d) /\ b[3] = Night(d - 1)
    BY <1>1, <1>2, <1>c, <1>e, <1>9
  <2>2. ~(b[0].to <= moment) /\ b[3].to <= moment
    BY <2>1, <1>1, <1>3, <1>4, <1>9
  <2>3. LastCompletedNight(moment) = b[3]
    BY <2>1, <2>2, <1>3, <1>5
  <2> QED
    BY <2>1, <2>3, <1>1, <1>9 DEF d, h
<1> QED
  BY <1>1, <1>6, <1>7, <1>8, <1>9

-----------------------------------------------------------------------------
(* What the phrases mean.                                                    *)

ShiftHours == {<<6, 14>>, <<14, 22>>, <<22, 6>>}
Hours(x) == <<HourOf(x.from), HourOf(x.to)>>

LEMMA ShiftsAreShifts ==
  ASSUME NEW day \in Int, NEW s \in {Early(day), Late(day), Night(day)}
  PROVE  Hours(Of(s)) \in ShiftHours /\ Of(s).to - Of(s).from \in 7 .. 9
<1>1. /\ HourOf(Local(day, 6)) = 6 /\ HourOf(Local(day, 14)) = 14 /\ HourOf(Local(day, 22)) = 22
      /\ HourOf(Local(day + 1, 6)) = 6
  BY LocalReads DEF Begins
<1>2. /\ Local(day, 14) - Local(day, 6) \in 7 .. 9
      /\ Local(day, 22) - Local(day, 14) \in 7 .. 9
      /\ Local(day + 1, 6) - Local(day, 22) \in 7 .. 9
  <2>1. day + 1 \in Int /\ 24 * day + 14 = 24 * day + 6 + 8 /\ 24 * day + 22 = 24 * day + 14 + 8
        /\ 24 * (day + 1) + 6 = 24 * day + 22 + 8
    OBVIOUS
  <2> QED
    BY <2>1, LocalOrder DEF Begins
<1>3. \A kind, from, to : Of(Shift(kind, from, to)).from = from /\ Of(Shift(kind, from, to)).to = to
  BY DEF Of, Shift, Window
<1>4. CASE s = Early(day)
  <2>1. Of(s).from = Local(day, 6) /\ Of(s).to = Local(day, 14)
    BY <1>3, <1>4 DEF Early, EARLY_SHIFT_START_HOUR, LATE_SHIFT_START_HOUR
  <2> QED
    BY <1>1, <1>2, <2>1 DEF Hours, ShiftHours
<1>5. CASE s = Late(day)
  <2>1. Of(s).from = Local(day, 14) /\ Of(s).to = Local(day, 22)
    BY <1>3, <1>5 DEF Late, LATE_SHIFT_START_HOUR, NIGHT_SHIFT_START_HOUR
  <2> QED
    BY <1>1, <1>2, <2>1 DEF Hours, ShiftHours
<1>6. CASE s = Night(day)
  <2>1. Of(s).from = Local(day, 22) /\ Of(s).to = Local(day + 1, 6)
    BY <1>3, <1>6 DEF Night, EARLY_SHIFT_START_HOUR, NIGHT_SHIFT_START_HOUR
  <2> QED
    BY <1>1, <1>2, <2>1 DEF Hours, ShiftHours
<1> QED
  BY <1>4, <1>5, <1>6

(* This shift holds the moment and the last one ends where it begins.          *)
LEMMA ThisShift ==
  ASSUME NEW moment \in Int
  PROVE  LET this == Of(CurrentShift(moment))
             last == Of(PreviousShift(CurrentShift(moment)))
         IN /\ InWindow(this, moment) /\ last.to = this.from
            /\ Hours(this) \in ShiftHours /\ this.to - this.from \in 7 .. 9
            /\ Hours(last) \in ShiftHours /\ last.to - last.from \in 7 .. 9
<1> DEFINE d == DayOf(moment)
<1> DEFINE h == HourOf(moment)
<1>1. /\ d \in Int /\ h \in 0 .. 23 /\ LocalOf(moment) = 24 * d + h /\ d - 1 \in Int /\ (d - 1) + 1 = d
  BY InstantClock
<1>2. \A e \in Int, g \in Begins : Local(e, g) <= moment <=> 24 * e + g <= 24 * d + h
  BY <1>1, LocalClock
<1>w. \A e \in Int, g \in Begins : Local(e, g) \in Int
  BY LocalClock
<1>3. \A kind, from, to : Of(Shift(kind, from, to)).from = from /\ Of(Shift(kind, from, to)).to = to
  BY DEF Of, Shift, Window
<1>c. CurrentShift(moment) = IF h < 6 THEN Night(d - 1) ELSE IF h < 14 THEN Early(d)
             ELSE IF h < 22 THEN Late(d) ELSE Night(d)
  BY CurrentShiftIs
<1>e. \A e \in Int : PreviousShift(Early(e)) = Night(e - 1) /\ PreviousShift(Late(e)) = Early(e)
                      /\ PreviousShift(Night(e)) = Late(e)
  BY ShiftsOneBack
<1>s. ASSUME NEW e \in Int, NEW s \in {Early(e), Late(e), Night(e)}
      PROVE  Hours(Of(s)) \in ShiftHours /\ Of(s).to - Of(s).from \in 7 .. 9
  BY ShiftsAreShifts
<1>f. \A e \in Int : /\ Of(Early(e)).from = Local(e, 6) /\ Of(Early(e)).to = Local(e, 14)
                     /\ Of(Late(e)).from = Local(e, 14) /\ Of(Late(e)).to = Local(e, 22)
                     /\ Of(Night(e)).from = Local(e, 22) /\ Of(Night(e)).to = Local(e + 1, 6)
  BY <1>3 DEF Early, Late, Night, EARLY_SHIFT_START_HOUR, LATE_SHIFT_START_HOUR, NIGHT_SHIFT_START_HOUR
<1> HIDE DEF d, h
<1>i. ASSUME NEW w, w.from <= moment, ~(w.to <= moment), w.to \in Int
      PROVE  InWindow(w, moment)
  BY <1>i DEF InWindow
<1>g. 6 \in Begins /\ 14 \in Begins /\ 22 \in Begins
  BY DEF Begins
<1>6. CASE h < 6
  <2>1. CurrentShift(moment) = Night(d - 1) /\ PreviousShift(CurrentShift(moment)) = Late(d - 1)
    BY <1>1, <1>c, <1>e, <1>6
  <2>2. Local(d - 1, 22) <= moment /\ ~(Local(d, 6) <= moment) /\ Local(d, 6) \in Int
    BY <1>1, <1>2, <1>6, <1>w, <1>g
  <2>3. InWindow(Of(Night(d - 1)), moment)
    BY <2>2, <1>i, <1>f, <1>1
  <2> QED
    BY <2>1, <2>3, <1>f, <1>s, <1>1
<1>7. CASE 6 <= h /\ h < 14
  <2>1. CurrentShift(moment) = Early(d) /\ PreviousShift(CurrentShift(moment)) = Night(d - 1)
    BY <1>1, <1>c, <1>e, <1>7
  <2>2. Local(d, 6) <= moment /\ ~(Local(d, 14) <= moment) /\ Local(d, 14) \in Int
    BY <1>1, <1>2, <1>7, <1>w, <1>g
  <2>3. InWindow(Of(Early(d)), moment)
    BY <2>2, <1>i, <1>f, <1>1
  <2> QED
    BY <2>1, <2>3, <1>f, <1>s, <1>1
<1>8. CASE 14 <= h /\ h < 22
  <2>1. CurrentShift(moment) = Late(d) /\ PreviousShift(CurrentShift(moment)) = Early(d)
    BY <1>1, <1>c, <1>e, <1>8
  <2>2. Local(d, 14) <= moment /\ ~(Local(d, 22) <= moment) /\ Local(d, 22) \in Int
    BY <1>1, <1>2, <1>8, <1>w, <1>g
  <2>3. InWindow(Of(Late(d)), moment)
    BY <2>2, <1>i, <1>f, <1>1
  <2> QED
    BY <2>1, <2>3, <1>f, <1>s, <1>1
<1>9. CASE 22 <= h
  <2>1. CurrentShift(moment) = Night(d) /\ PreviousShift(CurrentShift(moment)) = Late(d)
    BY <1>1, <1>c, <1>e, <1>9
  <2>2. Local(d, 22) <= moment /\ ~(Local(d + 1, 6) <= moment) /\ Local(d + 1, 6) \in Int
    BY <1>1, <1>2, <1>9, <1>w, <1>g
  <2>3. InWindow(Of(Night(d)), moment)
    BY <2>2, <1>i, <1>f, <1>1
  <2> QED
    BY <2>1, <2>3, <1>f, <1>s, <1>1
<1> QED
  BY <1>1, <1>6, <1>7, <1>8, <1>9

(* Last night is a night that is over, and the last one: from its end on it    *)
(* has not been six again.                                                    *)
LEMMA LastNightIsOver ==
  ASSUME NEW moment \in Int
  PROVE  LET night == Of(LastCompletedNight(moment))
         IN /\ night.to <= moment /\ Hours(night) = <<22, 6>> /\ night.to - night.from \in 7 .. 9
            /\ \A t \in (night.to + 1) .. moment : HourOf(t) # 6
<1> DEFINE d == DayOf(moment)
<1> DEFINE h == HourOf(moment)
<1> DEFINE e == IF h < 6 THEN d - 2 ELSE d - 1
<1> DEFINE six == Local(e + 1, 6)
<1>1. /\ d \in Int /\ h \in 0 .. 23 /\ LocalOf(moment) = 24 * d + h /\ e \in Int
  BY InstantClock
<1>2. LastCompletedNight(moment) = Night(e)
  BY LastNightIs
<1>3. Of(Night(e)).from = Local(e, 22) /\ Of(Night(e)).to = six
  BY DEF Of, Night, Shift, Window, EARLY_SHIFT_START_HOUR, NIGHT_SHIFT_START_HOUR
<1>4. Of(Night(e)).to - Of(Night(e)).from \in 7 .. 9
  BY <1>1, ShiftsAreShifts
<1>5. Hours(Of(Night(e))) = <<22, 6>>
  <2>1. HourOf(Local(e, 22)) = 22 /\ HourOf(Local(e + 1, 6)) = 6
    BY <1>1, LocalReads DEF Begins
  <2> QED
    BY <2>1, <1>3 DEF Hours
<1>g. \A g \in Int : /\ Local(g, 6) \in Int /\ LocalOf(Local(g, 6)) = 24 * g + 6
                     /\ \A t \in Int : Local(g, 6) <= t <=> 24 * g + 6 <= LocalOf(t)
  BY LocalClock DEF Begins
<1>i. e + 1 \in Int /\ e + 2 \in Int
  BY <1>1
<1>6. /\ six \in Int /\ LocalOf(six) = 24 * (e + 1) + 6
      /\ \A t \in Int : six <= t <=> 24 * (e + 1) + 6 <= LocalOf(t)
  BY <1>g, <1>i
<1>7. \A t \in Int : Local(e + 2, 6) <= t <=> 24 * (e + 2) + 6 <= LocalOf(t)
  BY <1>g, <1>i
<1>8. Local(e + 2, 6) \in Int
  BY <1>g, <1>i
<1>9. 24 * (e + 1) + 6 <= LocalOf(moment) /\ LocalOf(moment) < 24 * (e + 2) + 6
  BY <1>1
<1>10. six <= moment /\ moment < Local(e + 2, 6)
  BY <1>6, <1>7, <1>8, <1>9, <1>1
<1>11. ASSUME NEW t \in (six + 1) .. moment
       PROVE  HourOf(t) # 6
  <2>1. t \in Int /\ six < t /\ t < Local(e + 2, 6)
    BY <1>6, <1>8, <1>10
  <2>2. LocalOf(t) \in Int /\ LocalOf(t) = 24 * DayOf(t) + HourOf(t) /\ DayOf(t) \in Int
    BY <2>1, InstantClock
  <2>3. 24 * (e + 1) + 6 <= LocalOf(t) /\ LocalOf(t) < 24 * (e + 2) + 6
    BY <2>1, <2>2, <1>6, <1>7, <1>8, <1>1
  <2>4. SUFFICES ASSUME HourOf(t) = 6
                 PROVE  FALSE
    OBVIOUS
  <2>5. LocalOf(t) = LocalOf(six)
    BY <2>2, <2>3, <2>4, <1>1, <1>6
  <2>6. t = Autumn /\ LocalOf(t) = Autumn + Winter
    BY <2>1, <2>5, <1>6, CalendarAssumption DEF LocalOf, Offset
  <2>7. (Autumn + Winter) % 24 = 6
    BY <2>4, <2>6 DEF HourOf
  <2> QED
    BY <2>7, ChangesAssumption
<1> HIDE DEF d, h, e, six
<1> QED
  BY <1>2, <1>3, <1>4, <1>5, <1>10, <1>11

(* Days and weeks meet, and the present is in them.                            *)
LEMMA DaysMeet ==
  ASSUME NEW moment \in Int
  PROVE  LET d == DayOf(moment)  k == WeekStart(moment) IN
         /\ InWindow(Days(d, 1), moment) /\ Days(d - 1, 1).to = Days(d, 1).from
         /\ InWindow(Days(k, 7), Days(d, 1).from) /\ Days(k - 7, 7).to = Days(k, 7).from
<1> DEFINE d == DayOf(moment)
<1> DEFINE k == WeekStart(moment)
<1>1. /\ d \in Int /\ HourOf(moment) \in 0 .. 23 /\ LocalOf(moment) = 24 * d + HourOf(moment)
      /\ (d - 1) + 1 = d
  BY InstantClock
<1>2. k \in Int /\ k <= d /\ d < k + 7 /\ (k - 7) + 7 = k
  <2>1. d % 7 \in 0 .. 6
    BY <1>1
  <2>2. k = d - (d % 7)
    BY DEF WeekStart
  <2> HIDE DEF d, k
  <2> QED
    BY <1>1, <2>1, <2>2
<1>3. \A e \in Int : /\ Local(e, 0) \in Int
                     /\ \A t \in Int : Local(e, 0) <= t <=> 24 * e <= LocalOf(t)
  BY LocalClock DEF Begins
<1>4. \A e \in Int : \A g \in Int : Local(e, 0) <= Local(g, 0) <=> e <= g
  BY LocalOrder DEF Begins
<1>5. \A e, n : Days(e, n).from = Local(e, 0) /\ Days(e, n).to = Local(e + n, 0)
  BY DEF Days, Window
<1>6. d + 1 \in Int /\ k + 7 \in Int
  BY <1>1, <1>2
<1> HIDE DEF d, k
<1>7. Local(d, 0) <= moment /\ ~(Local(d + 1, 0) <= moment) /\ Local(d + 1, 0) \in Int
  <2>1. Local(d, 0) <= moment <=> 24 * d <= LocalOf(moment)
    BY <1>1, <1>3
  <2>2. Local(d + 1, 0) \in Int /\ (Local(d + 1, 0) <= moment <=> 24 * (d + 1) <= LocalOf(moment))
    BY <1>3, <1>6
  <2> QED
    BY <1>1, <2>1, <2>2
<1>8. Local(k, 0) <= Local(d, 0) /\ ~(Local(k + 7, 0) <= Local(d, 0)) /\ Local(k + 7, 0) \in Int
      /\ Local(d, 0) \in Int
  BY <1>1, <1>2, <1>3, <1>4, <1>6
<1>9. InWindow(Days(d, 1), moment)
  BY <1>5, <1>7 DEF InWindow
<1>10. InWindow(Days(k, 7), Days(d, 1).from)
  BY <1>5, <1>8 DEF InWindow
<1>11. Days(d - 1, 1).to = Days(d, 1).from /\ Days(k - 7, 7).to = Days(k, 7).from
  BY <1>1, <1>2, <1>5
<1> QED
  BY <1>9, <1>10, <1>11 DEF d, k

-----------------------------------------------------------------------------
(* The rows of a view and the parts of a scope.                              *)

(* What a view holds of a part is part of what there will be.                 *)
LEMMA ViewRows ==
  ASSUME NEW db, NEW absent
  PROVE  /\ DOMAIN View(db, absent).parts \subseteq DOMAIN db.parts
         /\ \A p \in DOMAIN View(db, absent).parts :
              /\ View(db, absent).parts[p].inspected \subseteq db.parts[p].inspected
              /\ View(db, absent).parts[p].left \subseteq db.parts[p].left
  BY DEF View

LEMMA ViewCounts ==
  ASSUME NEW s \in Scenarios, NEW absent
  PROVE  Countable(View(s.db, absent))
<1> DEFINE v == View(s.db, absent)
<1>1. /\ IsFiniteSet(DOMAIN s.db.parts)
      /\ \A p \in DOMAIN s.db.parts : \A i, j \in s.db.parts[p].inspected : i.at \in Int /\ i = j
  BY ScenariosAssumption DEF Instants
<1>2. /\ DOMAIN v.parts \subseteq DOMAIN s.db.parts
      /\ \A p \in DOMAIN v.parts : v.parts[p].inspected \subseteq s.db.parts[p].inspected
  BY ViewRows
<1> HIDE DEF v
<1>3. IsFiniteSet(DOMAIN v.parts)
  BY <1>1, <1>2, FS_Subset
<1>4. ASSUME NEW p \in Inspected(v)
      PROVE  Verdict(v, p).at \in Int
  <2>1. p \in DOMAIN v.parts /\ v.parts[p].inspected # {}
    BY DEF Inspected
  <2>2. Verdict(v, p) \in v.parts[p].inspected
    BY <2>1 DEF Verdict
  <2> QED
    BY <2>1, <2>2, <1>1, <1>2
<1>5. Countable(v)
  BY <1>3, <1>4 DEF Countable
<1> QED
  BY <1>5 DEF v

ANCHORS == {"created", "inspected", "left"}

(* A part is at one instant of a kind or at none.                             *)
LEMMA OnePlace ==
  ASSUME NEW s \in Scenarios, NEW absent, NEW p \in DOMAIN View(s.db, absent).parts, NEW anchor \in ANCHORS
  PROVE  \A t, u \in AnchorsOf(View(s.db, absent).parts[p], anchor) : t = u
<1> DEFINE row == View(s.db, absent).parts[p]
<1>1. /\ \A i, j \in s.db.parts[p].inspected : i = j
      /\ \A l, m \in s.db.parts[p].left : l = m
  BY ViewRows, ScenariosAssumption
<1>2. row.inspected \subseteq s.db.parts[p].inspected /\ row.left \subseteq s.db.parts[p].left
  BY ViewRows
<1> HIDE DEF row
<1>3. CASE anchor = "created"
  <2>1. AnchorsOf(row, anchor) = {row.created} \ {Unknown}
    BY <1>3 DEF AnchorsOf
  <2> QED
    BY <2>1 DEF row
<1>4. CASE anchor = "inspected"
  <2>1. AnchorsOf(row, anchor) = {i.at : i \in row.inspected}
    BY <1>4 DEF AnchorsOf
  <2> QED
    BY <2>1, <1>1, <1>2 DEF row
<1>5. CASE anchor = "left"
  <2>1. AnchorsOf(row, anchor) = {l.at : l \in row.left}
    BY <1>5 DEF AnchorsOf
  <2> QED
    BY <2>1, <1>1, <1>2 DEF row
<1> QED
  BY <1>3, <1>4, <1>5 DEF ANCHORS

Selection(w, anchor, c) ==
  [window |-> {w}, anchor |-> anchor, carrier |-> c.carrier, lot |-> c.lot, class |-> c.class, force |-> c.force]

(* A selection without its window has the same criteria.                      *)
LEMMA WithoutWindow ==
  ASSUME NEW w, NEW anchor, NEW c, NEW db, NEW row
  PROVE  Meets(db, row, [Selection(w, anchor, c) EXCEPT !.window = {}]) <=> Meets(db, row, Selection(w, anchor, c))
<1> DEFINE sel == Selection(w, anchor, c)
<1> DEFINE open == [sel EXCEPT !.window = {}]
<1>1. open.carrier = sel.carrier /\ open.lot = sel.lot /\ open.class = sel.class /\ open.force = sel.force
  BY DEF Selection
<1> HIDE DEF sel, open
<1>2. Meets(db, row, open) <=> Meets(db, row, sel)
  BY <1>1 DEF Meets
<1> QED
  BY <1>2 DEF sel, open

(* The three groups share nothing and have every part: their counts add up.   *)
LEMMA ContainAddsUp ==
  ASSUME NEW db, NEW parts, IsFiniteSet(parts)
  PROVE  CountTotal(Contain(db, parts), DOMAIN Contain(db, parts)) = Cardinality(parts)
<1> DEFINE S == {"rejected", "shipped", "on_the_line"}
<1> DEFINE own == [o \in S |-> {p \in parts : OutcomeOf(db.parts[p]) = o}]
<1> DEFINE t == Contain(db, parts)
<1> DEFINE f == [s \in SUBSET S |-> Cardinality(Together(own, s))]
<1> DEFINE n == [o \in S |-> Cardinality(own[o])]
<1>1. DOMAIN t = S /\ \A o \in S : t[o].count = n[o]
  BY DEF Contain
<1>2. IsFiniteSet(S)
  <2>1. S = {"rejected"} \cup ({"shipped"} \cup {"on_the_line"})
    OBVIOUS
  <2> HIDE DEF S
  <2> QED
    BY <2>1, FS_Singleton, FS_Union
<1>3. \A o \in S : own[o] \subseteq parts
  OBVIOUS
<1>4. Apart(own, S)
  BY DEF Apart
<1>5. Together(own, S) = parts
  <2>1. \A p \in parts : OutcomeOf(db.parts[p]) \in S
    BY DEF OutcomeOf
  <2>2. \A p \in parts : \E o \in S : p \in own[o]
    BY <2>1
  <2> HIDE DEF own, S
  <2> QED
    BY <2>2, <1>3 DEF Together
<1>6. f[S] = Cardinality(Together(own, S))
  OBVIOUS
<1> HIDE DEF S, own
<1>7. Sums(f, S, n)
  BY <1>3, <1>4, TogetherSums
<1> HIDE DEF f, n, t
<1>8. CountTotal(t, S) = f[S]
  BY <1>1, <1>2, <1>7, CountsSum
<1>9. CountTotal(t, DOMAIN t) = Cardinality(parts)
  BY <1>1, <1>5, <1>6, <1>8
<1> QED
  BY <1>9 DEF t

-----------------------------------------------------------------------------
(* The walk of a chain.                                                      *)

Walks(w, last, start, T, samples, P, L) ==
  w = [n \in 0 .. last |-> IF n = 0 THEN start ELSE Step(w[n - 1], T, samples, P, L)]

(* A walk of any length exists: a shortest one that does not would lack its    *)
(* last step only.                                                            *)
(* The recursion the walk is defined by has a solution.                       *)
LEMMA WalkExists ==
  ASSUME NEW last \in Nat, NEW start, NEW T, NEW samples, NEW P, NEW L
  PROVE  \E w : Walks(w, last, start, T, samples, P, L)
<1> DEFINE Missing == {n \in Nat : ~\E w : Walks(w, n, start, T, samples, P, L)}
<1>1. SUFFICES ASSUME Missing # {}
               PROVE  FALSE
  OBVIOUS
<1>2. PICK n \in Missing : \A m \in Missing : ~(<<m, n>> \in OpToRel(<, Nat))
  <2>1. Missing \subseteq Nat
    OBVIOUS
  <2> HIDE DEF Missing
  <2> QED
    BY <1>1, <2>1, NatLessThanWellFounded, WFMin
<1>3. n \in Nat /\ ~\E w : Walks(w, n, start, T, samples, P, L)
  OBVIOUS
<1>4. CASE n = 0
  <2>1. Walks([k \in 0 .. 0 |-> start], 0, start, T, samples, P, L)
    BY DEF Walks
  <2> QED
    BY <1>3, <1>4, <2>1
<1>5. CASE n # 0
  <2>1. n - 1 \in Nat /\ <<n - 1, n>> \in OpToRel(<, Nat)
    BY <1>3, <1>5 DEF OpToRel
  <2>2. PICK w : Walks(w, n - 1, start, T, samples, P, L)
    BY <1>2, <2>1
  <2> DEFINE longer == [k \in 0 .. n |-> IF k = n THEN Step(w[n - 1], T, samples, P, L) ELSE w[k]]
  <2>3. /\ \A k \in 0 .. n - 1 : longer[k] = w[k]
        /\ longer[n] = Step(w[n - 1], T, samples, P, L)
    BY <1>3
  <2>4. ASSUME NEW k \in 0 .. n
        PROVE  longer[k] = IF k = 0 THEN start ELSE Step(longer[k - 1], T, samples, P, L)
    <3>1. CASE k = n
      <4>1. longer[n - 1] = w[n - 1]
        BY <1>3, <1>5, <2>3
      <4> HIDE DEF longer
      <4> QED
        BY <1>5, <2>3, <3>1, <4>1
    <3>2. CASE k # n
      <4>1. k \in 0 .. n - 1 /\ (k # 0 => k - 1 \in 0 .. n - 1)
        BY <1>3, <3>2
      <4>2. w[k] = IF k = 0 THEN start ELSE Step(w[k - 1], T, samples, P, L)
        BY <2>2, <4>1 DEF Walks
      <4>3. longer[k] = w[k] /\ (k # 0 => longer[k - 1] = w[k - 1])
        BY <2>3, <4>1
      <4> HIDE DEF longer
      <4> QED
        BY <4>2, <4>3
    <3> QED
      BY <3>1, <3>2
  <2>5. longer = [k \in 0 .. n |-> longer[k]]
    OBVIOUS
  <2> HIDE DEF longer
  <2>6. longer = [k \in 0 .. n |-> IF k = 0 THEN start ELSE Step(longer[k - 1], T, samples, P, L)]
    BY <2>4, <2>5
  <2>7. Walks(longer, n, start, T, samples, P, L)
    BY <2>6 DEF Walks
  <2> QED
    BY <1>3, <2>7
<1> QED
  BY <1>4, <1>5

StartOf(seed) == [links |-> <<>>, candidates |-> <<>>, seen |-> {}, termination |-> "walking",
                  current |-> CHOOSE e \in seed : TRUE]

(* So the chain is what the walk has come to after its last step.             *)
LEMMA DeriveChainWalks ==
  ASSUME NEW s, NEW moment, NEW T, NEW samples, NEW P, NEW L, Cardinality(T) \in Nat,
         EpisodeCovering(T, s, moment) # {}
  PROVE  \E w : /\ Walks(w, Cardinality(T) + 1, StartOf(EpisodeCovering(T, s, moment)), T, samples, P, L)
                /\ LET done == w[Cardinality(T) + 1] IN
                   DeriveChain(s, moment, T, samples, P, L)
                     = [links |-> done.links, candidates |-> done.candidates, termination |-> done.termination]
<1> DEFINE start == StartOf(EpisodeCovering(T, s, moment))
<1> DEFINE last == Cardinality(T) + 1
<1> DEFINE walk == CHOOSE w : w = [n \in 0 .. last |-> IF n = 0 THEN start ELSE Step(w[n - 1], T, samples, P, L)]
<1>1. \E w : w = [n \in 0 .. last |-> IF n = 0 THEN start ELSE Step(w[n - 1], T, samples, P, L)]
  <2>1. last \in Nat
    OBVIOUS
  <2>2. \E w : Walks(w, last, start, T, samples, P, L)
    BY <2>1, WalkExists
  <2> HIDE DEF start, last
  <2> QED
    BY <2>2 DEF Walks
<1>2. walk = [n \in 0 .. last |-> IF n = 0 THEN start ELSE Step(walk[n - 1], T, samples, P, L)]
  BY <1>1
<1>3. DeriveChain(s, moment, T, samples, P, L)
        = [links |-> walk[last].links, candidates |-> walk[last].candidates, termination |-> walk[last].termination]
  BY DEF DeriveChain, StartOf
<1> HIDE DEF walk, start, last
<1>4. Walks(walk, last, start, T, samples, P, L)
  BY <1>2 DEF Walks
<1>5. /\ Walks(walk, Cardinality(T) + 1, StartOf(EpisodeCovering(T, s, moment)), T, samples, P, L)
      /\ DeriveChain(s, moment, T, samples, P, L)
        = [links |-> walk[Cardinality(T) + 1].links, candidates |-> walk[Cardinality(T) + 1].candidates,
           termination |-> walk[Cardinality(T) + 1].termination]
  BY <1>3, <1>4 DEF start, last
<1> QED
  BY <1>5

(* An episode is told by its station and its beginning.                       *)
Key(e) == <<e.station, e.from>>
Keys(T) == {Key(e) : e \in T}

(* The station on the side a link's reason names.                             *)
Neighbour(P, link) ==
  IF link.buffer = CARRIER_RETURN THEN TailOf(P)
  ELSE LET l == CHOOSE l \in P : l.buffer = link.buffer IN
       IF link.episode.reason.direction = "starved" THEN l.up ELSE l.down

(* What one link of a chain says of the episode of the next.                   *)
Leads(P, L, link, e) ==
  /\ link.episode.state = CONSEQUENCE_STATE
  /\ e.station = Neighbour(P, link)
  /\ e.from <= link.since /\ link.since <= link.episode.from
  /\ link.episode.from - L <= link.since

LinkSet(T, P) == [episode : T, buffer : {None, CARRIER_RETURN} \cup {l.buffer : l \in P}, since : Int]

(* A chain whose links lead to one another and which uses no episode twice.   *)
ChainGood(c, T, P, L) ==
  /\ c \in Seq(LinkSet(T, P))
  /\ \A i \in 1 .. Len(c) - 1 : Leads(P, L, c[i], c[i + 1].episode)
  /\ \A i, j \in 1 .. Len(c) : i # j => Key(c[i].episode) # Key(c[j].episode)

(* Nothing is upstream of a starved episode's station, or downstream of a     *)
(* blocked one's.                                                             *)
AtTheEdge(P, e) ==
  /\ e.station \in Stations(P)
  /\ \/ e.reason.direction = "starved" /\ UpstreamBuffersOf(P, e.station) = {}
     \/ e.reason.direction = "blocked" /\ DownstreamBuffersOf(P, e.station) = {}

(* How a walk has ended, if it has.                                            *)
EndGood(c, termination, P) ==
  /\ termination \in {"walking", "unexplained", "cause_candidate", "line_edge"}
  /\ termination = "cause_candidate" => /\ Len(c) > 0
                                        /\ c[Len(c)].episode.state \in CAUSE_CANDIDATE_STATES
  /\ termination = "line_edge" => Len(c) > 0 /\ AtTheEdge(P, c[Len(c)].episode)

WalkFields == {"links", "candidates", "seen", "termination", "current"}
IsWalk(W) == W = [f \in WalkFields |-> W[f]]

(* While it walks it has used one episode at each of its steps.                *)
Underway(W, n, T, P, L) ==
  /\ W.seen \subseteq Keys(T) /\ IsFiniteSet(W.seen) /\ Cardinality(W.seen) = n
  /\ \A i \in 1 .. Len(W.links) : Key(W.links[i].episode) \in W.seen
  /\ Len(W.links) > 0 => Leads(P, L, W.links[Len(W.links)], W.current)
  /\ W.current \in T /\ W.current.station \in Stations(P)

(* The invariant of the walk after n steps.                                   *)
WalkInv(W, n, T, P, L) ==
  /\ IsWalk(W)
  /\ ChainGood(W.links, T, P, L)
  /\ EndGood(W.links, W.termination, P)
  /\ W.termination = "walking" => Underway(W, n, T, P, L)

(* What the walk needs of the data: instants are whole hours, and the line is  *)
(* one line.                                                                  *)
LineData(T, samples, P) ==
  /\ IsFiniteSet(T) /\ \A e \in T : e.from \in Int
  /\ \A s \in samples : s.at \in Int
  /\ IsFiniteSet(P)
  /\ \A l \in P : l.buffer # CARRIER_RETURN
  /\ \A l, m \in P : l.buffer = m.buffer => l = m

(* A chain of one link, and a chain with another behind it.                   *)
OneLink(e, buffer, since) == <<ChainLink(e, buffer, since)>>
Grown(c, link) == c \o link

(* The fields of a walk that has come to an end.                              *)
LEMMA EndsIs ==
  ASSUME NEW W, IsWalk(W), NEW link, NEW termination, NEW found
  PROVE  LET V == Ends(W, link, termination, found) IN
         /\ IsWalk(V) /\ V.links = Grown(W.links, link) /\ V.termination = termination
         /\ V.seen = W.seen /\ V.current = W.current
  BY DEF IsWalk, WalkFields, Ends, Grown

(* A chain that ends in an episode that leads to this one goes on with it.     *)
LEMMA ChainGrows ==
  ASSUME NEW T, NEW P, NEW L, NEW c, ChainGood(c, T, P, L),
         NEW x \in LinkSet(T, P),
         Len(c) > 0 => Leads(P, L, c[Len(c)], x.episode),
         \A i \in 1 .. Len(c) : Key(c[i].episode) # Key(x.episode)
  PROVE  /\ ChainGood(c \o <<x>>, T, P, L)
         /\ Len(c \o <<x>>) = Len(c) + 1 /\ (c \o <<x>>)[Len(c) + 1] = x
         /\ \A i \in 1 .. Len(c) : (c \o <<x>>)[i] = c[i]
<1> DEFINE d == c \o <<x>>
<1>1. c \in Seq(LinkSet(T, P)) /\ Len(c) \in Nat
  BY DEF ChainGood
<1>2. d \in Seq(LinkSet(T, P)) /\ Len(d) = Len(c) + 1
  BY <1>1
<1>3. d[Len(c) + 1] = x /\ \A i \in 1 .. Len(c) : d[i] = c[i]
  BY <1>1
<1> HIDE DEF d
<1>4. ASSUME NEW i \in 1 .. Len(d) - 1
      PROVE  Leads(P, L, d[i], d[i + 1].episode)
  <2>1. CASE i = Len(c)
    BY <1>1, <1>2, <1>3, <2>1
  <2>2. CASE i # Len(c)
    <3>1. i \in 1 .. Len(c) - 1 /\ i \in 1 .. Len(c) /\ i + 1 \in 1 .. Len(c)
      BY <1>1, <1>2, <2>2
    <3>2. d[i] = c[i] /\ d[i + 1] = c[i + 1]
      BY <1>3, <3>1
    <3> QED
      BY <3>1, <3>2 DEF ChainGood
  <2> QED
    BY <2>1, <2>2
<1>5. ASSUME NEW i \in 1 .. Len(d), NEW j \in 1 .. Len(d), i # j
      PROVE  Key(d[i].episode) # Key(d[j].episode)
  <2>1. (i \in 1 .. Len(c) \/ i = Len(c) + 1) /\ (j \in 1 .. Len(c) \/ j = Len(c) + 1)
    BY <1>1, <1>2
  <2>2. CASE i \in 1 .. Len(c) /\ j \in 1 .. Len(c)
    <3>1. d[i] = c[i] /\ d[j] = c[j]
      BY <1>3, <2>2
    <3> QED
      BY <3>1, <2>2, <1>5 DEF ChainGood
  <2>3. CASE i \in 1 .. Len(c) /\ j = Len(c) + 1
    BY <1>3, <2>3
  <2>4. CASE j \in 1 .. Len(c) /\ i = Len(c) + 1
    BY <1>3, <2>4
  <2> QED
    BY <2>1, <2>2, <2>3, <2>4, <1>5
<1>6. ChainGood(d, T, P, L)
  BY <1>2, <1>4, <1>5 DEF ChainGood
<1> QED
  BY <1>2, <1>3, <1>6 DEF d

(* The buffer was at its condition by then, and not longer ago than the lead-in.*)
LEMMA SinceIsNear ==
  ASSUME NEW samples, NEW link, NEW direction, NEW before \in Int, NEW L \in Nat,
         \A s \in samples : s.at \in Int,
         NEW at \in ConditionSince(samples, link, direction, before, L)
  PROVE  at \in Int /\ before - L <= at /\ at <= before
<1> DEFINE near == {s \in samples : s.buffer = link.buffer /\ before - L <= s.at /\ s.at <= before}
<1>1. at \in LastRun(near, link, direction)
  BY DEF ConditionSince
<1> HIDE DEF near
<1>2. \E s \in near : at = s.at
  BY <1>1 DEF LastRun
<1> QED
  BY <1>2 DEF near

(* The image of a finite set is no larger.                                    *)
LEMMA ImageIsFinite ==
  ASSUME NEW S, IsFiniteSet(S), NEW f
  PROVE  IsFiniteSet({f[x] : x \in S}) /\ Cardinality({f[x] : x \in S}) <= Cardinality(S)
<1> DEFINE R == {f[x] : x \in S}
<1> DEFINE g == [x \in S |-> f[x]]
<1>1. g \in Surjection(S, R)
  BY DEF Surjection
<1> HIDE DEF g, R
<1>2. IsFiniteSet(R) /\ Cardinality(R) <= Cardinality(S)
  BY <1>1, FS_Surjection
<1> QED
  BY <1>2 DEF R

(* The sole element of a set is all of it.                                    *)
LEMMA SoleIs ==
  ASSUME NEW S, IsFiniteSet(S), Sole(S) # None
  PROVE  S = {Sole(S)}
<1>1. Cardinality(S) = 1
  BY DEF Sole
<1>2. PICK x : S = {x}
  BY <1>1, FS_Singleton
<1>3. Sole(S) = CHOOSE y \in S : TRUE
  BY <1>1 DEF Sole
<1> QED
  BY <1>2, <1>3

-----------------------------------------------------------------------------
(* A step of the walk.                                                       *)

(* What is left to say of the walk that has used its current episode too.      *)
Used(c, x, seen, n, T, P) ==
  /\ ChainGood(c, T, P, LeadIn)
  /\ seen \subseteq Keys(T) /\ IsFiniteSet(seen) /\ Cardinality(seen) = n
  /\ \A i \in 1 .. Len(c) : Key(c[i].episode) \in seen
  /\ Len(c) > 0 /\ c[Len(c)] = x

(* The walk that has used this episode too, with a link out of it.             *)
LEMMA EpisodeUsed ==
  ASSUME NEW T, NEW samples, NEW P, LineData(T, samples, P), NEW n \in Nat, NEW W,
         WalkInv(W, n, T, P, LeadIn), W.termination = "walking", Key(W.current) \notin W.seen,
         NEW buffer \in {None, CARRIER_RETURN} \cup {l.buffer : l \in P}, NEW since \in Int
  PROVE  Used(Grown(W.links, OneLink(W.current, buffer, since)), ChainLink(W.current, buffer, since),
              W.seen \cup {Key(W.current)}, n + 1, T, P)
<1> DEFINE x == ChainLink(W.current, buffer, since)
<1> DEFINE c == W.links \o <<x>>
<1> DEFINE seen == W.seen \cup {Key(W.current)}
<1>1. Underway(W, n, T, P, LeadIn) /\ ChainGood(W.links, T, P, LeadIn)
  BY DEF WalkInv
<1>2. x \in LinkSet(T, P) /\ x.episode = W.current
  BY <1>1 DEF Underway, LinkSet, ChainLink
<1>3. \A i \in 1 .. Len(W.links) : Key(W.links[i].episode) # Key(W.current)
  BY <1>1 DEF Underway
<1>4. Len(W.links) \in Nat
  BY <1>1 DEF ChainGood
<1> HIDE DEF x
<1>5. /\ ChainGood(c, T, P, LeadIn) /\ Len(c) = Len(W.links) + 1 /\ c[Len(W.links) + 1] = x
      /\ \A i \in 1 .. Len(W.links) : c[i] = W.links[i]
  BY <1>1, <1>2, <1>3, ChainGrows DEF Underway
<1> HIDE DEF c
<1>6. \A i \in 1 .. Len(c) : Key(c[i].episode) \in seen
  <2> SUFFICES ASSUME NEW i \in 1 .. Len(c)
               PROVE  Key(c[i].episode) \in seen
    OBVIOUS
  <2>1. i \in 1 .. Len(W.links) \/ i = Len(W.links) + 1
    BY <1>4, <1>5
  <2>2. CASE i \in 1 .. Len(W.links)
    BY <2>2, <1>1, <1>5 DEF Underway
  <2>3. CASE i = Len(W.links) + 1
    BY <2>3, <1>2, <1>5
  <2> QED
    BY <2>1, <2>2, <2>3
<1>7. IsFiniteSet(seen) /\ Cardinality(seen) = n + 1
  BY <1>1, FS_AddElement DEF Underway
<1>8. seen \subseteq Keys(T)
  BY <1>1 DEF Underway, Keys
<1>9. Len(c) > 0 /\ c[Len(c)] = x
  BY <1>4, <1>5
<1>10. Grown(W.links, OneLink(W.current, buffer, since)) = c
  BY DEF Grown, OneLink, c, x
<1> QED
  BY <1>5, <1>6, <1>7, <1>8, <1>9, <1>10 DEF x, Used

(* A walk that ends here, or goes on at e.                                     *)
LEMMA VisitsEnd ==
  ASSUME NEW T, NEW samples, NEW P, LineData(T, samples, P), NEW n \in Nat, NEW W,
         WalkInv(W, n, T, P, LeadIn), W.termination = "walking", Key(W.current) \notin W.seen,
         NEW buffer \in {None, CARRIER_RETURN} \cup {l.buffer : l \in P}, NEW since \in Int,
         NEW V, IsWalk(V), V.links = W.links, V.seen = W.seen \cup {Key(W.current)},
         NEW termination \in {"unexplained", "cause_candidate", "line_edge"}, NEW found,
         termination = "cause_candidate" => W.current.state \in CAUSE_CANDIDATE_STATES,
         termination = "line_edge" => AtTheEdge(P, W.current)
  PROVE  WalkInv(Ends(V, OneLink(W.current, buffer, since), termination, found), n + 1, T, P, LeadIn)
<1> DEFINE link == OneLink(W.current, buffer, since)
<1> DEFINE U == Ends(V, link, termination, found)
<1>1. IsWalk(U) /\ U.links = Grown(V.links, link) /\ U.termination = termination
  BY EndsIs
<1>u. Used(Grown(W.links, link), ChainLink(W.current, buffer, since), W.seen \cup {Key(W.current)}, n + 1, T, P)
  BY EpisodeUsed
<1> HIDE DEF link
<1>2. /\ ChainGood(U.links, T, P, LeadIn) /\ Len(U.links) > 0
      /\ U.links[Len(U.links)] = ChainLink(W.current, buffer, since)
  BY <1>1, <1>u DEF Used
<1> HIDE DEF U
<1>3. U.links[Len(U.links)].episode = W.current
  BY <1>2 DEF ChainLink
<1>4. EndGood(U.links, U.termination, P)
  BY <1>1, <1>2, <1>3 DEF EndGood
<1>5. WalkInv(U, n + 1, T, P, LeadIn)
  BY <1>1, <1>2, <1>4 DEF WalkInv
<1> QED
  BY <1>5 DEF U, link

(* And one that has come to a dead end.                                       *)
LEMMA VisitsDeadEnd ==
  ASSUME NEW T, NEW samples, NEW P, LineData(T, samples, P), NEW n \in Nat, NEW W,
         WalkInv(W, n, T, P, LeadIn), W.termination = "walking", Key(W.current) \notin W.seen,
         NEW buffer \in {None, CARRIER_RETURN} \cup {l.buffer : l \in P}, NEW since \in Int,
         NEW V, IsWalk(V), V.links = W.links, V.seen = W.seen \cup {Key(W.current)}, NEW found
  PROVE  WalkInv(DeadEnd(V, OneLink(W.current, buffer, since), found), n + 1, T, P, LeadIn)
<1>1. /\ "unexplained" \in {"unexplained", "cause_candidate", "line_edge"}
      /\ "unexplained" # "cause_candidate" /\ "unexplained" # "line_edge"
  OBVIOUS
<1> DEFINE end == "unexplained"
<1> HIDE DEF end
<1>2. WalkInv(Ends(V, OneLink(W.current, buffer, since), end, found), n + 1, T, P, LeadIn)
  <2>1. /\ end \in {"unexplained", "cause_candidate", "line_edge"}
        /\ end # "cause_candidate" /\ end # "line_edge"
    BY <1>1 DEF end
  <2> QED
    BY <2>1, VisitsEnd
<1> QED
  BY <1>2 DEF end, DeadEnd

(* A topology with a tail has it among its stations.                           *)
LEMMA TailIsThere ==
  ASSUME NEW P, IsFiniteSet(P), TailOf(P) # None
  PROVE  TailOf(P) \in Stations(P)
<1> DEFINE ups == [l \in P |-> l.up]
<1> DEFINE downs == [l \in P |-> l.down]
<1>1. {l.up : l \in P} = {ups[l] : l \in P} /\ {l.down : l \in P} = {downs[l] : l \in P}
  OBVIOUS
<1> HIDE DEF ups, downs
<1>2. IsFiniteSet({ups[l] : l \in P}) /\ IsFiniteSet({downs[l] : l \in P})
  BY ImageIsFinite
<1>3. IsFiniteSet(Stations(P))
  BY <1>1, <1>2, FS_Union DEF Stations
<1>4. IsFiniteSet({s \in Stations(P) : DownstreamBuffersOf(P, s) = {}})
  BY <1>3, FS_Subset
<1> QED
  BY <1>4, SoleIs DEF TailOf

(* Where the link out of a consequence leads.                                  *)
LEMMA LinkLeads ==
  ASSUME NEW T, NEW samples, NEW P, LineData(T, samples, P), NEW e \in T,
         NEW link \in ConnectingLinks(P, e), NEW since \in Int
  PROVE  LET next == IF e.reason.direction = "starved" THEN link.up ELSE link.down IN
         /\ link.buffer \in {None, CARRIER_RETURN} \cup {l.buffer : l \in P}
         /\ next = Neighbour(P, ChainLink(e, link.buffer, since))
         /\ next \in Stations(P)
<1> DEFINE next == IF e.reason.direction = "starved" THEN link.up ELSE link.down
<1> DEFINE x == ChainLink(e, link.buffer, since)
<1>1. link \in ConnectingLinks(P, e)
  OBVIOUS
<1>2. x.episode = e /\ x.buffer = link.buffer
  BY DEF ChainLink
<1>3. CASE e.buffer # None
  <2>1. link \in P
    BY <1>1, <1>3 DEF ConnectingLinks
  <2>2. link.buffer # CARRIER_RETURN /\ link = CHOOSE l \in P : l.buffer = link.buffer
    BY <2>1 DEF LineData
  <2>3. next = Neighbour(P, x)
    BY <1>2, <2>2 DEF Neighbour
  <2>4. next \in Stations(P)
    BY <2>1 DEF Stations
  <2> QED
    BY <2>1, <2>3, <2>4
<1>4. CASE e.buffer = None
  <2>1. e.reason = [direction |-> "starved", detail |-> CARRIER_RETURN] /\ link \in CarrierLoop(P)
    BY <1>1, <1>4 DEF ConnectingLinks
  <2>2. /\ link = [buffer |-> CARRIER_RETURN, up |-> TailOf(P), down |-> HeadOf(P), capacity |-> 0]
        /\ TailOf(P) # None
    BY <2>1 DEF CarrierLoop
  <2>3. e.reason.direction = "starved" /\ next = TailOf(P) /\ link.buffer = CARRIER_RETURN
    <3>1. e.reason.direction = "starved"
      BY <2>1
    <3>2. link.up = TailOf(P) /\ link.buffer = CARRIER_RETURN
      BY <2>2
    <3> QED
      BY <3>1, <3>2
  <2>4. next = Neighbour(P, x)
    BY <1>2, <2>3 DEF Neighbour
  <2>5. TailOf(P) \in Stations(P)
    BY <2>2, TailIsThere DEF LineData
  <2> QED
    BY <2>3, <2>4, <2>5
<1> QED
  BY <1>3, <1>4

(* The latest of some episodes is one of them.                                *)
LEMMA LatestIsOne ==
  ASSUME NEW S, NEW x \in Latest(S)
  PROVE  x \in S
  BY DEF Latest

(* The walk goes on, from the episode that explains the condition.             *)
LEMMA WalkGoesOn ==
  ASSUME NEW T, NEW samples, NEW P, LineData(T, samples, P), NEW n \in Nat, NEW W,
         WalkInv(W, n, T, P, LeadIn), W.termination = "walking", Key(W.current) \notin W.seen,
         NEW buffer \in {None, CARRIER_RETURN} \cup {l.buffer : l \in P}, NEW since \in Int,
         NEW V, IsWalk(V), V.links = W.links, V.seen = W.seen \cup {Key(W.current)},
         NEW found, NEW e \in T, e.station \in Stations(P),
         Leads(P, LeadIn, ChainLink(W.current, buffer, since), e)
  PROVE  WalkInv([Ends(V, OneLink(W.current, buffer, since), "walking", found) EXCEPT !.current = e],
                 n + 1, T, P, LeadIn)
<1> DEFINE link == OneLink(W.current, buffer, since)
<1> DEFINE x == ChainLink(W.current, buffer, since)
<1> DEFINE Y == Ends(V, link, "walking", found)
<1> DEFINE U == [Y EXCEPT !.current = e]
<1>1. /\ IsWalk(Y) /\ Y.links = Grown(V.links, link) /\ Y.termination = "walking"
      /\ Y.seen = V.seen
  BY EndsIs
<1>u. Used(Grown(W.links, link), x, W.seen \cup {Key(W.current)}, n + 1, T, P)
  BY EpisodeUsed
<1> HIDE DEF link, x, Y
<1>2. /\ IsWalk(U) /\ U.links = Y.links /\ U.termination = Y.termination /\ U.seen = Y.seen
      /\ U.current = e
  BY <1>1 DEF IsWalk, WalkFields
<1> HIDE DEF U
<1>3. Used(U.links, x, U.seen, n + 1, T, P)
  BY <1>1, <1>2, <1>u
<1>4. Leads(P, LeadIn, x, U.current) /\ U.current \in T /\ U.current.station \in Stations(P)
  BY <1>2 DEF x
<1>5. Underway(U, n + 1, T, P, LeadIn)
  BY <1>3, <1>4 DEF Underway, Used
<1>6. EndGood(U.links, U.termination, P)
  BY <1>1, <1>2 DEF EndGood
<1>7. WalkInv(U, n + 1, T, P, LeadIn)
  BY <1>2, <1>3, <1>5, <1>6 DEF WalkInv, Used
<1> QED
  BY <1>7 DEF U, Y, link

(* Following the link a consequence names keeps the walk's invariant.         *)
LEMMA FollowsGood ==
  ASSUME NEW T, NEW samples, NEW P, LineData(T, samples, P), NEW n \in Nat, NEW W,
         WalkInv(W, n, T, P, LeadIn), W.termination = "walking", Key(W.current) \notin W.seen,
         NEW V, IsWalk(V), V.links = W.links, V.seen = W.seen \cup {Key(W.current)},
         EpisodeKind(W.current) = "consequence", NEW link \in ConnectingLinks(P, W.current)
  PROVE  WalkInv(Follow(V, W.current, link, T, samples, LeadIn), n + 1, T, P, LeadIn)
<1> DEFINE e == W.current
<1> DEFINE direction == e.reason.direction
<1> DEFINE next == IF direction = "starved" THEN link.up ELSE link.down
<1> DEFINE since == IF link.buffer = CARRIER_RETURN THEN {e.from}
                    ELSE ConditionSince(samples, link, direction, e.from, LeadIn)
<1> DEFINE at == CHOOSE x \in since : TRUE
<1> DEFINE explaining == ExplainingEpisode(T, next, at, LeadIn)
<1> DEFINE extra == InOrder({c \in Overlapping(T, next, at, LeadIn) \ explaining :
                               EpisodeKind(c) = "cause_candidate"})
<1> DEFINE U == Follow(V, e, link, T, samples, LeadIn)
<1>1. e \in T /\ e.from \in Int /\ e.state = CONSEQUENCE_STATE
  BY DEF WalkInv, Underway, LineData, EpisodeKind
<1>l. LeadIn \in Nat
  BY StopsAssumption
<1>2. /\ link.buffer \in {None, CARRIER_RETURN} \cup {l.buffer : l \in P}
      /\ \A t \in Int : next = Neighbour(P, ChainLink(e, link.buffer, t))
      /\ next \in Stations(P)
  BY <1>1, LinkLeads
<1>3. ASSUME NEW t \in since
      PROVE  t \in Int /\ e.from - LeadIn <= t /\ t <= e.from
  <2>1. CASE link.buffer = CARRIER_RETURN
    BY <2>1, <1>1, <1>l
  <2>2. CASE link.buffer # CARRIER_RETURN
    <3>1. t \in ConditionSince(samples, link, direction, e.from, LeadIn)
      BY <2>2
    <3>2. \A s \in samples : s.at \in Int
      BY DEF LineData
    <3> QED
      BY <1>1, <1>l, <3>1, <3>2, SinceIsNear
  <2> QED
    BY <2>1, <2>2
<1>f. U = IF next = e.station \/ since = {} THEN DeadEnd(V, OneLink(e, link.buffer, Unknown), <<>>)
          ELSE IF explaining = {} THEN DeadEnd(V, OneLink(e, link.buffer, at), extra)
          ELSE [Ends(V, OneLink(e, link.buffer, at), "walking", extra) EXCEPT
                  !.current = CHOOSE x \in explaining : TRUE]
  BY DEF Follow, OneLink
<1>u. Unknown \in Int
  BY DEF Unknown
<1> HIDE DEF since, next
<1>4. since # {} => at \in since
  OBVIOUS
<1> HIDE DEF at
<1>5. ASSUME NEW x \in explaining
      PROVE  x \in T /\ x.station = next /\ x.from <= at
  <2>1. x \in Overlapping(T, next, at, LeadIn)
    BY LatestIsOne DEF ExplainingEpisode
  <2> QED
    BY <2>1 DEF Overlapping, Overlaps
<1> HIDE DEF explaining, extra
<1>6. CASE next = e.station \/ since = {}
  <2>1. U = DeadEnd(V, OneLink(e, link.buffer, Unknown), <<>>)
    BY <1>f, <1>6
  <2>2. WalkInv(DeadEnd(V, OneLink(e, link.buffer, Unknown), <<>>), n + 1, T, P, LeadIn)
    BY <1>2, <1>u, VisitsDeadEnd
  <2> QED
    BY <2>1, <2>2
<1>7. CASE ~(next = e.station \/ since = {}) /\ explaining = {}
  <2>1. U = DeadEnd(V, OneLink(e, link.buffer, at), extra)
    BY <1>f, <1>7
  <2>2. at \in Int
    BY <1>3, <1>4, <1>7
  <2>3. WalkInv(DeadEnd(V, OneLink(e, link.buffer, at), extra), n + 1, T, P, LeadIn)
    BY <2>2, <1>2, VisitsDeadEnd
  <2> QED
    BY <2>1, <2>3
<1>8. CASE ~(next = e.station \/ since = {}) /\ explaining # {}
  <2>1. PICK x \in explaining : x = CHOOSE y \in explaining : TRUE
    BY <1>8
  <2>2. U = [Ends(V, OneLink(e, link.buffer, at), "walking", extra) EXCEPT !.current = x]
    BY <1>f, <1>8, <2>1
  <2>3. at \in Int /\ e.from - LeadIn <= at /\ at <= e.from
    BY <1>3, <1>4, <1>8
  <2>4. x \in T /\ x.station = next /\ x.from <= at
    BY <1>5
  <2>5. Leads(P, LeadIn, ChainLink(e, link.buffer, at), x)
    <3>1. ChainLink(e, link.buffer, at).episode = e /\ ChainLink(e, link.buffer, at).since = at
      BY DEF ChainLink
    <3>2. next = Neighbour(P, ChainLink(e, link.buffer, at))
      BY <1>2, <2>3
    <3> HIDE DEF e
    <3> QED
      BY <1>1, <2>3, <2>4, <3>1, <3>2 DEF Leads
  <2>6. x.station \in Stations(P)
    BY <2>4, <1>2
  <2>7. WalkInv([Ends(V, OneLink(W.current, link.buffer, at), "walking", extra) EXCEPT !.current = x],
                n + 1, T, P, LeadIn)
    BY <1>2, <2>3, <2>4, <2>5, <2>6, WalkGoesOn
  <2> QED
    BY <2>2, <2>7
<1> QED
  BY <1>6, <1>7, <1>8

(* So does visiting an episode, whatever its kind.                            *)
LEMMA VisitGood ==
  ASSUME NEW T, NEW samples, NEW P, LineData(T, samples, P), NEW n \in Nat, NEW W,
         WalkInv(W, n, T, P, LeadIn), W.termination = "walking", Key(W.current) \notin W.seen,
         NEW V, IsWalk(V), V.links = W.links, V.seen = W.seen \cup {Key(W.current)}
  PROVE  WalkInv(Visit(V, W.current, T, samples, P, LeadIn), n + 1, T, P, LeadIn)
<1> DEFINE e == W.current
<1> DEFINE link == OneLink(e, None, Unknown)
<1> DEFINE U == Visit(V, e, T, samples, P, LeadIn)
<1>1. \/ EpisodeKind(e) = "cause_candidate" /\ e.state \in CAUSE_CANDIDATE_STATES
      \/ EpisodeKind(e) = "other"
      \/ EpisodeKind(e) = "consequence"
  BY DEF EpisodeKind, CONSEQUENCE_STATE, CAUSE_CANDIDATE_STATES
<1>2. None \in {None, CARRIER_RETURN} \cup {l.buffer : l \in P} /\ Unknown \in Int
  BY DEF Unknown
<1>3. \A found : WalkInv(DeadEnd(V, link, found), n + 1, T, P, LeadIn)
  BY <1>2, VisitsDeadEnd
<1>4. CASE EpisodeKind(e) = "cause_candidate" /\ e.state \in CAUSE_CANDIDATE_STATES
  <2>1. U = Ends(V, link, "cause_candidate", <<e>>)
    BY <1>4 DEF Visit, OneLink
  <2> DEFINE end == "cause_candidate"
  <2> DEFINE found == <<e>>
  <2>2. end \in {"unexplained", "cause_candidate", "line_edge"} /\ end # "line_edge"
    OBVIOUS
  <2> HIDE DEF end, found
  <2>3. WalkInv(Ends(V, link, end, found), n + 1, T, P, LeadIn)
    BY <1>2, <1>4, <2>2, VisitsEnd
  <2> QED
    BY <2>1, <2>3 DEF end, found
<1>5. CASE EpisodeKind(e) = "other"
  <2>1. U = DeadEnd(V, link, <<>>)
    BY <1>5 DEF Visit, OneLink
  <2> QED
    BY <2>1, <1>3
<1>6. CASE EpisodeKind(e) = "consequence" /\ (ConnectingLinks(P, e) = {} \/ e.reason.direction = None)
  <2>1. U = OutsideTheLine(V, e, P)
    BY <1>6 DEF Visit
  <2> DEFINE head == e.reason.direction = "starved" /\ UpstreamBuffersOf(P, e.station) = {}
  <2> DEFINE tail == e.reason.direction = "blocked" /\ DownstreamBuffersOf(P, e.station) = {}
  <2>2. \/ U = DeadEnd(V, link, <<>>)
        \/ (head \/ tail) /\ U = Ends(V, link, "line_edge", <<>>)
    BY <2>1 DEF OutsideTheLine, OneLink
  <2>3. CASE (head \/ tail) /\ U = Ends(V, link, "line_edge", <<>>)
    <3>1. AtTheEdge(P, e)
      BY <2>3 DEF AtTheEdge, WalkInv, Underway
    <3> DEFINE end == "line_edge"
    <3> DEFINE found == <<>>
    <3>2. end \in {"unexplained", "cause_candidate", "line_edge"} /\ end # "cause_candidate"
      OBVIOUS
    <3> HIDE DEF end, found
    <3>3. WalkInv(Ends(V, link, end, found), n + 1, T, P, LeadIn)
      BY <1>2, <3>1, <3>2, VisitsEnd
    <3> QED
      BY <2>3, <3>3 DEF end, found
  <2> QED
    BY <2>2, <2>3, <1>3
<1>7. CASE EpisodeKind(e) = "consequence" /\ ~(ConnectingLinks(P, e) = {} \/ e.reason.direction = None)
  <2>1. PICK l \in ConnectingLinks(P, e) : l = CHOOSE x \in ConnectingLinks(P, e) : TRUE
    BY <1>7
  <2>2. U = Follow(V, e, l, T, samples, LeadIn)
    BY <1>7, <2>1 DEF Visit
  <2> QED
    BY <1>7, <2>2, FollowsGood
<1> QED
  BY <1>1, <1>4, <1>5, <1>6, <1>7

(* And every step.                                                            *)
LEMMA StepGood ==
  ASSUME NEW T, NEW samples, NEW P, LineData(T, samples, P), NEW n \in Nat, NEW W,
         WalkInv(W, n, T, P, LeadIn)
  PROVE  WalkInv(Step(W, T, samples, P, LeadIn), n + 1, T, P, LeadIn)
<1> DEFINE met == <<W.current.station, W.current.from>>
<1>1. CASE W.termination # "walking"
  <2>1. Step(W, T, samples, P, LeadIn) = W
    BY <1>1 DEF Step
  <2> QED
    BY <1>1, <2>1 DEF WalkInv
<1>2. CASE W.termination = "walking" /\ met \in W.seen
  <2> DEFINE none == <<>>
  <2> DEFINE U == DeadEnd(W, none, none)
  <2>1. Step(W, T, samples, P, LeadIn) = U
    BY <1>2 DEF Step
  <2>2. W.links \in Seq(LinkSet(T, P))
    BY DEF WalkInv, ChainGood
  <2>3. Grown(W.links, none) = W.links
    BY <2>2 DEF Grown
  <2> HIDE DEF none
  <2>4. IsWalk(U) /\ U.links = W.links /\ U.termination = "unexplained"
    BY <2>3, EndsIs DEF DeadEnd, WalkInv
  <2> HIDE DEF U
  <2>5. WalkInv(U, n + 1, T, P, LeadIn)
    BY <2>4 DEF WalkInv, EndGood
  <2> QED
    BY <2>1, <2>5
<1>3. CASE W.termination = "walking" /\ met \notin W.seen
  <2> DEFINE V == [W EXCEPT !.seen = @ \cup {met}]
  <2>1. Step(W, T, samples, P, LeadIn) = Visit(V, W.current, T, samples, P, LeadIn)
    BY <1>3 DEF Step
  <2>2. Key(W.current) = met
    BY DEF Key
  <2>3. IsWalk(V) /\ V.links = W.links /\ V.seen = W.seen \cup {met}
    BY DEF WalkInv, IsWalk, WalkFields
  <2> HIDE DEF V, met
  <2> QED
    BY <1>3, <2>1, <2>2, <2>3, VisitGood
<1> QED
  BY <1>1, <1>2, <1>3

(* Every walk is as good as its start, and it is over when the episodes are.   *)
LEMMA WalkIsGood ==
  ASSUME NEW T, NEW samples, NEW P, LineData(T, samples, P), NEW last \in Nat, NEW w, NEW start,
         Walks(w, last, start, T, samples, P, LeadIn), WalkInv(start, 0, T, P, LeadIn)
  PROVE  \A n \in 0 .. last : WalkInv(w[n], n, T, P, LeadIn)
<1> DEFINE Bad == {n \in 0 .. last : ~WalkInv(w[n], n, T, P, LeadIn)}
<1>1. SUFFICES ASSUME Bad # {}
               PROVE  FALSE
  OBVIOUS
<1>2. PICK n \in Bad : \A m \in Bad : ~(<<m, n>> \in OpToRel(<, Nat))
  <2>1. Bad \subseteq Nat
    OBVIOUS
  <2> HIDE DEF Bad
  <2> QED
    BY <1>1, <2>1, NatLessThanWellFounded, WFMin
<1>3. n \in 0 .. last /\ ~WalkInv(w[n], n, T, P, LeadIn)
  OBVIOUS
<1>4. w[n] = IF n = 0 THEN start ELSE Step(w[n - 1], T, samples, P, LeadIn)
  BY <1>3 DEF Walks
<1>5. n # 0
  BY <1>3, <1>4
<1>6. n - 1 \in 0 .. last /\ n - 1 \in Nat /\ <<n - 1, n>> \in OpToRel(<, Nat) /\ (n - 1) + 1 = n
  BY <1>3, <1>5 DEF OpToRel
<1>7. WalkInv(w[n - 1], n - 1, T, P, LeadIn)
  BY <1>2, <1>6
<1>8. WalkInv(Step(w[n - 1], T, samples, P, LeadIn), (n - 1) + 1, T, P, LeadIn)
  BY <1>6, <1>7, StepGood
<1> QED
  BY <1>3, <1>4, <1>5, <1>6, <1>8

(* Each step uses another episode, and there are only so many.                *)
LEMMA WalkIsOver ==
  ASSUME NEW T, NEW P, IsFiniteSet(T), NEW W, WalkInv(W, Cardinality(T) + 1, T, P, LeadIn)
  PROVE  W.termination # "walking"
<1> SUFFICES ASSUME W.termination = "walking"
             PROVE  FALSE
  OBVIOUS
<1>1. W.seen \subseteq Keys(T) /\ Cardinality(W.seen) = Cardinality(T) + 1
  BY DEF WalkInv, Underway
<1> DEFINE key == [e \in T |-> Key(e)]
<1>2. Keys(T) = {key[e] : e \in T}
  BY DEF Keys
<1> HIDE DEF key
<1>3. IsFiniteSet(Keys(T)) /\ Cardinality(Keys(T)) <= Cardinality(T)
  BY <1>2, ImageIsFinite
<1>4. Cardinality(W.seen) <= Cardinality(Keys(T))
  BY <1>1, <1>3, FS_Subset
<1>5. Cardinality(T) \in Nat /\ Cardinality(Keys(T)) \in Nat
  BY <1>3, FS_CardinalityType
<1> QED
  BY <1>1, <1>3, <1>4, <1>5

-----------------------------------------------------------------------------
(* What a derivation says.                                                   *)

(* What the scenarios are assumed of holds of what is visible of them.        *)
LEMMA ViewOf ==
  ASSUME NEW s \in Scenarios, NEW absent
  PROVE  LET v == View(s.db, absent) IN
         /\ v.topology = s.db.topology
         /\ IsFiniteSet(v.changes) /\ \A c \in v.changes : c.at \in Int
         /\ \A l \in v.levels : l.at \in Int
         /\ IsFiniteSet(v.gaps) /\ \A g \in v.gaps : g.from \in Int /\ g.to \in Int
<1> DEFINE v == View(s.db, absent)
<1> DEFINE change(c) == IF <<"reason", c.station, c.at>> \in absent
                        THEN [c EXCEPT !.reason = NoReason, !.buffer = None] ELSE c
<1> DEFINE seen == {d \in s.db.changes : <<"state", d.station, d.at>> \notin absent}
<1> DEFINE f == [c \in seen |-> change(c)]
<1>1. /\ v.topology = s.db.topology /\ v.gaps \subseteq s.db.gaps /\ v.levels \subseteq s.db.levels
      /\ v.changes = {change(c) : c \in seen}
  BY DEF View
<1>2. /\ IsFiniteSet(s.db.changes) /\ Instants(s.db.changes) /\ Instants(s.db.levels)
      /\ IsFiniteSet(s.db.gaps) /\ Spans(s.db.gaps)
  BY ScenariosAssumption
<1>3. IsFiniteSet(seen)
  BY <1>2, FS_Subset
<1>4. v.changes = {f[c] : c \in seen}
  BY <1>1
<1>5. \A c \in seen : change(c).at = c.at
  OBVIOUS
<1>6. \A c \in v.changes : c.at \in Int
  BY <1>1, <1>2, <1>5 DEF Instants
<1> HIDE DEF f, seen, v
<1>7. IsFiniteSet(v.changes)
  BY <1>3, <1>4, ImageIsFinite
<1>8. IsFiniteSet(v.gaps)
  BY <1>1, <1>2, FS_Subset
<1>9. \A l \in v.levels : l.at \in Int
  BY <1>1, <1>2 DEF Instants
<1>10. \A g \in v.gaps : g.from \in Int /\ g.to \in Int
  BY <1>1, <1>2 DEF Spans
<1> QED
  BY <1>1, <1>6, <1>7, <1>8, <1>9, <1>10 DEF v

(* There are finitely many episodes, and they begin at instants.              *)
LEMMA EpisodesAre ==
  ASSUME NEW db, IsFiniteSet(db.changes), \A c \in db.changes : c.at \in Int, NEW from, NEW to
  PROVE  IsFiniteSet(StateEpisodes(db, from, to)) /\ \A e \in StateEpisodes(db, from, to) : e.from \in Int
<1> DEFINE rows == {c \in db.changes : c.at < to /\ (c.at < from =>
                 \A d \in db.changes : d.station = c.station /\ d.at < from => d.at <= c.at)}
<1> DEFINE following(c) == {d.at : d \in {x \in rows : x.station = c.station /\ x.at > c.at}}
<1> DEFINE ends == [c \in rows |-> IF following(c) = {} THEN Open ELSE Min(following(c))]
<1> DEFINE f == [c \in rows |-> [station |-> c.station, state |-> c.state, from |-> c.at, reason |-> c.reason,
                                 buffer |-> c.buffer, to |-> ends[c]]]
<1>1. StateEpisodes(db, from, to) = {f[c] : c \in rows}
  BY DEF StateEpisodes
<1>2. IsFiniteSet(rows)
  BY FS_Subset
<1>3. \A c \in rows : c.at \in Int
  OBVIOUS
<1> HIDE DEF rows, ends
<1>4. \A c \in rows : f[c].from = c.at
  OBVIOUS
<1> HIDE DEF f
<1>5. IsFiniteSet({f[c] : c \in rows})
  BY <1>2, ImageIsFinite
<1> QED
  BY <1>1, <1>3, <1>4, <1>5

(* A chain that is good and is over.                                          *)
DerivationGood(d, T, P) ==
  /\ ChainGood(d.links, T, P, LeadIn) /\ EndGood(d.links, d.termination, P)
  /\ d.termination # "walking"

LEMMA NothingIsGood ==
  ASSUME NEW T, NEW P, NEW d, d.links = <<>>, d.termination = "unexplained"
  PROVE  DerivationGood(d, T, P)
<1>1. d.links \in Seq(LinkSet(T, P)) /\ Len(d.links) = 0
  OBVIOUS
<1> QED
  BY <1>1 DEF DerivationGood, ChainGood, EndGood

(* A walk from a station of the line gives a good one,                        *)
LEMMA ChainIsGood ==
  ASSUME NEW T, NEW samples, NEW P, LineData(T, samples, P), NEW s \in Stations(P), NEW moment
  PROVE  DerivationGood(DeriveChain(s, moment, T, samples, P, LeadIn), T, P)
<1> DEFINE seed == EpisodeCovering(T, s, moment)
<1> DEFINE start == StartOf(seed)
<1> DEFINE d == DeriveChain(s, moment, T, samples, P, LeadIn)
<1>1. CASE seed = {}
  <2>1. d = [links |-> <<>>, candidates |-> <<>>, termination |-> "unexplained"]
    BY <1>1 DEF DeriveChain
  <2> HIDE DEF d
  <2>2. d.links = <<>> /\ d.termination = "unexplained"
    BY <2>1
  <2>3. DerivationGood(d, T, P)
    BY <2>2, NothingIsGood
  <2> QED
    BY <2>3 DEF d
<1>2. CASE seed # {}
  <2>1. Cardinality(T) \in Nat /\ IsFiniteSet(T)
    BY FS_CardinalityType DEF LineData
  <2>2. PICK w : /\ Walks(w, Cardinality(T) + 1, start, T, samples, P, LeadIn)
                 /\ d = [links |-> w[Cardinality(T) + 1].links, candidates |-> w[Cardinality(T) + 1].candidates,
                         termination |-> w[Cardinality(T) + 1].termination]
    BY <1>2, <2>1, DeriveChainWalks
  <2>3. (CHOOSE e \in seed : TRUE) \in seed
    BY <1>2
  <2>4. \A e \in seed : e \in T /\ e.station = s
    BY LatestIsOne DEF EpisodeCovering
  <2>5. /\ start.links = <<>> /\ start.seen = {} /\ start.termination = "walking" /\ start.current \in T
        /\ start.current.station = s /\ IsWalk(start)
    BY <2>3, <2>4 DEF StartOf, IsWalk, WalkFields
  <2> HIDE DEF start, d, seed
  <2>6. Len(start.links) = 0 /\ start.links \in Seq(LinkSet(T, P))
    BY <2>5
  <2>7. IsFiniteSet({}) /\ Cardinality({}) = 0
    BY FS_EmptySet
  <2>8. Underway(start, 0, T, P, LeadIn)
    BY <2>5, <2>6, <2>7 DEF Underway
  <2>9. WalkInv(start, 0, T, P, LeadIn)
    BY <2>5, <2>6, <2>8 DEF WalkInv, ChainGood, EndGood
  <2>10. WalkInv(w[Cardinality(T) + 1], Cardinality(T) + 1, T, P, LeadIn)
    BY <2>1, <2>2, <2>9, WalkIsGood
  <2>11. w[Cardinality(T) + 1].termination # "walking"
    BY <2>1, <2>10, WalkIsOver
  <2>12. DerivationGood(d, T, P)
    BY <2>2, <2>10, <2>11 DEF WalkInv, DerivationGood
  <2> QED
    BY <2>12 DEF d
<1> QED
  BY <1>1, <1>2

(* and so the derivation over any view of a scenario.                         *)
LEMMA DerivationIsGood ==
  ASSUME NEW there \in Scenarios, NEW absent, NEW db, db = View(there.db, absent),
         NEW f, NEW t, NEW from, NEW to
  PROVE  \E T : DerivationGood(Derivation(db, f, t, from, to), T, db.topology)
<1> DEFINE T == StateEpisodes(db, f, t)
<1> DEFINE samples == BufferSamples(db, f, t)
<1> DEFINE P == db.topology
<1>1. /\ P = there.db.topology
      /\ IsFiniteSet(db.changes) /\ \A c \in db.changes : c.at \in Int
      /\ \A l \in db.levels : l.at \in Int
  BY ViewOf
<1>2. OneLine(P)
  BY <1>1, ScenariosAssumption
<1>3. LineData(T, samples, P)
  BY <1>1, <1>2, EpisodesAre DEF LineData, OneLine, BufferSamples
<1>4. CASE TailOf(P) = None
  <2>1. Derivation(db, f, t, from, to) = NoDerivation
    BY <1>4 DEF Derivation
  <2> QED
    BY <2>1, NothingIsGood DEF NoDerivation
<1>5. CASE TailOf(P) # None
  <2>1. Derivation(db, f, t, from, to)
          = DeriveChain(TailOf(P), SeedInstant(T, TailOf(P), from, to), T, samples, P, LeadIn)
    BY <1>5 DEF Derivation
  <2>2. TailOf(P) \in Stations(P)
    BY <1>3, <1>5, TailIsThere DEF LineData
  <2> HIDE DEF T, samples
  <2> QED
    BY <1>3, <2>1, <2>2, ChainIsGood
<1> QED
  BY <1>4, <1>5

(* The sole element of a set of one.                                          *)
LEMMA SoleOfOne ==
  ASSUME NEW s, NEW S, S = {s}
  PROVE  Sole(S) = s
<1>1. Cardinality(S) = 1
  BY FS_Singleton
<1>2. (CHOOSE x \in S : TRUE) = s
  OBVIOUS
<1> QED
  BY <1>1, <1>2 DEF Sole

(* On one line nothing is upstream of the head alone, nor downstream of the   *)
(* tail alone.                                                                *)
LEMMA EdgesAreEnds ==
  ASSUME NEW P, OneLine(P), NEW s \in Stations(P)
  PROVE  /\ UpstreamBuffersOf(P, s) = {} => s = HeadOf(P)
         /\ DownstreamBuffersOf(P, s) = {} => s = TailOf(P)
<1>1. ASSUME UpstreamBuffersOf(P, s) = {}
      PROVE  s = HeadOf(P)
  <2>1. {t \in Stations(P) : UpstreamBuffersOf(P, t) = {}} = {s}
    BY <1>1 DEF OneLine
  <2> QED
    BY <2>1, SoleOfOne DEF HeadOf
<1>2. ASSUME DownstreamBuffersOf(P, s) = {}
      PROVE  s = TailOf(P)
  <2>1. {t \in Stations(P) : DownstreamBuffersOf(P, t) = {}} = {s}
    BY <1>2 DEF OneLine
  <2> QED
    BY <2>1, SoleOfOne DEF TailOf
<1> QED
  BY <1>1, <1>2

(* A cause outside the line is named by the reason of the last link.           *)
LEMMA CategoryNamesTheEnd ==
  ASSUME NEW d, NEW T, NEW P, OneLine(P), DerivationGood(d, T, P)
  PROVE  LET last == d.links[Len(d.links)].episode IN
         /\ CategoryOf(d) = "external_upstream" => last.station = HeadOf(P)
         /\ CategoryOf(d) = "external_downstream" => last.station = TailOf(P)
<1> DEFINE last == d.links[Len(d.links)].episode
<1>1. /\ d.termination \in {"unexplained", "cause_candidate", "line_edge"}
      /\ d.termination = "line_edge" => AtTheEdge(P, last)
  BY DEF DerivationGood, EndGood
<1>2. ASSUME CategoryOf(d) \in {"external_upstream", "external_downstream"}
      PROVE  d.termination = "line_edge"
  <2>1. None = "none"
    BY DEF None
  <2> QED
    BY <1>1, <1>2, <2>1 DEF CategoryOf
<1>3. ASSUME CategoryOf(d) = "external_upstream"
      PROVE  last.reason.direction = "starved"
  <2>1. None = "none"
    BY DEF None
  <2>2. d.termination = "line_edge"
    BY <1>2, <1>3
  <2>3. AtTheEdge(P, last)
    BY <1>1, <2>2
  <2>4. CASE last.reason.direction = "blocked"
    BY <1>3, <2>1, <2>4 DEF CategoryOf
  <2> QED
    BY <2>3, <2>4 DEF AtTheEdge
<1>4. ASSUME CategoryOf(d) = "external_downstream"
      PROVE  last.reason.direction = "blocked"
  <2>1. None = "none"
    BY DEF None
  <2>2. d.termination = "line_edge"
    BY <1>2, <1>4
  <2>3. AtTheEdge(P, last)
    BY <1>1, <2>2
  <2>4. CASE last.reason.direction = "starved"
    BY <1>4, <2>1, <2>4 DEF CategoryOf
  <2> QED
    BY <2>3, <2>4 DEF AtTheEdge
<1> QED
  BY <1>1, <1>2, <1>3, <1>4, EdgesAreEnds DEF AtTheEdge

(* What there is to say of a chain, with the topology it was derived over.     *)
Evidence(d, P) ==
  LET chain == d.links IN
  /\ \A i \in 1 .. Len(chain) - 1 : Leads(P, LeadIn, chain[i], chain[i + 1].episode)
  /\ IsInjective([i \in DOMAIN chain |-> Key(chain[i].episode)])
  /\ d.termination = "cause_candidate" => chain[Len(chain)].episode.state \in CAUSE_CANDIDATE_STATES
  /\ CategoryOf(d) = "external_upstream" => chain[Len(chain)].episode.station = HeadOf(P)
  /\ CategoryOf(d) = "external_downstream" => chain[Len(chain)].episode.station = TailOf(P)

(* A good chain is evidence,                                                  *)
LEMMA GoodIsEvidence ==
  ASSUME NEW d, NEW T, NEW P, OneLine(P), DerivationGood(d, T, P)
  PROVE  Evidence(d, P)
<1>1. ChainGood(d.links, T, P, LeadIn) /\ EndGood(d.links, d.termination, P)
  BY DEF DerivationGood
<1>2. DOMAIN d.links = 1 .. Len(d.links)
  BY <1>1 DEF ChainGood
<1>3. IsInjective([i \in DOMAIN d.links |-> Key(d.links[i].episode)])
  BY <1>1, <1>2 DEF ChainGood, IsInjective
<1> QED
  BY <1>1, <1>3, CategoryNamesTheEnd DEF Evidence, ChainGood, EndGood

(* and the chain of a stop that is opened is good.                            *)
LEMMA StopsAreEvident ==
  ASSUME NEW there \in Scenarios, NEW absent, NEW db, db = View(there.db, absent), NEW asOf, NEW clock, NEW began,
         GetStop(asOf, db, clock, began).status = 200
  PROVE  Evidence(GetStop(asOf, db, clock, began).derivation, db.topology)
<1> DEFINE from == OutputAtOrBefore(asOf, began)
<1> DEFINE after == OutputAfter(db, began)
<1> DEFINE to == IF after = Unknown THEN clock ELSE after
<1>1. from # Unknown /\ ~(to - from <= MicroStopThreshold)
  BY DEF GetStop, NotFound
<1>2. PICK d : d = Derivation(db, from - History, to + 1, from, to)
  OBVIOUS
<1>3. GetStop(asOf, db, clock, began).derivation = d
  BY <1>1, <1>2 DEF GetStop
<1> HIDE DEF from, after, to
<1>4. PICK T : DerivationGood(d, T, db.topology)
  BY <1>2, DerivationIsGood
<1>5. OneLine(db.topology)
  BY ViewOf, ScenariosAssumption
<1> QED
  BY <1>3, <1>4, <1>5, GoodIsEvidence

-----------------------------------------------------------------------------
(* Finite sets in order.                                                     *)

(* A finite set has an element whose key is the greatest.                     *)
LEMMA HasMost ==
  ASSUME NEW S, IsFiniteSet(S), S # {}, NEW key, \A x \in S : key[x] \in Int
  PROVE  \E m \in S : \A x \in S : key[x] <= key[m]
<1> DEFINE T == {s \in SUBSET S : s # {} /\ ~\E m \in s : \A x \in s : key[x] <= key[m]}
<1>1. SUFFICES ASSUME T # {}
               PROVE  FALSE
  OBVIOUS
<1>2. T \subseteq FiniteSubsetsOf(S)
  BY FS_FiniteSubsetsOfFinite
<1>3. PICK s \in T : \A r \in T : ~(<<r, s>> \in StrictSubsetOrdering(S))
  <2> HIDE DEF T
  <2> QED
    BY <1>1, <1>2, FS_StrictSubsetOrderingWellFounded, WFMin
<1>4. s \subseteq S /\ s # {} /\ ~\E m \in s : \A x \in s : key[x] <= key[m]
  OBVIOUS
<1>5. PICK y \in s : TRUE
  BY <1>4
<1> DEFINE r == s \ {y}
<1>6. <<r, s>> \in StrictSubsetOrdering(S) /\ r \in SUBSET S
  BY <1>4 DEF StrictSubsetOrdering
<1>7. r = {} \/ \E m \in r : \A x \in r : key[x] <= key[m]
  BY <1>3, <1>6
<1>8. CASE r = {}
  <2>1. \A x \in s : x = y
    BY <1>8
  <2> QED
    BY <1>4, <1>5, <2>1
<1>9. CASE r # {}
  <2>1. PICK m \in r : \A x \in r : key[x] <= key[m]
    BY <1>7, <1>9
  <2>2. m \in s /\ key[m] \in Int /\ key[y] \in Int /\ \A x \in s : x = y \/ key[x] <= key[m]
    BY <1>4, <2>1
  <2>3. CASE key[y] <= key[m]
    BY <1>4, <2>2, <2>3
  <2>4. CASE ~(key[y] <= key[m])
    <3>1. \A x \in s : key[x] <= key[y]
      BY <1>4, <2>2, <2>4
    <3> QED
      BY <1>4, <3>1
  <2> QED
    BY <2>3, <2>4
<1> QED
  BY <1>8, <1>9

(* A finite set of integers has a least element, and a greatest.              *)
LEMMA HasLeast ==
  ASSUME NEW S, IsFiniteSet(S), S # {}, S \subseteq Int
  PROVE  \E m \in S : \A x \in S : m <= x
<1> DEFINE key == [x \in S |-> 0 - x]
<1>1. \A x \in S : key[x] \in Int /\ key[x] = 0 - x
  OBVIOUS
<1> HIDE DEF key
<1>2. PICK m \in S : \A x \in S : key[x] <= key[m]
  BY <1>1, HasMost
<1> QED
  BY <1>1, <1>2

LEMMA HasGreatest ==
  ASSUME NEW S, IsFiniteSet(S), S # {}, S \subseteq Int
  PROVE  \E m \in S : \A x \in S : x <= m
<1> DEFINE key == [x \in S |-> x]
<1>1. \A x \in S : key[x] \in Int /\ key[x] = x
  OBVIOUS
<1> HIDE DEF key
<1>2. PICK m \in S : \A x \in S : key[x] <= key[m]
  BY <1>1, HasMost
<1> QED
  BY <1>1, <1>2

(* Finite sets in an order.                                                  *)

SortedBy(s, S, R) ==
  /\ s \in [1 .. Cardinality(S) -> S]
  /\ IsInjective(s) /\ \A i, j \in DOMAIN s : i < j => <<s[i], s[j]>> \in R

Orders(R, S) ==
  /\ \A x, y \in S : <<x, y>> \in R \/ <<y, x>> \in R
  /\ \A x, y, z \in S : <<x, y>> \in R /\ <<y, z>> \in R => <<x, z>> \in R

(* Some element is after every other.                                         *)
LEMMA HasLast ==
  ASSUME NEW S, IsFiniteSet(S), S # {}, NEW R, Orders(R, S)
  PROVE  \E m \in S : \A x \in S : <<x, m>> \in R
<1> DEFINE T == {s \in SUBSET S : s # {} /\ ~\E m \in s : \A x \in s : <<x, m>> \in R}
<1>1. SUFFICES ASSUME T # {}
               PROVE  FALSE
  OBVIOUS
<1>2. T \subseteq FiniteSubsetsOf(S)
  BY FS_FiniteSubsetsOfFinite
<1>3. PICK s \in T : \A r \in T : ~(<<r, s>> \in StrictSubsetOrdering(S))
  <2> HIDE DEF T
  <2> QED
    BY <1>1, <1>2, FS_StrictSubsetOrderingWellFounded, WFMin
<1>4. s \subseteq S /\ s # {} /\ ~\E m \in s : \A x \in s : <<x, m>> \in R
  OBVIOUS
<1>5. PICK y \in s : TRUE
  BY <1>4
<1> DEFINE r == s \ {y}
<1>6. <<r, s>> \in StrictSubsetOrdering(S) /\ r \in SUBSET S
  BY <1>4 DEF StrictSubsetOrdering
<1>7. r = {} \/ \E m \in r : \A x \in r : <<x, m>> \in R
  BY <1>3, <1>6
<1>8. CASE r = {}
  <2>1. \A x \in s : x = y
    BY <1>8
  <2>2. <<y, y>> \in R
    BY <1>4, <1>5 DEF Orders
  <2> QED
    BY <1>4, <1>5, <2>1, <2>2
<1>9. CASE r # {}
  <2>1. PICK m \in r : \A x \in r : <<x, m>> \in R
    BY <1>7, <1>9
  <2>2. m \in s /\ m \in S /\ y \in S /\ <<y, y>> \in R /\ \A x \in s : x = y \/ <<x, m>> \in R
    BY <1>4, <2>1 DEF Orders
  <2>3. CASE <<y, m>> \in R
    BY <1>4, <2>2, <2>3
  <2>4. CASE <<m, y>> \in R
    <3>1. \A x \in s : <<x, y>> \in R
      BY <1>4, <2>2, <2>4 DEF Orders
    <3> QED
      BY <1>4, <3>1
  <2> QED
    BY <2>2, <2>3, <2>4 DEF Orders
<1> QED
  BY <1>8, <1>9

(* Take out what is after the rest, and put it at the end of them.            *)
LEMMA SortExists ==
  ASSUME NEW S, IsFiniteSet(S), NEW R, Orders(R, S)
  PROVE  \E s : SortedBy(s, S, R)
<1> DEFINE Bad == {U \in SUBSET S : ~\E s : SortedBy(s, U, R)}
<1>1. SUFFICES ASSUME Bad # {}
               PROVE  FALSE
  OBVIOUS
<1>2. Bad \subseteq FiniteSubsetsOf(S)
  BY FS_FiniteSubsetsOfFinite
<1>3. PICK U \in Bad : \A V \in Bad : ~(<<V, U>> \in StrictSubsetOrdering(S))
  <2> HIDE DEF Bad
  <2> QED
    BY <1>1, <1>2, FS_StrictSubsetOrderingWellFounded, WFMin
<1>4. U \subseteq S /\ IsFiniteSet(U) /\ ~\E s : SortedBy(s, U, R)
  <2>1. U \subseteq S /\ ~\E s : SortedBy(s, U, R)
    OBVIOUS
  <2> QED
    BY <2>1, FS_Subset
<1> DEFINE n == Cardinality(U)
<1>5. n \in Nat
  BY <1>4, FS_CardinalityType
<1>6. CASE U = {}
  <2>1. n = 0
    BY <1>6, FS_EmptySet
  <2> DEFINE s == [i \in 1 .. 0 |-> i]
  <2>2. s \in [1 .. 0 -> U] /\ DOMAIN s = {}
    OBVIOUS
  <2> HIDE DEF s
  <2>3. SortedBy(s, U, R)
    BY <2>1, <2>2 DEF SortedBy, IsInjective
  <2> QED
    BY <1>4, <2>3
<1>7. CASE U # {}
  <2>1. Orders(R, U)
    BY <1>4 DEF Orders
  <2>2. PICK m \in U : \A x \in U : <<x, m>> \in R
    BY <1>4, <1>7, <2>1, HasLast
  <2> DEFINE V == U \ {m}
  <2>3. <<V, U>> \in StrictSubsetOrdering(S) /\ V \in SUBSET S
    BY <1>4 DEF StrictSubsetOrdering
  <2>4. PICK r : SortedBy(r, V, R)
    BY <1>3, <2>3
  <2>5. Cardinality(V) = n - 1 /\ n - 1 \in Nat
    <3>1. IsFiniteSet(V) /\ Cardinality(V) = n - 1
      BY <1>4, FS_RemoveElement
    <3> QED
      BY <3>1, FS_CardinalityType
  <2> HIDE DEF n
  <2>6. /\ r \in [1 .. n - 1 -> V] /\ \A i, j \in 1 .. n - 1 : r[i] = r[j] => i = j
        /\ \A i, j \in 1 .. n - 1 : i < j => <<r[i], r[j]>> \in R
    BY <2>4, <2>5 DEF SortedBy, IsInjective
  <2> DEFINE s == [i \in 1 .. n |-> IF i = n THEN m ELSE r[i]]
  <2>7. n \in 1 .. n /\ s[n] = m /\ \A i \in 1 .. n - 1 : s[i] = r[i] /\ r[i] \in V
    BY <1>5, <2>5, <2>6
  <2>8. \A i \in 1 .. n : i = n \/ i \in 1 .. n - 1
    BY <1>5
  <2>9. s \in [1 .. n -> U]
    BY <2>6, <2>8
  <2>10. DOMAIN s = 1 .. n
    OBVIOUS
  <2> HIDE DEF s
  <2>11. \A i, j \in 1 .. n : s[i] = s[j] => i = j
    BY <2>6, <2>7, <2>8
  <2>12. \A i, j \in 1 .. n : i < j => <<s[i], s[j]>> \in R
    <3> TAKE i, j \in 1 .. n
    <3> HAVE i < j
    <3>1. i \in 1 .. n - 1
      BY <1>5
    <3>2. CASE j = n
      BY <2>2, <2>7, <3>1, <3>2
    <3>3. CASE j # n
      BY <2>6, <2>7, <2>8, <3>1, <3>3
    <3> QED
      BY <3>2, <3>3
  <2>13. SortedBy(s, U, R)
    BY <2>9, <2>10, <2>11, <2>12 DEF SortedBy, IsInjective, n
  <2> QED
    BY <1>4, <2>13
<1> QED
  BY <1>6, <1>7

Ordered(s, S) ==
  /\ s \in [1 .. Cardinality(S) -> S]
  /\ IsInjective(s) /\ \A i, j \in DOMAIN s : i < j => s[i].from <= s[j].from

(* A finite set of intervals can be put in the order they begin.              *)
LEMMA OrderExists ==
  ASSUME NEW S, IsFiniteSet(S), \A x \in S : x.from \in Int
  PROVE  \E s : Ordered(s, S)
<1> DEFINE R == {e \in S \X S : e[1].from <= e[2].from}
<1>1. \A x, y \in S : <<x, y>> \in R <=> x.from <= y.from
  OBVIOUS
<1> HIDE DEF R
<1>2. Orders(R, S)
  BY <1>1 DEF Orders
<1>3. PICK s : SortedBy(s, S, R)
  BY <1>2, SortExists
<1>4. Ordered(s, S)
  BY <1>1, <1>3 DEF SortedBy, Ordered
<1> QED
  BY <1>4

(* So InOrder lists every element once.                                       *)
LEMMA InOrderIs ==
  ASSUME NEW S, IsFiniteSet(S), \A x \in S : x.from \in Int
  PROVE  LET s == InOrder(S)  n == Cardinality(S) IN
         /\ n \in Nat /\ s \in [1 .. n -> S] /\ s \in Seq(S) /\ Len(s) = n /\ DOMAIN s = 1 .. n
         /\ \A i, j \in 1 .. n : i < j => s[i].from <= s[j].from
         /\ \A i, j \in 1 .. n : s[i] = s[j] => i = j
         /\ \A x \in S : \E i \in 1 .. n : s[i] = x
<1> DEFINE n == Cardinality(S)
<1>1. n \in Nat
  BY FS_CardinalityType
<1>2. Ordered(InOrder(S), S)
  <2>1. InOrder(S) = CHOOSE s \in [1 .. Cardinality(S) -> S] :
                       IsInjective(s) /\ \A i, j \in DOMAIN s : i < j => s[i].from <= s[j].from
    BY DEF InOrder
  <2>2. \E s \in [1 .. Cardinality(S) -> S] :
          IsInjective(s) /\ \A i, j \in DOMAIN s : i < j => s[i].from <= s[j].from
    BY OrderExists DEF Ordered
  <2> QED
    BY <2>1, <2>2 DEF Ordered
<1>3. PICK s : s = InOrder(S)
  OBVIOUS
<1>4. /\ s \in [1 .. n -> S]
      /\ \A i, j \in 1 .. n : s[i] = s[j] => i = j
      /\ \A i, j \in 1 .. n : i < j => s[i].from <= s[j].from
  BY <1>2, <1>3 DEF Ordered, IsInjective
<1> HIDE DEF n
<1>5. s \in Injection(1 .. n, S)
  BY <1>4 DEF Injection, IsInjective
<1>6. Cardinality(1 .. n) = n
  BY <1>1, FS_Interval
<1>7. s \in Surjection(1 .. n, S)
  BY <1>5, <1>6, FS_Injection DEF n
<1>8. \A x \in S : \E i \in 1 .. n : s[i] = x
  BY <1>7 DEF Surjection
<1>9. s \in Seq(S) /\ Len(s) = n /\ DOMAIN s = 1 .. n
  BY <1>1, <1>4
<1> QED
  BY <1>1, <1>3, <1>4, <1>8, <1>9 DEF n

-----------------------------------------------------------------------------
(* The sweep.                                                                *)

(* One step of MergedDuration.                                                *)
Grow(sweep, g) ==
  IF g.from <= sweep.span.to THEN [sweep EXCEPT !.span.to = Later(@, g.to)]
  ELSE [total |-> sweep.total + sweep.span.to - sweep.span.from, span |-> g]

(* The recursion the fold is made of takes the last element out first.         *)
FoldedOver(f, n, start, seq) ==
  f = [s \in SUBSET (1 .. n) |-> IF s = {} THEN start ELSE Grow(f[s \ {Max(s)}], seq[Max(s)])]

(* The last of the first n is the greatest of them.                           *)
LEMMA LastIsMost ==
  ASSUME NEW n \in Nat, NEW s \in SUBSET (1 .. n), n \in s
  PROVE  Max(s) = n
<1>1. \A x \in s : x \in Int /\ n >= x
  OBVIOUS
<1>2. Max(s) \in s /\ Max(s) >= n
  BY <1>1 DEF Max
<1>3. PICK m : m = Max(s)
  OBVIOUS
<1>4. m \in Int /\ n >= m /\ m >= n
  BY <1>1, <1>2, <1>3
<1> QED
  BY <1>3, <1>4

(* That recursion has a solution.                                             *)
LEMMA FoldExists ==
  ASSUME NEW last \in Nat, NEW start, NEW seq
  PROVE  \E f : FoldedOver(f, last, start, seq)
<1> DEFINE Missing == {n \in Nat : ~\E f : FoldedOver(f, n, start, seq)}
<1>1. SUFFICES ASSUME Missing # {}
               PROVE  FALSE
  OBVIOUS
<1>2. PICK n \in Missing : \A m \in Missing : ~(<<m, n>> \in OpToRel(<, Nat))
  <2>1. Missing \subseteq Nat
    OBVIOUS
  <2> HIDE DEF Missing
  <2> QED
    BY <1>1, <2>1, NatLessThanWellFounded, WFMin
<1>3. n \in Nat /\ ~\E f : FoldedOver(f, n, start, seq)
  OBVIOUS
<1>4. CASE n = 0
  <2> DEFINE f == [s \in SUBSET (1 .. n) |-> start]
  <2>1. \A s \in SUBSET (1 .. n) : s = {}
    BY <1>4
  <2>2. f = [s \in SUBSET (1 .. n) |-> IF s = {} THEN start ELSE Grow(f[s \ {Max(s)}], seq[Max(s)])]
    BY <2>1
  <2> QED
    BY <1>3, <2>2 DEF FoldedOver
<1>5. CASE n # 0
  <2>1. n - 1 \in Nat /\ <<n - 1, n>> \in OpToRel(<, Nat)
    BY <1>3, <1>5 DEF OpToRel
  <2>2. PICK g : FoldedOver(g, n - 1, start, seq)
    BY <1>2, <2>1
  <2> DEFINE f == [s \in SUBSET (1 .. n) |-> IF n \in s THEN Grow(g[s \ {n}], seq[n]) ELSE g[s]]
  <2>3. ASSUME NEW s \in SUBSET (1 .. n)
        PROVE  f[s] = IF s = {} THEN start ELSE Grow(f[s \ {Max(s)}], seq[Max(s)])
    <3>1. CASE n \in s
      <4>1. Max(s) = n /\ s # {}
        BY <1>3, <3>1, LastIsMost
      <4>2. s \ {n} \in SUBSET (1 .. n)
        OBVIOUS
      <4>3. f[s \ {n}] = g[s \ {n}]
        BY <4>2
      <4>4. f[s] = Grow(g[s \ {n}], seq[n])
        BY <3>1
      <4> HIDE DEF f
      <4> QED
        BY <4>1, <4>3, <4>4
    <3>2. CASE n \notin s
      <4>1. s \in SUBSET (1 .. n - 1)
        BY <1>3, <3>2
      <4>2. g[s] = IF s = {} THEN start ELSE Grow(g[s \ {Max(s)}], seq[Max(s)])
        BY <2>2, <4>1 DEF FoldedOver
      <4>3. s \ {Max(s)} \in SUBSET (1 .. n) /\ n \notin s \ {Max(s)}
        BY <3>2
      <4>4. f[s] = g[s] /\ f[s \ {Max(s)}] = g[s \ {Max(s)}]
        BY <3>2, <4>3
      <4> HIDE DEF f
      <4> QED
        BY <4>2, <4>4
    <3> QED
      BY <3>1, <3>2
  <2>4. f = [s \in SUBSET (1 .. n) |-> f[s]]
    OBVIOUS
  <2> HIDE DEF f
  <2>5. f = [s \in SUBSET (1 .. n) |-> IF s = {} THEN start ELSE Grow(f[s \ {Max(s)}], seq[Max(s)])]
    BY <2>3, <2>4
  <2>6. FoldedOver(f, n, start, seq)
    BY <2>5 DEF FoldedOver
  <2> QED
    BY <1>3, <2>6
<1> QED
  BY <1>4, <1>5

(* What the sweep has seen after each of the intervals that follow the first.  *)
Swept(w, n, start, seq) == \A k \in 0 .. n : w[k] = IF k = 0 THEN start ELSE Grow(w[k - 1], seq[k])

(* A solution, read at the first k intervals, is the sweep.                   *)
LEMMA FoldSweeps ==
  ASSUME NEW n \in Nat, NEW start, NEW seq, NEW f, FoldedOver(f, n, start, seq)
  PROVE  Swept([k \in 0 .. n |-> f[1 .. k]], n, start, seq)
<1> DEFINE w == [k \in 0 .. n |-> f[1 .. k]]
<1>1. ASSUME NEW k \in 0 .. n
      PROVE  w[k] = IF k = 0 THEN start ELSE Grow(w[k - 1], seq[k])
  <2>1. 1 .. k \in SUBSET (1 .. n)
    OBVIOUS
  <2>2. f[1 .. k] = IF 1 .. k = {} THEN start ELSE Grow(f[(1 .. k) \ {Max(1 .. k)}], seq[Max(1 .. k)])
    BY <2>1 DEF FoldedOver
  <2>3. CASE k = 0
    <3>1. 1 .. k = {}
      BY <2>3
    <3> QED
      BY <2>2, <2>3, <3>1
  <2>4. CASE k # 0
    <3>1. k \in 1 .. k /\ k \in Nat
      BY <2>4
    <3>2. 1 .. k # {}
      BY <3>1
    <3>3. Max(1 .. k) = k
      BY <3>1, LastIsMost
    <3>4. (1 .. k) \ {k} = 1 .. (k - 1) /\ k - 1 \in 0 .. n
      BY <3>1
    <3>5. w[k] = f[1 .. k] /\ w[k - 1] = f[1 .. (k - 1)]
      BY <3>4
    <3> HIDE DEF w
    <3>6. f[1 .. k] = Grow(f[1 .. (k - 1)], seq[k])
      BY <2>2, <3>2, <3>3, <3>4
    <3> QED
      BY <2>4, <3>5, <3>6
  <2> QED
    BY <2>3, <2>4
<1> QED
  BY <1>1 DEF Swept

(* What has been counted, with the span that is open.                         *)
Spent(sweep) == sweep.total + sweep.span.to - sweep.span.from

(* What is merged is what the sweep has spent at the end.                     *)
LEMMA MergedSweeps ==
  ASSUME NEW S, NEW sorted \in Seq(S), sorted # <<>>
  PROVE  \E w : /\ Swept(w, Len(sorted) - 1, [total |-> 0, span |-> sorted[1]], Tail(sorted))
                /\ MergedDuration(sorted) = Spent(w[Len(sorted) - 1])
<1> DEFINE n == Len(sorted) - 1
<1> DEFINE seq == Tail(sorted)
<1> DEFINE start == [total |-> 0, span |-> sorted[1]]
<1> DEFINE Iterates(f) == f = [s \in SUBSET (DOMAIN seq) |->
                                 IF s = {} THEN start ELSE Grow(f[s \ {Max(s)}], seq[Max(s)])]
<1> DEFINE iter == CHOOSE f : Iterates(f)
<1>1. n \in Nat /\ DOMAIN seq = 1 .. n
  OBVIOUS
<1>2. MergedDuration(sorted) = Spent(iter[DOMAIN seq])
  BY DEF MergedDuration, FoldLeft, MapThenFoldSet, Grow, Spent
<1>3. \E f : FoldedOver(f, n, start, seq)
  BY <1>1, FoldExists
<1>4. \A f : FoldedOver(f, n, start, seq) <=> Iterates(f)
  BY <1>1 DEF FoldedOver
<1>5. Iterates(iter)
  BY <1>3, <1>4
<1> HIDE DEF iter, Iterates, start, seq
<1>6. FoldedOver(iter, n, start, seq)
  BY <1>4, <1>5
<1> DEFINE w == [k \in 0 .. n |-> iter[1 .. k]]
<1>7. Swept(w, n, start, seq)
  BY <1>1, <1>6, FoldSweeps
<1>8. w[n] = iter[DOMAIN seq]
  BY <1>1
<1> HIDE DEF w, n
<1>9. MergedDuration(sorted) = Spent(w[n])
  BY <1>2, <1>8
<1> QED
  BY <1>7, <1>9 DEF start, seq, n

(* Intervals and sweeps, by their fields.                                     *)
IntervalFields == {"from", "to"}
IsInterval(g) == /\ g = [f \in IntervalFields |-> g[f]]
                 /\ g.from \in Int /\ g.to \in Int /\ g.from < g.to
SweepFields == {"total", "span"}
IsSweep(x) == x = [f \in SweepFields |-> x[f]] /\ x.total \in Int /\ IsInterval(x.span)

(* The hours of the first k intervals.                                         *)
Seen(sorted, k) == {t \in Int : \E i \in 1 .. k : sorted[i].from <= t /\ t < sorted[i].to}

(* The sweep has spent as many hours as the first k intervals cover; its span *)
(* is the last stretch of them, and nothing covered is later.                 *)
SweepInv(x, sorted, k) ==
  /\ IsSweep(x) /\ x.span.from <= sorted[k].from
  /\ IsFiniteSet(Seen(sorted, k)) /\ Spent(x) = Cardinality(Seen(sorted, k))
  /\ \A t \in Seen(sorted, k) : t < x.span.to
  /\ \A t \in Int : x.span.from <= t /\ t < x.span.to => t \in Seen(sorted, k)

InRow(sorted, n) ==
  /\ \A i \in 1 .. n : IsInterval(sorted[i])
  /\ \A i, j \in 1 .. n : i < j => sorted[i].from <= sorted[j].from

(* The fields of a sweep that has grown.                                      *)
LEMMA GrowIs ==
  ASSUME NEW x, NEW g, IsSweep(x), IsInterval(g)
  PROVE  /\ IsSweep(Grow(x, g))
         /\ g.from <= x.span.to => /\ Grow(x, g).total = x.total /\ Grow(x, g).span.from = x.span.from
                                   /\ Grow(x, g).span.to = Later(x.span.to, g.to)
         /\ ~(g.from <= x.span.to) => Grow(x, g).total = Spent(x) /\ Grow(x, g).span = g
<1> DEFINE y == Grow(x, g)
<1>1. x.total \in Int /\ x.span.from \in Int /\ x.span.to \in Int /\ x.span.from < x.span.to
  BY DEF IsSweep, IsInterval
<1>2. g.from \in Int /\ g.to \in Int /\ g.from < g.to
  BY DEF IsInterval
<1>3. CASE g.from <= x.span.to
  <2>1. y = [x EXCEPT !.span.to = Later(@, g.to)]
    BY <1>3 DEF Grow
  <2>2. y = [f \in SweepFields |-> IF f = "span" THEN [x.span EXCEPT !.to = Later(@, g.to)] ELSE x[f]]
    BY <2>1 DEF IsSweep, SweepFields
  <2> HIDE DEF y
  <2>3. y.total = x.total /\ y.span = [x.span EXCEPT !.to = Later(@, g.to)]
    BY <2>2 DEF SweepFields
  <2>4. y.span = [f \in IntervalFields |-> IF f = "to" THEN Later(x.span.to, g.to) ELSE x.span[f]]
    BY <2>3 DEF IsSweep, IsInterval, IntervalFields
  <2>5. y.span.from = x.span.from /\ y.span.to = Later(x.span.to, g.to)
    BY <2>4 DEF IntervalFields
  <2>6. y = [f \in SweepFields |-> y[f]]
    BY <2>2
  <2>7. y.span = [f \in IntervalFields |-> y.span[f]]
    BY <2>4
  <2>8. IsSweep(y)
    <3>1. y.span.from \in Int /\ y.span.to \in Int /\ y.span.from < y.span.to
      BY <1>1, <1>2, <2>5 DEF Later
    <3>2. IsInterval(y.span)
      BY <2>7, <3>1 DEF IsInterval
    <3> QED
      BY <1>1, <2>3, <2>6, <3>2 DEF IsSweep
  <2> QED
    BY <1>3, <2>3, <2>5, <2>8 DEF y
<1>4. CASE ~(g.from <= x.span.to)
  <2>1. y = [total |-> Spent(x), span |-> g]
    BY <1>4 DEF Grow, Spent
  <2> HIDE DEF y
  <2>2. y.total = Spent(x) /\ y.span = g /\ y = [f \in SweepFields |-> y[f]]
    BY <2>1 DEF SweepFields
  <2>3. Spent(x) \in Int
    BY <1>1 DEF Spent
  <2>4. IsSweep(y)
    BY <2>2, <2>3 DEF IsSweep
  <2> QED
    BY <1>4, <2>2, <2>4 DEF y
<1> QED
  BY <1>3, <1>4

(* The next interval adds the hours that are new, since it begins no earlier  *)
(* than the span.                                                             *)
LEMMA GrowKeeps ==
  ASSUME NEW n \in Nat, NEW sorted, InRow(sorted, n), NEW k \in 1 .. n, k + 1 \in 1 .. n,
         NEW x, SweepInv(x, sorted, k)
  PROVE  SweepInv(Grow(x, sorted[k + 1]), sorted, k + 1)
<1> DEFINE g == sorted[k + 1]
<1> DEFINE y == Grow(x, g)
<1> DEFINE old == Seen(sorted, k)
<1> DEFINE new == Seen(sorted, k + 1)
<1>1. IsInterval(g) /\ g.from \in Int /\ g.to \in Int /\ g.from < g.to /\ sorted[k].from <= g.from
      /\ sorted[k].from \in Int
  <2>1. k < k + 1
    OBVIOUS
  <2>2. IsInterval(g) /\ IsInterval(sorted[k]) /\ sorted[k].from <= g.from
    BY <2>1 DEF InRow
  <2> QED
    BY <2>2 DEF IsInterval
<1>2. /\ IsSweep(x) /\ x.span.from <= sorted[k].from /\ IsFiniteSet(old) /\ Spent(x) = Cardinality(old)
      /\ \A t \in old : t < x.span.to
      /\ \A t \in Int : x.span.from <= t /\ t < x.span.to => t \in old
  BY DEF SweepInv
<1>3. x.total \in Int /\ x.span.from \in Int /\ x.span.to \in Int /\ x.span.from < x.span.to
  BY <1>2 DEF IsSweep, IsInterval
<1>4. \A t \in Int : t \in new <=> t \in old \/ (g.from <= t /\ t < g.to)
  <2>1. \A i : i \in 1 .. k + 1 <=> i \in 1 .. k \/ i = k + 1
    OBVIOUS
  <2> QED
    BY <2>1 DEF Seen
<1>5. old \subseteq Int /\ new \subseteq Int
  BY DEF Seen
<1>6. IsSweep(y)
  BY <1>1, <1>2, GrowIs
<1>7. CASE g.from <= x.span.to
  <2>1. y.total = x.total /\ y.span.from = x.span.from /\ y.span.to = Later(x.span.to, g.to)
    BY <1>1, <1>2, <1>7, GrowIs
  <2> DEFINE top == Later(x.span.to, g.to)
  <2>2. top \in Int /\ x.span.to <= top /\ g.to <= top /\ (top = x.span.to \/ top = g.to)
    BY <1>1, <1>3 DEF Later
  <2> HIDE DEF top, y, old, new, g
  <2> DEFINE more == x.span.to .. top - 1
  <2>3. old \cap more = {}
    BY <1>2, <1>3, <1>5, <2>2
  <2>4. new = old \cup more
    <3>1. ASSUME NEW t \in new
          PROVE  t \in old \cup more
      <4>1. CASE t \in old
        BY <4>1
      <4>2. CASE t \notin old
        <5>1. t \in Int /\ g.from <= t /\ t < g.to
          BY <1>4, <1>5, <3>1, <4>2
        <5>2. ~(t < x.span.to)
          BY <1>1, <1>2, <1>3, <4>2, <5>1
        <5> QED
          BY <1>1, <1>3, <2>2, <5>1, <5>2
      <4> QED
        BY <4>1, <4>2
    <3>2. ASSUME NEW t \in more
          PROVE  t \in new
      <4>1. t \in Int /\ x.span.to <= t /\ t < top
        BY <1>3, <2>2
      <4>2. g.from <= t /\ t < g.to
        BY <1>1, <1>3, <1>7, <2>2, <4>1
      <4> QED
        BY <1>4, <4>1, <4>2
    <3>3. old \subseteq new
      BY <1>4, <1>5
    <3> QED
      BY <3>1, <3>2, <3>3
  <2>5. IsFiniteSet(more) /\ Cardinality(more) = top - x.span.to
    <3>1. /\ IsFiniteSet(more)
          /\ Cardinality(more) = IF x.span.to > top - 1 THEN 0 ELSE (top - 1) - x.span.to + 1
      <4>1. x.span.to \in Int /\ top - 1 \in Int
        BY <1>3, <2>2
      <4> QED
        BY <4>1, FS_Interval
    <3> QED
      BY <1>3, <2>2, <3>1
  <2> HIDE DEF more
  <2>6. IsFiniteSet(new) /\ Cardinality(new) = Cardinality(old) + Cardinality(more)
    BY <1>2, <2>3, <2>4, <2>5, DisjointUnion
  <2>7. Spent(x) \in Int /\ Spent(y) = Spent(x) + (top - x.span.to)
    BY <1>3, <2>1, <2>2 DEF Spent, top
  <2>8. Spent(y) = Cardinality(new)
    BY <1>2, <2>5, <2>6, <2>7
  <2>9. y.span.from <= g.from
    BY <1>1, <1>2, <1>3, <2>1
  <2>10. \A t \in new : t < y.span.to
    <3> TAKE t \in new
    <3>1. t \in Int /\ (t < x.span.to \/ t < g.to)
      BY <1>2, <1>4, <1>5
    <3> QED
      BY <1>1, <1>3, <2>1, <2>2, <3>1 DEF top
  <2>11. ASSUME NEW t \in Int, y.span.from <= t, t < y.span.to
         PROVE  t \in new
    <3>1. x.span.from <= t /\ t < top
      BY <2>1, <2>11 DEF top
    <3>2. CASE t < x.span.to
      BY <1>2, <1>4, <3>1, <3>2
    <3>3. CASE ~(t < x.span.to)
      <4>1. t < g.to /\ g.from <= t
        BY <1>1, <1>3, <1>7, <2>2, <3>1, <3>3
      <4> QED
        BY <1>4, <4>1
    <3> QED
      BY <3>2, <3>3
  <2> QED
    BY <1>6, <2>6, <2>8, <2>9, <2>10, <2>11 DEF SweepInv, y, new, g
<1>8. CASE ~(g.from <= x.span.to)
  <2>1. y.total = Spent(x) /\ y.span = g
    BY <1>1, <1>2, <1>8, GrowIs
  <2> HIDE DEF y, old, new, g
  <2> DEFINE more == g.from .. g.to - 1
  <2>2. old \cap more = {}
    BY <1>1, <1>2, <1>3, <1>5, <1>8
  <2>3. new = old \cup more
    <3>1. \A t \in Int : t \in more <=> g.from <= t /\ t < g.to
      BY <1>1
    <3> HIDE DEF more
    <3>2. \A t \in Int : t \in new <=> t \in old \/ t \in more
      BY <1>4, <3>1
    <3>3. more \subseteq Int
      BY DEF more
    <3> QED
      BY <1>5, <3>2, <3>3
  <2>4. IsFiniteSet(more) /\ Cardinality(more) = g.to - g.from
    <3>1. IsFiniteSet(more) /\ Cardinality(more) = IF g.from > g.to - 1 THEN 0 ELSE (g.to - 1) - g.from + 1
      <4>1. g.from \in Int /\ g.to - 1 \in Int
        BY <1>1
      <4> QED
        BY <4>1, FS_Interval
    <3> QED
      BY <1>1, <3>1
  <2> HIDE DEF more
  <2>5. IsFiniteSet(new) /\ Cardinality(new) = Cardinality(old) + Cardinality(more)
    BY <1>2, <2>2, <2>3, <2>4, DisjointUnion
  <2>6. Spent(x) \in Int
    BY <1>3 DEF Spent
  <2>7. Spent(y) = Spent(x) + (g.to - g.from)
    BY <1>1, <2>1, <2>6 DEF Spent
  <2>8. Spent(y) = Cardinality(new)
    BY <1>2, <2>4, <2>5, <2>7
  <2>9. \A t \in new : t < y.span.to
    <3> TAKE t \in new
    <3>1. t \in Int /\ (t < x.span.to \/ t < g.to)
      BY <1>2, <1>4, <1>5
    <3> QED
      BY <1>1, <1>3, <1>8, <2>1, <3>1
  <2>10. \A t \in Int : y.span.from <= t /\ t < y.span.to => t \in new
    BY <1>4, <2>1
  <2>11. y.span.from <= g.from
    BY <1>1, <2>1
  <2> QED
    BY <1>6, <2>5, <2>8, <2>9, <2>10, <2>11 DEF SweepInv, y, new, g
<1> QED
  BY <1>7, <1>8

(* The first interval alone.                                                  *)
LEMMA SweepBegins ==
  ASSUME NEW n \in Nat \ {0}, NEW sorted, InRow(sorted, n)
  PROVE  SweepInv([total |-> 0, span |-> sorted[1]], sorted, 1)
<1> DEFINE x == [total |-> 0, span |-> sorted[1]]
<1>1. x.total = 0 /\ x.span = sorted[1] /\ x = [f \in SweepFields |-> x[f]]
  BY DEF SweepFields
<1> HIDE DEF x
<1> DEFINE g == sorted[1]
<1>2. IsInterval(g) /\ g.from \in Int /\ g.to \in Int /\ g.to - 1 \in Int /\ g.from < g.to
  BY DEF InRow, IsInterval
<1> HIDE DEF g
<1>3. Seen(sorted, 1) = g.from .. g.to - 1
  <2>1. \A t : t \in Seen(sorted, 1) <=> t \in Int /\ g.from <= t /\ t < g.to
    BY DEF Seen, g
  <2>2. \A t : t \in g.from .. g.to - 1 <=> t \in Int /\ g.from <= t /\ t < g.to
    BY <1>2
  <2> QED
    BY <2>1, <2>2
<1>4. /\ IsFiniteSet(g.from .. g.to - 1)
      /\ Cardinality(g.from .. g.to - 1) = IF g.from > g.to - 1 THEN 0 ELSE (g.to - 1) - g.from + 1
  BY <1>2, FS_Interval
<1>5. IsFiniteSet(Seen(sorted, 1)) /\ Cardinality(Seen(sorted, 1)) = g.to - g.from
  BY <1>2, <1>3, <1>4
<1>6. Spent(x) = g.to - g.from
  BY <1>1, <1>2 DEF Spent, g
<1>7. IsSweep(x)
  BY <1>1, <1>2 DEF IsSweep, g
<1>8. x.span = g
  BY <1>1 DEF g
<1>9. SweepInv(x, sorted, 1)
  BY <1>2, <1>3, <1>5, <1>6, <1>7, <1>8 DEF SweepInv, g
<1> QED
  BY <1>9 DEF x

(* The sum is the number of hours that some interval covers.                  *)
LEMMA MergedIsUnion ==
  ASSUME NEW S, NEW sorted \in Seq(S), sorted # <<>>, InRow(sorted, Len(sorted))
  PROVE  MergedDuration(sorted) = Cardinality(Seen(sorted, Len(sorted)))
<1> DEFINE n == Len(sorted)
<1> DEFINE seq == Tail(sorted)
<1> DEFINE start == [total |-> 0, span |-> sorted[1]]
<1>1. n \in Nat \ {0} /\ \A k \in 1 .. n - 1 : seq[k] = sorted[k + 1]
  OBVIOUS
<1>2. PICK w : Swept(w, n - 1, start, seq) /\ MergedDuration(sorted) = Spent(w[n - 1])
  BY MergedSweeps
<1>3. SweepInv(start, sorted, 1)
  BY <1>1, SweepBegins
<1> HIDE DEF n, seq, start
<1> DEFINE Bad == {k \in Nat : k \in 0 .. n - 1 /\ ~SweepInv(w[k], sorted, k + 1)}
<1>4. Bad = {}
  <2> SUFFICES ASSUME Bad # {}
               PROVE  FALSE
    OBVIOUS
  <2>1. PICK k \in Bad : \A m \in Bad : ~(<<m, k>> \in OpToRel(<, Nat))
    <3>1. Bad \subseteq Nat
      OBVIOUS
    <3> HIDE DEF Bad
    <3> QED
      BY <3>1, NatLessThanWellFounded, WFMin
  <2>2. k \in Nat /\ k \in 0 .. n - 1 /\ ~SweepInv(w[k], sorted, k + 1)
    OBVIOUS
  <2>3. w[k] = IF k = 0 THEN start ELSE Grow(w[k - 1], seq[k])
    BY <1>2, <2>2 DEF Swept
  <2>4. CASE k = 0
    <3>1. w[k] = start /\ k + 1 = 1
      BY <2>3, <2>4
    <3> QED
      BY <1>3, <2>2, <3>1
  <2>5. CASE k # 0
    <3>1. k - 1 \in Nat /\ k - 1 \in 0 .. n - 1 /\ <<k - 1, k>> \in OpToRel(<, Nat) /\ (k - 1) + 1 = k
          /\ k \in 1 .. n /\ k + 1 \in 1 .. n /\ n \in Nat
      BY <1>1, <2>2, <2>5 DEF OpToRel
    <3>2. SweepInv(w[k - 1], sorted, k)
      <4>1. k - 1 \notin Bad
        BY <2>1, <3>1
      <4>2. SweepInv(w[k - 1], sorted, (k - 1) + 1)
        BY <3>1, <4>1
      <4> QED
        BY <3>1, <4>2
    <3>3. w[k] = Grow(w[k - 1], sorted[k + 1])
      BY <1>1, <2>2, <2>3, <2>5
    <3>4. InRow(sorted, n)
      BY DEF n
    <3>5. SweepInv(w[k], sorted, k + 1)
      BY <3>1, <3>2, <3>3, <3>4, GrowKeeps
    <3> QED
      BY <2>2, <3>5
  <2> QED
    BY <2>4, <2>5
<1>5. SweepInv(w[n - 1], sorted, n)
  <2>1. n - 1 \in 0 .. n - 1 /\ n - 1 \in Nat /\ (n - 1) + 1 = n
    BY <1>1
  <2>2. SweepInv(w[n - 1], sorted, (n - 1) + 1)
    BY <1>4, <2>1
  <2> QED
    BY <2>1, <2>2
<1>6. Spent(w[n - 1]) = Cardinality(Seen(sorted, n))
  BY <1>5 DEF SweepInv
<1> QED
  BY <1>2, <1>6 DEF n

-----------------------------------------------------------------------------
(* What a window's gaps cost.                                                *)

Dark(db, w) == {t \in w.from .. (w.to - 1) : \E g \in db.gaps : g.from <= t /\ t < g.to}

(* Clipped to the window, the gaps cover what is dark in it.                  *)
LEMMA ClippedIs ==
  ASSUME NEW db, IsFiniteSet(db.gaps), \A g \in db.gaps : g.from \in Int /\ g.to \in Int,
         NEW w, w.from \in Int, w.to \in Int
  PROVE  LET gaps == Clipped(GapsOverlapping(db, w), w) IN
         /\ IsFiniteSet(gaps) /\ \A g \in gaps : IsInterval(g)
         /\ \A t : t \in Dark(db, w) <=> t \in Int /\ \E g \in gaps : g.from <= t /\ t < g.to
<1> DEFINE near == GapsOverlapping(db, w)
<1> DEFINE clip(h) == [from |-> Later(h.from, w.from), to |-> Earlier(h.to, w.to)]
<1> DEFINE f == [h \in near |-> clip(h)]
<1> DEFINE gaps == Clipped(near, w)
<1>1. near \subseteq db.gaps /\ IsFiniteSet(near)
  <2>1. near \subseteq db.gaps
    BY DEF GapsOverlapping
  <2> QED
    BY <2>1, FS_Subset
<1>2. \A g : g \in gaps <=> g.from < g.to /\ \E h \in near : g = clip(h)
  BY DEF Clipped
<1>3. \A h \in near : f[h] = clip(h)
  OBVIOUS
<1>4. \A h : /\ clip(h).from = Later(h.from, w.from) /\ clip(h).to = Earlier(h.to, w.to)
             /\ clip(h) = [e \in IntervalFields |-> clip(h)[e]]
  BY DEF IntervalFields
<1> HIDE DEF f, clip
<1>5. IsFiniteSet({f[h] : h \in near})
  BY <1>1, ImageIsFinite
<1>6. gaps \subseteq {f[h] : h \in near}
  BY <1>2, <1>3
<1>7. IsFiniteSet(gaps)
  BY <1>5, <1>6, FS_Subset
<1>8. \A h \in near : /\ h.from \in Int /\ h.to \in Int /\ h.from < w.to /\ h.to > w.from
  BY <1>1 DEF GapsOverlapping
<1> HIDE DEF gaps, near
<1>9. ASSUME NEW g \in gaps
      PROVE  IsInterval(g)
  <2>1. PICK h \in near : g = clip(h) /\ g.from < g.to
    BY <1>2
  <2>2. g.from \in Int /\ g.to \in Int
    BY <1>4, <1>8, <2>1 DEF Later, Earlier
  <2>3. g = [e \in IntervalFields |-> g[e]]
    BY <1>4, <2>1
  <2> QED
    BY <2>1, <2>2, <2>3 DEF IsInterval
<1>10. ASSUME NEW t \in Dark(db, w)
       PROVE  t \in Int /\ \E g \in gaps : g.from <= t /\ t < g.to
  <2>1. PICK h \in db.gaps : t \in Int /\ w.from <= t /\ t < w.to /\ h.from <= t /\ t < h.to
    BY DEF Dark
  <2>2. h \in near
    BY <2>1 DEF near, GapsOverlapping
  <2>3. clip(h).from <= t /\ t < clip(h).to /\ clip(h).from \in Int /\ clip(h).to \in Int
    BY <1>4, <1>8, <2>1, <2>2 DEF Later, Earlier
  <2>4. clip(h).from < clip(h).to
    BY <2>1, <2>3
  <2>5. clip(h) \in gaps
    BY <1>2, <2>2, <2>4
  <2> QED
    BY <2>1, <2>3, <2>5
<1>11. ASSUME NEW t \in Int, NEW g \in gaps, g.from <= t, t < g.to
       PROVE  t \in Dark(db, w)
  <2>1. PICK h \in near : g = clip(h)
    BY <1>2
  <2>2. h.from <= t /\ t < h.to /\ w.from <= t /\ t < w.to
    BY <1>4, <1>8, <1>11, <2>1 DEF Later, Earlier
  <2>3. t \in w.from .. (w.to - 1)
    BY <2>2
  <2> QED
    BY <1>1, <2>1, <2>2, <2>3 DEF Dark
<1>12. \A t : t \in Dark(db, w) <=> t \in Int /\ \E g \in gaps : g.from <= t /\ t < g.to
  BY <1>10, <1>11
<1> QED
  BY <1>7, <1>9, <1>12 DEF gaps, near

(* So what is uncovered is what is dark, and a window is fully covered if and *)
(* only if nothing is.                                                        *)
LEMMA GapsCostTheUnion ==
  ASSUME NEW db, IsFiniteSet(db.gaps), \A g \in db.gaps : g.from \in Int /\ g.to \in Int,
         NEW w, w.from \in Int, w.to \in Int
  PROVE  /\ CoverageOf(db, w).uncovered = Cardinality(Dark(db, w))
         /\ CoverageOf(db, w).fully_covered <=> Dark(db, w) = {}
<1> DEFINE dark == Dark(db, w)
<1>1. PICK gaps : gaps = Clipped(GapsOverlapping(db, w), w)
  OBVIOUS
<1>2. /\ IsFiniteSet(gaps) /\ \A g \in gaps : IsInterval(g)
      /\ \A t : t \in dark <=> t \in Int /\ \E g \in gaps : g.from <= t /\ t < g.to
  BY <1>1, ClippedIs
<1>3. PICK sorted : sorted = InOrder(gaps)
  OBVIOUS
<1> DEFINE n == Cardinality(gaps)
<1>4. /\ n \in Nat /\ sorted \in Seq(gaps) /\ Len(sorted) = n
      /\ \A i \in 1 .. n : sorted[i] \in gaps
      /\ \A i, j \in 1 .. n : i < j => sorted[i].from <= sorted[j].from
      /\ \A x \in gaps : \E i \in 1 .. n : sorted[i] = x
  <2>1. \A x \in gaps : x.from \in Int
    BY <1>2 DEF IsInterval
  <2> QED
    BY <1>2, <1>3, <2>1, InOrderIs
<1>5. CoverageOf(db, w).uncovered = MergedDuration(sorted)
      /\ (CoverageOf(db, w).fully_covered <=> MergedDuration(sorted) = 0)
  BY <1>1, <1>3 DEF CoverageOf
<1>6. dark \subseteq w.from .. (w.to - 1) /\ w.to - 1 \in Int
  BY DEF Dark
<1>7. IsFiniteSet(dark)
  BY <1>6, FS_Interval, FS_Subset
<1> HIDE DEF n, dark
<1>8. MergedDuration(sorted) = Cardinality(dark)
  <2>1. CASE sorted = <<>>
    <3>1. n = 0
      BY <1>4, <2>1
    <3>2. dark = {}
      BY <1>2, <1>4, <3>1
    <3>3. Cardinality(dark) = 0
      BY <3>2, FS_EmptySet
    <3> QED
      BY <2>1, <3>3 DEF MergedDuration
  <2>2. CASE sorted # <<>>
    <3>1. InRow(sorted, Len(sorted))
      BY <1>2, <1>4 DEF InRow
    <3>2. MergedDuration(sorted) = Cardinality(Seen(sorted, Len(sorted)))
      BY <1>4, <2>2, <3>1, MergedIsUnion
    <3>3. \A t : t \in Seen(sorted, n) <=> t \in Int /\ \E g \in gaps : g.from <= t /\ t < g.to
      BY <1>4 DEF Seen
    <3>4. Seen(sorted, n) = dark
      BY <1>2, <3>3
    <3> QED
      BY <1>4, <3>2, <3>4
  <2> QED
    BY <2>1, <2>2
<1>9. Cardinality(dark) = 0 <=> dark = {}
  BY <1>7, FS_EmptySet
<1> QED
  BY <1>5, <1>8, <1>9 DEF dark

-----------------------------------------------------------------------------
(* When parts came out.                                                      *)

GoodOutputs(db) == IsFiniteSet(Outputs(db)) /\ \A o \in Outputs(db) : o \in Int /\ o > Unknown

(* There are finitely many outputs, all of them instants.                     *)
LEMMA OutputsAre ==
  ASSUME NEW s \in Scenarios, NEW absent
  PROVE  GoodOutputs(View(s.db, absent))
<1> DEFINE v == View(s.db, absent)
<1> DEFINE parts == DOMAIN v.parts
<1> DEFINE out == [p \in parts |-> (CHOOSE l \in v.parts[p].left : TRUE).at]
<1>1. /\ parts \subseteq DOMAIN s.db.parts
      /\ \A p \in parts : v.parts[p].left \subseteq s.db.parts[p].left
  BY ViewRows
<1>2. /\ IsFiniteSet(DOMAIN s.db.parts)
      /\ \A p \in DOMAIN s.db.parts : /\ Instants(s.db.parts[p].left)
                                      /\ \A l, m \in s.db.parts[p].left : l = m
  BY ScenariosAssumption
<1>3. Outputs(v) = {l.at : l \in UNION {v.parts[p].left : p \in parts}}
  BY DEF Outputs
<1>4. IsFiniteSet(parts)
  BY <1>1, <1>2, FS_Subset
<1>5. \A p \in parts : out[p] = (CHOOSE l \in v.parts[p].left : TRUE).at
  OBVIOUS
<1> HIDE DEF out, v
<1>6. ASSUME NEW o \in Outputs(v)
      PROVE  o \in Int /\ o > Unknown /\ o \in {out[p] : p \in parts}
  <2>1. PICK p \in parts : \E l \in v.parts[p].left : o = l.at
    BY <1>3
  <2>2. PICK l \in v.parts[p].left : o = l.at
    BY <2>1
  <2>3. p \in DOMAIN s.db.parts /\ l \in s.db.parts[p].left
    BY <1>1
  <2>4. o \in Int /\ o > Unknown
    BY <1>2, <2>2, <2>3 DEF Instants
  <2>5. \A m \in v.parts[p].left : m = l
    BY <1>1, <1>2, <2>3
  <2>6. (CHOOSE m \in v.parts[p].left : TRUE) = l
    BY <2>5
  <2> QED
    BY <1>5, <2>2, <2>4, <2>6
<1>7. IsFiniteSet({out[p] : p \in parts})
  BY <1>4, ImageIsFinite
<1>8. IsFiniteSet(Outputs(v))
  BY <1>6, <1>7, FS_Subset
<1>9. GoodOutputs(v)
  BY <1>6, <1>8 DEF GoodOutputs
<1> QED
  BY <1>9 DEF v

(* The last output at or before an instant, and the first after it.           *)
LEMMA OutputBefore ==
  ASSUME NEW db, GoodOutputs(db), NEW t
  PROVE  LET o == OutputAtOrBefore(db, t) IN
         \/ o = Unknown /\ ~\E p \in Outputs(db) : p <= t
         \/ /\ o \in Outputs(db) /\ o \in Int /\ o # Unknown /\ o <= t
            /\ \A p \in Outputs(db) : p <= t => p <= o
<1> DEFINE S == {o \in Outputs(db) : o <= t}
<1>1. CASE S = {}
  <2>1. ~\E p \in Outputs(db) : p <= t
    BY <1>1
  <2> QED
    BY <2>1 DEF OutputAtOrBefore
<1>2. CASE S # {}
  <2>1. S \subseteq Int /\ S \subseteq Outputs(db) /\ Unknown \in Int
    BY DEF GoodOutputs, Unknown
  <2>2. IsFiniteSet(S)
    BY <2>1, FS_Subset DEF GoodOutputs
  <2>3. OutputAtOrBefore(db, t) = Max(S)
    BY <1>2 DEF OutputAtOrBefore
  <2>4. \A x : x \in S <=> x \in Outputs(db) /\ x <= t
    OBVIOUS
  <2> HIDE DEF S
  <2>5. PICK m \in S : \A x \in S : x <= m
    BY <1>2, <2>1, <2>2, HasGreatest
  <2>6. m \in S /\ \A x \in S : m >= x
    BY <2>1, <2>5
  <2>7. Max(S) \in S /\ \A x \in S : Max(S) >= x
    BY <2>6 DEF Max
  <2>8. PICK o : o = Max(S)
    OBVIOUS
  <2>9. o \in S /\ o \in Int /\ \A x \in S : x <= o
    BY <2>1, <2>7, <2>8
  <2>10. o > Unknown
    BY <2>4, <2>9 DEF GoodOutputs
  <2>11. o # Unknown
    BY <2>1, <2>9, <2>10
  <2> QED
    BY <2>3, <2>4, <2>8, <2>9, <2>11
<1> QED
  BY <1>1, <1>2

LEMMA OutputNext ==
  ASSUME NEW db, GoodOutputs(db), NEW t
  PROVE  LET o == OutputAfter(db, t) IN
         \/ o = Unknown /\ ~\E p \in Outputs(db) : p > t
         \/ /\ o \in Outputs(db) /\ o \in Int /\ o # Unknown /\ o > t
            /\ \A p \in Outputs(db) : p > t => o <= p
<1> DEFINE S == {o \in Outputs(db) : o > t}
<1>1. CASE S = {}
  <2>1. ~\E p \in Outputs(db) : p > t
    BY <1>1
  <2> QED
    BY <2>1 DEF OutputAfter
<1>2. CASE S # {}
  <2>1. S \subseteq Int /\ S \subseteq Outputs(db) /\ Unknown \in Int
    BY DEF GoodOutputs, Unknown
  <2>2. IsFiniteSet(S)
    BY <2>1, FS_Subset DEF GoodOutputs
  <2>3. OutputAfter(db, t) = Min(S)
    BY <1>2 DEF OutputAfter
  <2>4. \A x : x \in S <=> x \in Outputs(db) /\ x > t
    OBVIOUS
  <2> HIDE DEF S
  <2>5. PICK m \in S : \A x \in S : m <= x
    BY <1>2, <2>1, <2>2, HasLeast
  <2>6. Min(S) \in S /\ \A x \in S : Min(S) <= x
    BY <2>5 DEF Min
  <2>7. PICK o : o = Min(S)
    OBVIOUS
  <2>8. o \in S /\ o \in Int /\ \A x \in S : o <= x
    BY <2>1, <2>6, <2>7
  <2>9. o > Unknown
    BY <2>4, <2>8 DEF GoodOutputs
  <2>10. o # Unknown
    BY <2>1, <2>8, <2>9
  <2> QED
    BY <2>3, <2>4, <2>7, <2>8, <2>10
<1> QED
  BY <1>1, <1>2

(* A stop that is opened is the whole silence round an instant: from the last  *)
(* part before it to the first part after it, or to the clock.                 *)
LEMMA StopIs ==
  ASSUME NEW asOf, GoodOutputs(asOf), NEW db, GoodOutputs(db), NEW clock \in Int, NEW began,
         GetStop(asOf, db, clock, began).status = 200
  PROVE  LET d == GetStop(asOf, db, clock, began)  from == d.stop.from  to == d.stop.to IN
         /\ from \in Int /\ to \in Int
         /\ d.coverage = CoverageOf(db, Window(from, to))
<1> DEFINE from == OutputAtOrBefore(asOf, began)
<1> DEFINE after == OutputAfter(db, began)
<1> DEFINE to == IF after = Unknown THEN clock ELSE after
<1>1. from # Unknown /\ ~(to - from <= MicroStopThreshold)
  BY DEF GetStop, NotFound
<1>2. PICK d : d = Derivation(db, from - History, to + 1, from, to)
  OBVIOUS
<1>3. PICK c : c = CoverageOf(db, Window(from, to))
  OBVIOUS
<1>4. GetStop(asOf, db, clock, began)
        = [status |-> 200, stop |-> StopOf(from, from, to, after = Unknown, d), derivation |-> d, coverage |-> c,
           alarms |-> AlarmsOverlapping(db, Window(from, to))]
  BY <1>1, <1>2, <1>3 DEF GetStop
<1>5. from \in Int /\ to \in Int
  BY <1>1, OutputBefore, OutputNext
<1> HIDE DEF from, after, to
<1>6. GetStop(asOf, db, clock, began).stop = StopOf(from, from, to, after = Unknown, d)
  BY <1>4
<1>7. GetStop(asOf, db, clock, began).stop.from = from /\ GetStop(asOf, db, clock, began).stop.to = to
  BY <1>6 DEF StopOf
<1>8. GetStop(asOf, db, clock, began).coverage = c
  BY <1>4
<1> QED
  BY <1>3, <1>5, <1>7, <1>8

-----------------------------------------------------------------------------
(* The stops of a window.                                                    *)

Listed(db, w) == DetectStops(OutputInstants(db, w), w).stops

(* A stop of a window is a silence: no part came out while it lasted.          *)
Silent(db, w, s) ==
  /\ s.from \in Int /\ s.to \in Int /\ w.from <= s.from /\ s.from < s.to /\ s.to <= w.to
  /\ s.to - s.from > MicroStopThreshold
  /\ \A p \in Outputs(db) : p > s.from => p >= s.to
  /\ s.from # w.from => s.from \in Outputs(db)

(* and the name it is given is that of its first instant, which is an output,  *)
(* or the one found for the edge of the window.                                *)
NamedBy(db, w, s, e) ==
  \/ Identifier(s, e) = s.from /\ s.from \in Outputs(db)
  \/ Identifier(s, e) = e /\ s.from = w.from

(* An output is the last one at or before itself.                             *)
LEMMA OutputItself ==
  ASSUME NEW db, GoodOutputs(db), NEW t \in Outputs(db)
  PROVE  OutputAtOrBefore(db, t) = t
<1>1. t \in Int /\ t <= t
  BY DEF GoodOutputs
<1>2. PICK o : o = OutputAtOrBefore(db, t)
  OBVIOUS
<1>3. o \in Int /\ o <= t /\ t <= o
  BY <1>1, <1>2, OutputBefore
<1> QED
  BY <1>1, <1>2, <1>3

(* Every stop of a window is silent, and they begin at different instants.    *)
LEMMA ListedAreSilent ==
  ASSUME NEW db, GoodOutputs(db), NEW w, w.from \in Int, w.to \in Int, RunsForwards(w)
  PROVE  /\ IsFiniteSet(Listed(db, w))
         /\ \A s \in Listed(db, w) : Silent(db, w, s) /\ \A e : NamedBy(db, w, s, e)
         /\ \A s, t \in Listed(db, w) : s.from = t.from => s = t
<1> DEFINE outputs == OutputInstants(db, w)
<1> DEFINE edges == outputs \cup {w.from, w.to}
<1> DEFINE silences == Silences(outputs, w)
<1> DEFINE long == {s \in silences : s.to - s.from > MicroStopThreshold}
<1> DEFINE stop(s) == [from |-> s.from, to |-> s.to,
                       started_before_window |-> s.from = w.from /\ w.from \notin outputs,
                       open_at_window_end |-> s.to = w.to]
<1>1. w.from < w.to
  BY DEF RunsForwards
<1>2. \A o : o \in outputs <=> o \in Outputs(db) /\ w.from <= o /\ o < w.to
  BY DEF OutputInstants, InWindow
<1>3. Listed(db, w) = {stop(s) : s \in long}
  BY DEF Listed, DetectStops
<1>4. \A s \in silences : /\ s \in [from : edges, to : edges] /\ s.from < s.to
                          /\ \A e \in edges : ~(s.from < e /\ e < s.to)
  BY DEF Silences
<1>5. outputs \subseteq Int /\ IsFiniteSet(outputs)
  <2>1. outputs \subseteq Outputs(db)
    BY <1>2
  <2> QED
    BY <2>1, FS_Subset DEF GoodOutputs
<1>6. IsFiniteSet(edges)
  <2>1. IsFiniteSet(outputs \cup {w.from}) /\ IsFiniteSet((outputs \cup {w.from}) \cup {w.to})
    BY <1>5, FS_AddElement
  <2>2. edges = (outputs \cup {w.from}) \cup {w.to}
    OBVIOUS
  <2> QED
    BY <2>1, <2>2
<1>7. \A e \in edges : e \in Int /\ w.from <= e /\ e <= w.to
  BY <1>1, <1>2, <1>5
<1> HIDE DEF silences, outputs
<1>8. ASSUME NEW s \in silences, NEW t \in silences, s.from = t.from
      PROVE  s = t
  <2>1. s.from \in Int /\ s.to \in edges /\ s.to \in Int /\ t.to \in edges /\ t.to \in Int
    BY <1>4, <1>7
  <2>2. s.from < s.to /\ t.from < t.to /\ ~(s.to < t.to) /\ ~(t.to < s.to)
    BY <1>4, <1>8, <2>1
  <2>3. s.to = t.to
    BY <2>1, <2>2
  <2> QED
    BY <1>4, <1>8, <2>3
<1>9. IsFiniteSet(long)
  <2> DEFINE at == [e \in edges |-> CHOOSE s \in silences : s.from = e]
  <2>1. ASSUME NEW s \in silences
        PROVE  s \in {at[e] : e \in edges}
    <3>1. s.from \in edges
      BY <1>4
    <3>2. (CHOOSE r \in silences : r.from = s.from) = s
      BY <1>8
    <3>3. at[s.from] = s
      BY <3>1, <3>2
    <3> HIDE DEF at, edges
    <3> QED
      BY <3>1, <3>3
  <2> HIDE DEF at
  <2>2. IsFiniteSet({at[e] : e \in edges})
    BY <1>6, ImageIsFinite
  <2>3. long \subseteq {at[e] : e \in edges}
    BY <2>1
  <2> QED
    BY <2>2, <2>3, FS_Subset
<1>10. IsFiniteSet(Listed(db, w))
  <2> DEFINE f == [s \in long |-> stop(s)]
  <2>1. Listed(db, w) = {f[s] : s \in long}
    BY <1>3
  <2> HIDE DEF f, long
  <2> QED
    BY <1>9, <2>1, ImageIsFinite
<1>11. \A s : /\ stop(s).from = s.from /\ stop(s).to = s.to
              /\ stop(s).started_before_window <=> s.from = w.from /\ w.from \notin outputs
  OBVIOUS
<1> HIDE DEF stop
<1>12. ASSUME NEW x \in Listed(db, w), NEW y \in Listed(db, w), x.from = y.from
       PROVE  x = y
  <2>1. PICK s \in long : x = stop(s)
    BY <1>3
  <2>2. PICK t \in long : y = stop(t)
    BY <1>3
  <2>3. s.from = t.from
    BY <1>11, <1>12, <2>1, <2>2
  <2>4. s = t
    BY <1>8, <2>3
  <2> QED
    BY <2>1, <2>2, <2>4
<1>13. ASSUME NEW x \in Listed(db, w)
       PROVE  Silent(db, w, x) /\ \A e : NamedBy(db, w, x, e)
  <2>1. PICK s \in long : x = stop(s)
    BY <1>3
  <2>2. /\ s.from \in edges /\ s.to \in edges /\ s.from < s.to /\ s.to - s.from > MicroStopThreshold
        /\ \A e \in edges : ~(s.from < e /\ e < s.to)
    BY <1>4
  <2>3. /\ x.from = s.from /\ x.to = s.to
        /\ x.started_before_window <=> s.from = w.from /\ w.from \notin outputs
    BY <1>11, <2>1
  <2>4. /\ s.from \in Int /\ s.to \in Int /\ w.from <= s.from /\ s.to <= w.to
        /\ s.from \in outputs \/ s.from = w.from \/ s.from = w.to
    BY <1>7, <2>2
  <2>5. s.from \in outputs \/ s.from = w.from
    BY <2>2, <2>4
  <2>6. ASSUME NEW p \in Outputs(db), p > s.from
        PROVE  p >= s.to
    <3>1. p \in Int
      BY DEF GoodOutputs
    <3>2. CASE p < s.to
      <4>1. p \in outputs
        BY <1>2, <2>4, <2>6, <3>1, <3>2
      <4> QED
        BY <2>2, <2>6, <3>2, <4>1
    <3> QED
      BY <2>4, <3>1, <3>2
  <2>7. s.from # w.from => s.from \in Outputs(db)
    BY <1>2, <2>5
  <2>8. ASSUME NEW e
        PROVE  NamedBy(db, w, x, e)
    <3>1. CASE x.started_before_window
      BY <2>3, <3>1 DEF Identifier, NamedBy
    <3>2. CASE ~x.started_before_window
      <4>1. x.from \in Outputs(db)
        BY <1>2, <2>3, <2>5, <3>2
      <4> QED
        BY <3>2, <4>1 DEF Identifier, NamedBy
    <3> QED
      BY <3>1, <3>2
  <2> QED
    BY <2>2, <2>3, <2>4, <2>6, <2>7, <2>8 DEF Silent
<1> QED
  BY <1>10, <1>12, <1>13

(* It is named by the part its silence followed, by the outputs there are when *)
(* the anchor is read, which are more than the window was searched with.       *)
LEMMA ListedAreNamed ==
  ASSUME NEW asOf, GoodOutputs(asOf), NEW db, GoodOutputs(db), Outputs(asOf) \subseteq Outputs(db),
         NEW w, w.from \in Int, w.to \in Int, RunsForwards(w), NEW s \in Listed(asOf, w)
  PROVE  Identifier(s, EarlierOutput(asOf, db, w)) = OutputAtOrBefore(db, s.from)
<1>1. PICK e : e = EarlierOutput(asOf, db, w)
  OBVIOUS
<1>2. NamedBy(asOf, w, s, e)
  BY ListedAreSilent
<1>3. CASE Identifier(s, e) = s.from /\ s.from \in Outputs(asOf)
  BY <1>1, <1>3, OutputItself
<1>4. CASE Identifier(s, e) = e /\ s.from = w.from
  BY <1>1, <1>4 DEF EarlierOutput
<1> QED
  BY <1>2, <1>3, <1>4 DEF NamedBy

(* What a list says of a stop.                                                 *)
LEMMA ListIs ==
  ASSUME NEW asOf, GoodOutputs(asOf), NEW db, GoodOutputs(db), Outputs(asOf) \subseteq Outputs(db),
         NEW w, w.from \in Int, w.to \in Int, RunsForwards(w)
  PROVE  LET listed == ListStops(asOf, db, w).stops IN
         /\ \A i \in DOMAIN listed : \E s \in Listed(asOf, w) :
              /\ Silent(asOf, w, s) /\ listed[i].id = OutputAtOrBefore(db, s.from)
              /\ listed[i].from = s.from /\ listed[i].to = s.to
         /\ \A i, j \in DOMAIN listed : i # j => listed[i].from # listed[j].from
<1> DEFINE sorted == InOrder(Listed(asOf, w))
<1> DEFINE n == Cardinality(Listed(asOf, w))
<1> DEFINE name(s) == Identifier(s, EarlierOutput(asOf, db, w))
<1> DEFINE derived(s) == Derivation(db, HistoryBounds(w).from, HistoryBounds(w).to, s.from, s.to)
<1> DEFINE entry(s) == StopOf(name(s), s.from, s.to, s.open_at_window_end, derived(s))
<1>1. /\ IsFiniteSet(Listed(asOf, w)) /\ \A s \in Listed(asOf, w) : Silent(asOf, w, s)
      /\ \A s, t \in Listed(asOf, w) : s.from = t.from => s = t
  BY ListedAreSilent
<1>2. \A s \in Listed(asOf, w) : s.from \in Int
  BY <1>1 DEF Silent
<1>3. /\ n \in Nat /\ Len(sorted) = n /\ \A i \in 1 .. n : sorted[i] \in Listed(asOf, w)
      /\ \A i, j \in 1 .. n : sorted[i] = sorted[j] => i = j
  BY <1>1, <1>2, InOrderIs
<1>4. ListStops(asOf, db, w).stops = [i \in 1 .. Earlier(StopLimit, Len(sorted)) |-> entry(sorted[i])]
  BY DEF ListStops, Listed
<1> HIDE DEF sorted, n
<1>5. \A s : entry(s).id = name(s) /\ entry(s).from = s.from /\ entry(s).to = s.to
  BY DEF StopOf
<1> HIDE DEF entry, derived
<1>6. StopLimit \in Nat
  BY StopsAssumption
<1> DEFINE m == Earlier(StopLimit, Len(sorted))
<1>7. \A i \in 1 .. m : i \in 1 .. n
  BY <1>3, <1>6 DEF Earlier
<1> HIDE DEF m
<1> DEFINE listed == [i \in 1 .. m |-> entry(sorted[i])]
<1>8. DOMAIN listed = 1 .. m /\ \A i \in 1 .. m : listed[i] = entry(sorted[i])
  OBVIOUS
<1> HIDE DEF listed
<1>9. ASSUME NEW i \in DOMAIN listed
      PROVE  \E s \in Listed(asOf, w) : /\ Silent(asOf, w, s) /\ listed[i].id = OutputAtOrBefore(db, s.from)
                                      /\ listed[i].from = s.from /\ listed[i].to = s.to
  <2>1. PICK s \in Listed(asOf, w) : s = sorted[i]
    BY <1>3, <1>7, <1>8
  <2>2. Silent(asOf, w, s) /\ name(s) = OutputAtOrBefore(db, s.from)
    BY <1>1, ListedAreNamed
  <2>3. listed[i] = entry(s)
    BY <1>8, <2>1
  <2> HIDE DEF name
  <2> QED
    BY <1>5, <2>2, <2>3
<1>10. ASSUME NEW i \in DOMAIN listed, NEW j \in DOMAIN listed, i # j
       PROVE  listed[i].from # listed[j].from
  <2>1. i \in 1 .. n /\ j \in 1 .. n /\ listed[i] = entry(sorted[i]) /\ listed[j] = entry(sorted[j])
    BY <1>7, <1>8
  <2>2. sorted[i] # sorted[j] /\ sorted[i] \in Listed(asOf, w) /\ sorted[j] \in Listed(asOf, w)
    BY <1>3, <1>10, <2>1
  <2>3. sorted[i].from # sorted[j].from
    BY <1>1, <2>2
  <2> QED
    BY <1>5, <2>1, <2>3
<1> QED
  BY <1>4, <1>9, <1>10 DEF listed, m

(* No part came out between the one a silence followed and its end.           *)
LEMMA NoneBetween ==
  ASSUME NEW db, GoodOutputs(db), NEW w, NEW s, Silent(db, w, s), OutputAtOrBefore(db, s.from) # Unknown
  PROVE  LET id == OutputAtOrBefore(db, s.from) IN
         /\ id \in Outputs(db) /\ id \in Int /\ id <= s.from
         /\ \A p \in Outputs(db) : p > id => p >= s.to
<1> DEFINE id == OutputAtOrBefore(db, s.from)
<1>1. /\ id \in Outputs(db) /\ id \in Int /\ id <= s.from
      /\ \A p \in Outputs(db) : p <= s.from => p <= id
  BY OutputBefore
<1> HIDE DEF id
<1>2. ASSUME NEW p \in Outputs(db), p > id
      PROVE  p >= s.to
  <2>1. p \in Int /\ s.from \in Int
    BY DEF GoodOutputs, Silent
  <2>2. ~(p <= s.from)
    BY <1>1, <1>2, <2>1
  <2>3. p > s.from
    BY <2>1, <2>2
  <2> QED
    BY <2>3 DEF Silent
<1> QED
  BY <1>1, <1>2 DEF id

(* Opening a stop shows all of the silence a list showed a part of.            *)
LEMMA SilentOpens ==
  ASSUME NEW db, GoodOutputs(db), NEW w, w.to \in Int, NEW s, Silent(db, w, s), NEW clock \in Int, w.to <= clock,
         NEW id, id = OutputAtOrBefore(db, s.from), id # Unknown
  PROVE  LET d == GetStop(db, db, clock, id) IN
         d.status = 200 /\ d.stop.id = id /\ d.stop.from <= s.from /\ s.to <= d.stop.to
<1>1. /\ id \in Outputs(db) /\ id \in Int /\ id <= s.from
      /\ \A p \in Outputs(db) : p > id => p >= s.to
  BY NoneBetween
<1>2. OutputAtOrBefore(db, id) = id
  BY <1>1, OutputItself
<1>3. s.from \in Int /\ s.to \in Int /\ s.to <= w.to /\ s.to - s.from > MicroStopThreshold
  BY DEF Silent
<1> DEFINE after == OutputAfter(db, id)
<1> DEFINE to == IF after = Unknown THEN clock ELSE after
<1>4. to \in Int /\ s.to <= to
  BY <1>1, <1>3, OutputNext
<1>5. MicroStopThreshold \in Nat
  BY StopsAssumption
<1>6. ~(to - id <= MicroStopThreshold)
  BY <1>1, <1>3, <1>4, <1>5
<1>7. PICK d : d = Derivation(db, id - History, to + 1, id, to)
  OBVIOUS
<1>8. PICK c : c = CoverageOf(db, Window(id, to))
  OBVIOUS
<1>9. GetStop(db, db, clock, id)
        = [status |-> 200, stop |-> StopOf(id, id, to, after = Unknown, d), derivation |-> d, coverage |-> c,
           alarms |-> AlarmsOverlapping(db, Window(id, to))]
  BY <1>2, <1>6, <1>7, <1>8 DEF GetStop
<1> HIDE DEF to, after
<1>10. GetStop(db, db, clock, id).status = 200 /\ GetStop(db, db, clock, id).stop = StopOf(id, id, to, after = Unknown, d)
  BY <1>9
<1>11. /\ GetStop(db, db, clock, id).stop.id = id /\ GetStop(db, db, clock, id).stop.from = id
       /\ GetStop(db, db, clock, id).stop.to = to
  BY <1>10 DEF StopOf
<1> QED
  BY <1>1, <1>4, <1>10, <1>11

(* No two stops of a window follow the same part.                              *)
LEMMA NamesDiffer ==
  ASSUME NEW asOf, NEW db, GoodOutputs(db), Outputs(asOf) \subseteq Outputs(db), NEW w, w.from \in Int,
         NEW s, NEW t, Silent(asOf, w, s), Silent(asOf, w, t), s.from < t.from
  PROVE  OutputAtOrBefore(db, s.from) # OutputAtOrBefore(db, t.from)
<1>1. s.from \in Int /\ t.from \in Int /\ w.from <= s.from
  BY DEF Silent
<1>2. t.from # w.from
  BY <1>1
<1>3. t.from \in Outputs(db)
  BY <1>2 DEF Silent
<1>4. OutputAtOrBefore(db, t.from) = t.from /\ t.from > Unknown
  BY <1>3, OutputItself DEF GoodOutputs
<1>5. PICK o : o = OutputAtOrBefore(db, s.from)
  OBVIOUS
<1>6. o = Unknown \/ (o \in Int /\ o <= s.from)
  BY <1>5, OutputBefore
<1>7. Unknown \in Int
  BY DEF Unknown
<1>8. o # t.from
  BY <1>1, <1>4, <1>6, <1>7
<1> QED
  BY <1>4, <1>5, <1>8

(* And two silences that overlap, of whatever windows, follow the same part.   *)
LEMMA NamesAgree ==
  ASSUME NEW db, GoodOutputs(db), NEW w, NEW v, NEW s, NEW t, Silent(db, w, s), Silent(db, v, t),
         s.from < t.to, t.from < s.to,
         OutputAtOrBefore(db, s.from) # Unknown, OutputAtOrBefore(db, t.from) # Unknown
  PROVE  OutputAtOrBefore(db, s.from) = OutputAtOrBefore(db, t.from)
<1>1. PICK o, p : o = OutputAtOrBefore(db, s.from) /\ p = OutputAtOrBefore(db, t.from)
  OBVIOUS
<1>2. o \in Outputs(db) /\ o \in Int /\ o <= s.from /\ \A q \in Outputs(db) : q > o => q >= s.to
  BY <1>1, NoneBetween
<1>3. p \in Outputs(db) /\ p \in Int /\ p <= t.from /\ \A q \in Outputs(db) : q > p => q >= t.to
  BY <1>1, NoneBetween
<1>4. s.from \in Int /\ s.to \in Int /\ t.from \in Int /\ t.to \in Int
  BY DEF Silent
<1>5. ~(p > o)
  BY <1>2, <1>3, <1>4
<1>6. ~(o > p)
  BY <1>2, <1>3, <1>4
<1> QED
  BY <1>1, <1>2, <1>3, <1>5, <1>6

-----------------------------------------------------------------------------
(* Rows only become visible.                                                 *)

(* A verdict and a leaving are visible unless they are absent, and the row of  *)
(* their part with them.                                                      *)
LEMMA ViewKeeps ==
  ASSUME NEW db, NEW absent
  PROVE  LET v == View(db, absent) IN
         /\ \A p \in DOMAIN v.parts :
              /\ v.parts[p].inspected = IF <<"inspected", p>> \notin absent THEN db.parts[p].inspected ELSE {}
              /\ v.parts[p].left = IF <<"left", p>> \notin absent THEN db.parts[p].left ELSE {}
         /\ \A p \in DOMAIN db.parts :
              \/ <<"inspected", p>> \notin absent /\ db.parts[p].inspected # {}
              \/ <<"left", p>> \notin absent /\ db.parts[p].left # {}
              => p \in DOMAIN v.parts
  BY DEF View

LEMMA RowsGrow ==
  ASSUME NEW db, NEW unseen, NEW absent, absent \subseteq unseen, NEW p \in DOMAIN View(db, unseen).parts
  PROVE  LET old == View(db, unseen)  new == View(db, absent) IN
         /\ old.parts[p].inspected # {} => /\ p \in DOMAIN new.parts
                                           /\ new.parts[p].inspected = old.parts[p].inspected
         /\ old.parts[p].left # {} => p \in DOMAIN new.parts /\ new.parts[p].left = old.parts[p].left
<1> DEFINE old == View(db, unseen)
<1> DEFINE new == View(db, absent)
<1>1. p \in DOMAIN db.parts
  BY ViewRows
<1>2. /\ old.parts[p].inspected = IF <<"inspected", p>> \notin unseen THEN db.parts[p].inspected ELSE {}
      /\ old.parts[p].left = IF <<"left", p>> \notin unseen THEN db.parts[p].left ELSE {}
  BY ViewKeeps
<1>3. ASSUME p \in DOMAIN new.parts
      PROVE  /\ new.parts[p].inspected = IF <<"inspected", p>> \notin absent THEN db.parts[p].inspected ELSE {}
             /\ new.parts[p].left = IF <<"left", p>> \notin absent THEN db.parts[p].left ELSE {}
  BY <1>3, ViewKeeps
<1>4. \/ <<"inspected", p>> \notin absent /\ db.parts[p].inspected # {}
      \/ <<"left", p>> \notin absent /\ db.parts[p].left # {}
      => p \in DOMAIN new.parts
  BY <1>1, ViewKeeps
<1> HIDE DEF old, new
<1>5. old.parts[p].inspected # {} => /\ p \in DOMAIN new.parts
                                     /\ new.parts[p].inspected = old.parts[p].inspected
  BY <1>2, <1>3, <1>4
<1>6. old.parts[p].left # {} => p \in DOMAIN new.parts /\ new.parts[p].left = old.parts[p].left
  BY <1>2, <1>3, <1>4
<1> QED
  BY <1>5, <1>6 DEF old, new

(* So no output and no verdict goes away again.                               *)
LEMMA OutputsGrow ==
  ASSUME NEW db, NEW unseen, NEW absent, absent \subseteq unseen
  PROVE  Outputs(View(db, unseen)) \subseteq Outputs(View(db, absent))
<1> DEFINE old == View(db, unseen)
<1> DEFINE new == View(db, absent)
<1>1. ASSUME NEW o \in Outputs(old)
      PROVE  o \in Outputs(new)
  <2>1. PICK p \in DOMAIN old.parts : \E l \in old.parts[p].left : o = l.at
    BY DEF Outputs
  <2>2. p \in DOMAIN new.parts /\ new.parts[p].left = old.parts[p].left
    BY <2>1, RowsGrow
  <2> HIDE DEF old, new
  <2> QED
    BY <2>1, <2>2 DEF Outputs
<1> QED
  BY <1>1

LEMMA VerdictsGrow ==
  ASSUME NEW db, NEW unseen, NEW absent, absent \subseteq unseen, NEW w
  PROVE  /\ InspectedIn(View(db, unseen), w) \subseteq InspectedIn(View(db, absent), w)
         /\ RejectedIn(View(db, unseen), w) \subseteq RejectedIn(View(db, absent), w)
<1> DEFINE old == View(db, unseen)
<1> DEFINE new == View(db, absent)
<1>1. ASSUME NEW p \in InspectedIn(old, w)
      PROVE  p \in InspectedIn(new, w) /\ Verdict(new, p) = Verdict(old, p)
  <2>1. p \in DOMAIN old.parts /\ old.parts[p].inspected # {} /\ InWindow(w, Verdict(old, p).at)
    BY DEF InspectedIn, Inspected
  <2>2. p \in DOMAIN new.parts /\ new.parts[p].inspected = old.parts[p].inspected
    BY <2>1, RowsGrow
  <2> HIDE DEF old, new
  <2>3. Verdict(new, p) = Verdict(old, p)
    BY <2>2 DEF Verdict
  <2> QED
    BY <2>1, <2>2, <2>3 DEF InspectedIn, Inspected
<1> HIDE DEF old, new
<1>2. RejectedIn(old, w) \subseteq RejectedIn(new, w)
  BY <1>1 DEF RejectedIn
<1> QED
  BY <1>1, <1>2 DEF old, new

(* What is added to a finite set is what it has more.                         *)
LEMMA AddedCounts ==
  ASSUME NEW S, NEW T, IsFiniteSet(T), S \subseteq T
  PROVE  Cardinality(T) = Cardinality(S) + Cardinality(T \ S)
<1>1. Cardinality(T \ S) = Cardinality(T) - Cardinality(T \cap S)
  BY FS_Difference
<1>2. T \cap S = S
  OBVIOUS
<1>3. IsFiniteSet(S)
  BY FS_Subset
<1>4. Cardinality(S) \in Nat /\ Cardinality(T) \in Nat
  BY <1>3, FS_CardinalityType
<1> QED
  BY <1>1, <1>2, <1>4

-----------------------------------------------------------------------------
(* What is known of the answers.                                             *)

\* The requests that are answered from two views.
TWO_VIEWS == {"list_stops", "get_stop", "inspection_stats", "affected"}

Forwards(w) == w \in scenario.windows /\ RunsForwards(w)

\* What they ask for.
AskedRight(op, asked) ==
  /\ op = "list_stops" => Forwards(asked)
  /\ op = "inspection_stats" => Forwards(asked.window)
  /\ op = "affected" => \E w, c : \E anchor \in ANCHORS : asked = Selection(w, anchor, c)

\* The view of the first statement has nothing that is not there by now.
RequestRight(r) == r.op \in TWO_VIEWS /\ missing \subseteq r.unseen /\ AskedRight(r.op, r.asked)

TimeRight(a) ==
  \/ a.told = Unprocessable
  \/ \E w : a.told = [status |-> 200, window |-> w, closed |-> IsClosed(w, now)]

\* One about a window is refused or is what the service makes of the view there is.
Measured(a, w, told) ==
  \/ a.told = Unprocessable
  \/ w \in scenario.windows /\ RunsForwards(w) /\ a.told = told

CoverageRight(a) == Measured(a, a.asked, [status |-> 200, coverage |-> CoverageOf(DB, a.asked)])
PatternsRight(a) == Measured(a, a.asked, InspectionPatterns(DB, a.asked))

\* One of two views is what comes of the view that was read first and the one there is.
TwoViewsRight(a) ==
  \/ a.told \in {NotFound, Unprocessable}
  \/ missing \subseteq a.unseen /\ AskedRight(a.op, a.asked) /\ a.told = Outcome(a)

TRACKED == {"resolve_time", "coverage", "patterns"} \cup TWO_VIEWS

AnswerRight(a) ==
  /\ a.op = "resolve_time" => TimeRight(a)
  /\ a.op = "coverage" => CoverageRight(a)
  /\ a.op = "patterns" => PatternsRight(a)
  /\ a.op \in TWO_VIEWS => TwoViewsRight(a)

AnalysisInv ==
  /\ scenario \in Scenarios /\ now \in Int
  /\ \A r \in request : RequestRight(r)
  /\ \A a \in answer : AnswerRight(a)

LEMMA OtherAnswers ==
  ASSUME AnalysisInv, UNCHANGED <<scenario, missing, now, request>>, \A a \in answer' : a.op \notin TRACKED
  PROVE  AnalysisInv'
<1>1. scenario' = scenario /\ missing' = missing /\ now' = now /\ request' = request
  OBVIOUS
<1>2. \A r \in request' : RequestRight(r)'
  BY <1>1 DEF AnalysisInv, RequestRight, AskedRight, Forwards
<1>3. \A a \in answer' : AnswerRight(a)'
  BY DEF AnswerRight, TRACKED
<1> QED
  BY <1>1, <1>2, <1>3 DEF AnalysisInv

(* A request of two views begins, or is refused.                              *)
LEMMA Asking ==
  ASSUME AnalysisInv, NEW op \in TWO_VIEWS, NEW asked,
         \/ Ask(op, asked) /\ AskedRight(op, asked)
         \/ \E told \in {NotFound, Unprocessable} : \E x : Respond(op, x, told)
  PROVE  AnalysisInv'
<1>1. CASE Ask(op, asked) /\ AskedRight(op, asked)
  <2>1. /\ scenario' = scenario /\ missing' = missing /\ now' = now /\ answer' = answer /\ answer = {}
        /\ request' = {[op |-> op, asked |-> asked, unseen |-> missing]}
    BY <1>1 DEF Ask
  <2>2. \A r \in request' : r.op = op /\ r.asked = asked /\ r.unseen = missing
    BY <2>1
  <2>3. AskedRight(op, asked)'
    BY <1>1, <2>1 DEF AskedRight, Forwards
  <2>4. \A r \in request' : RequestRight(r)'
    BY <2>1, <2>2, <2>3 DEF RequestRight
  <2> QED
    BY <2>1, <2>4 DEF AnalysisInv
<1>2. ASSUME NEW told \in {NotFound, Unprocessable}, NEW x, Respond(op, x, told)
      PROVE  AnalysisInv'
  <2>1. /\ scenario' = scenario /\ missing' = missing /\ now' = now /\ request' = request /\ request = {}
        /\ \A a \in answer' : a.op = op /\ a.told = told
    BY <1>2 DEF Respond
  <2>2. op \notin {"resolve_time", "coverage", "patterns"}
    BY DEF TWO_VIEWS
  <2>3. \A a \in answer' : AnswerRight(a)'
    BY <2>1, <2>2 DEF AnswerRight, TwoViewsRight
  <2> QED
    BY <2>1, <2>3 DEF AnalysisInv
<1> QED
  BY <1>1, <1>2

LEMMA AnalysisInvHolds == Spec => []AnalysisInv
<1>1. Init => AnalysisInv
  <2> SUFFICES ASSUME Init
               PROVE  AnalysisInv
    OBVIOUS
  <2>1. scenario \in Scenarios /\ now = Min(scenario.clock) /\ request = {} /\ answer = {}
    BY DEF Init
  <2>2. PICK first \in scenario.clock : \A t \in scenario.clock : first <= t
    BY <2>1, ScenariosAssumption
  <2>3. scenario.clock \subseteq Int
    BY <2>1, ScenariosAssumption
  <2>4. now \in scenario.clock
    BY <2>1, <2>2 DEF Min
  <2> QED
    BY <2>1, <2>3, <2>4 DEF AnalysisInv
<1>2. AnalysisInv /\ [Next]_vars => AnalysisInv'
  <2> SUFFICES ASSUME AnalysisInv, [Next]_vars
               PROVE  AnalysisInv'
    OBVIOUS
  <2>1. ASSUME NEW fact \in missing, Store(fact)
        PROVE  AnalysisInv'
    <3>1. /\ scenario' = scenario /\ now' = now /\ request' = request /\ answer' = {}
          /\ missing' \subseteq missing
      BY <2>1 DEF Store
    <3> QED
      BY <3>1 DEF AnalysisInv, RequestRight, AskedRight, Forwards
  <2>2. CASE Tick
    <3>1. scenario' = scenario /\ now' \in Int /\ request' = request /\ request = {} /\ answer' = {}
      BY <2>2 DEF Tick, AnalysisInv
    <3> QED
      BY <3>1 DEF AnalysisInv
  <2>3. CASE StopsRoute
    <3>1. PICK w \in scenario.windows : AskOver("list_stops", w, w)
      BY <2>3 DEF StopsRoute
    <3>2. \/ Ask("list_stops", w) /\ AskedRight("list_stops", w)
          \/ Respond("list_stops", w, Unprocessable)
      BY <3>1 DEF AskOver, AskedRight, Forwards
    <3> QED
      BY <3>2, Asking DEF TWO_VIEWS
  <2>4. CASE StopRoute
    <3>1. PICK began : Ask("get_stop", began)
      BY <2>4 DEF StopRoute
    <3>2. AskedRight("get_stop", began)
      BY DEF AskedRight
    <3> QED
      BY <3>1, <3>2, Asking DEF TWO_VIEWS
  <2>5. CASE CoverageRoute
    <3>1. PICK w \in scenario.windows : RespondOver("coverage", w, w, [status |-> 200, coverage |-> CoverageOf(DB, w)])
      BY <2>5 DEF CoverageRoute
    <3>2. scenario' = scenario /\ missing' = missing /\ now' = now /\ request' = request /\ DB' = DB
      BY <3>1 DEF RespondOver, Respond, DB
    <3>3. \A a \in answer' : /\ a.op = "coverage" /\ a.asked = w
                             /\ \/ RunsForwards(w) /\ a.told = [status |-> 200, coverage |-> CoverageOf(DB, w)]
                                \/ a.told = Unprocessable
      BY <3>1 DEF RespondOver, Respond
    <3>4. \A a \in answer' : CoverageRight(a)'
      BY <3>2, <3>3 DEF CoverageRight, Measured
    <3>5. \A a \in answer' : AnswerRight(a)'
      BY <3>3, <3>4 DEF AnswerRight, TWO_VIEWS
    <3> QED
      BY <3>2, <3>5 DEF AnalysisInv, RequestRight, AskedRight, Forwards
  <2>6. CASE StatsRoute
    <3>1. PICK w \in scenario.windows, by \in {"time", "defect_class", "carrier", "lane", None} :
            AskOver("inspection_stats", w, [window |-> w, by |-> by])
      BY <2>6 DEF StatsRoute
    <3>2. \/ Ask("inspection_stats", [window |-> w, by |-> by])
             /\ AskedRight("inspection_stats", [window |-> w, by |-> by])
          \/ Respond("inspection_stats", [window |-> w, by |-> by], Unprocessable)
      BY <3>1 DEF AskOver, AskedRight, Forwards
    <3> QED
      BY <3>2, Asking DEF TWO_VIEWS
  <2>7. CASE PatternsRoute
    <3>1. PICK w \in scenario.windows : RespondOver("patterns", w, w, InspectionPatterns(DB, w))
      BY <2>7 DEF PatternsRoute
    <3>2. scenario' = scenario /\ missing' = missing /\ now' = now /\ request' = request /\ DB' = DB
      BY <3>1 DEF RespondOver, Respond, DB
    <3>3. \A a \in answer' : /\ a.op = "patterns" /\ a.asked = w
                             /\ (RunsForwards(w) /\ a.told = InspectionPatterns(DB, w)) \/ a.told = Unprocessable
      BY <3>1 DEF RespondOver, Respond
    <3>4. \A a \in answer' : PatternsRight(a)'
      BY <3>2, <3>3 DEF PatternsRight, Measured
    <3>5. \A a \in answer' : AnswerRight(a)'
      BY <3>3, <3>4 DEF AnswerRight, TWO_VIEWS
    <3> QED
      BY <3>2, <3>5 DEF AnalysisInv, RequestRight, AskedRight, Forwards
  <2>8. CASE AlarmRoutes
    <3>1. UNCHANGED <<scenario, missing, now, request>> /\ \A a \in answer' : a.op \in {"list_alarms", "get_alarm"}
      BY <2>8 DEF AlarmRoutes, RespondOver, Respond
    <3> QED
      BY <3>1, OtherAnswers DEF TRACKED, TWO_VIEWS
  <2>9. CASE TrendRoute
    <3>1. UNCHANGED <<scenario, missing, now, request>> /\ \A a \in answer' : a.op = "signal_trend"
      BY <2>9 DEF TrendRoute, RespondOver, Respond
    <3> QED
      BY <3>1, OtherAnswers DEF TRACKED, TWO_VIEWS
  <2>10. CASE LineStatusRoute
    <3>1. UNCHANGED <<scenario, missing, now, request>> /\ \A a \in answer' : a.op = "line_status"
      BY <2>10 DEF LineStatusRoute, Respond
    <3> QED
      BY <3>1, OtherAnswers DEF TRACKED, TWO_VIEWS
  <2>11. CASE TimeRoute
    <3>1. scenario' = scenario /\ missing' = missing /\ now' = now /\ request' = request
      BY <2>11 DEF TimeRoute, Respond
    <3>2. \A a \in answer' : /\ a.op = "resolve_time"
                             /\ \/ a.told = Unprocessable
                                \/ \E w : a.told = [status |-> 200, window |-> w, closed |-> IsClosed(w, now)]
      <4>1. PICK expression \in UNDERSTOOD_EXPRESSIONS \cup {"some other time"} :
              answer' = {[op |-> "resolve_time", asked |-> expression, unseen |-> missing,
                          told |-> IF expression \notin UNDERSTOOD_EXPRESSIONS THEN Unprocessable
                                   ELSE [status |-> 200, window |-> Resolve(expression, now),
                                         closed |-> IsClosed(Resolve(expression, now), now)]]}
        BY <2>11 DEF TimeRoute, Respond
      <4>2. PICK w : w = Resolve(expression, now)
        OBVIOUS
      <4>3. PICK told : told = IF expression \notin UNDERSTOOD_EXPRESSIONS THEN Unprocessable
                               ELSE [status |-> 200, window |-> w, closed |-> IsClosed(w, now)]
        OBVIOUS
      <4>4. answer' = {[op |-> "resolve_time", asked |-> expression, unseen |-> missing, told |-> told]}
        BY <4>1, <4>2, <4>3
      <4>5. \/ told = Unprocessable
            \/ \E x : told = [status |-> 200, window |-> x, closed |-> IsClosed(x, now)]
        BY <4>3
      <4>6. \A a \in answer' : a.op = "resolve_time" /\ a.told = told
        <5> DEFINE response == [op |-> "resolve_time", asked |-> expression, unseen |-> missing, told |-> told]
        <5>1. response.op = "resolve_time" /\ response.told = told
          OBVIOUS
        <5>2. answer' = {response}
          BY <4>4
        <5> HIDE DEF response
        <5> QED
          BY <5>1, <5>2
      <4> QED
        BY <4>5, <4>6
    <3>3. \A a \in answer' : TimeRight(a)'
      BY <3>1, <3>2 DEF TimeRight
    <3>4. \A a \in answer' : AnswerRight(a)'
      BY <3>2, <3>3 DEF AnswerRight, TWO_VIEWS
    <3> QED
      BY <3>1, <3>4 DEF AnalysisInv, RequestRight, AskedRight, Forwards
  <2>12. CASE PartRoutes
    <3>1. UNCHANGED <<scenario, missing, now, request>>
          /\ \A a \in answer' : a.op \in {"get_part", "assembly", "lot_parts", "carrier_parts"}
      BY <2>12 DEF PartRoutes, Respond
    <3> QED
      BY <3>1, OtherAnswers DEF TRACKED, TWO_VIEWS
  <2>13. CASE SelectScope
    <3>1. PICK w \in scenario.windows, s \in scenario.db.stations \cup {None, "unheard-of"}, c \in scenario.criteria :
            LET anchor == IF s = None THEN "created" ELSE StationAnchor(DB, s) IN
            IF ~RunsForwards(w) \/ s = "unheard-of" \/ anchor = None
            THEN Respond("affected", c, IF RunsForwards(w) /\ s = "unheard-of" THEN NotFound ELSE Unprocessable)
            ELSE Ask("affected", Selection(w, anchor, c))
      BY <2>13 DEF SelectScope, Selection
    <3> DEFINE anchor == IF s = None THEN "created" ELSE StationAnchor(DB, s)
    <3>2. CASE ~RunsForwards(w) \/ s = "unheard-of" \/ anchor = None
      <4>1. Respond("affected", c, IF RunsForwards(w) /\ s = "unheard-of" THEN NotFound ELSE Unprocessable)
        BY <3>1, <3>2
      <4>2. \E told \in {NotFound, Unprocessable} : Respond("affected", c, told)
        BY <4>1
      <4> QED
        BY <4>2, Asking DEF TWO_VIEWS
    <3>3. CASE ~(~RunsForwards(w) \/ s = "unheard-of" \/ anchor = None)
      <4>1. Ask("affected", Selection(w, anchor, c))
        BY <3>1, <3>3
      <4>2. anchor \in ANCHORS
        BY <3>3 DEF StationAnchor, ANCHORS
      <4> HIDE DEF anchor
      <4>3. AskedRight("affected", Selection(w, anchor, c))
        BY <4>2 DEF AskedRight
      <4> QED
        BY <4>1, <4>3, Asking DEF TWO_VIEWS
    <3> QED
      BY <3>2, <3>3
  <2>14. CASE Conclude
    <3>1. PICK r \in request :
            /\ answer' = {[op |-> r.op, asked |-> r.asked, unseen |-> r.unseen, told |-> Outcome(r)]}
            /\ request' = {} /\ UNCHANGED <<scenario, missing, now>>
      BY <2>14 DEF Conclude
    <3>2. scenario' = scenario /\ missing' = missing /\ now' = now /\ DB' = DB
      BY <3>1 DEF DB
    <3>3. RequestRight(r)
      BY DEF AnalysisInv
    <3>4. \A a \in answer' : a.op = r.op /\ a.asked = r.asked /\ a.unseen = r.unseen /\ a.told = Outcome(r)
      BY <3>1
    <3>5. ASSUME NEW a \in answer'
          PROVE  a.told = Outcome(a)'
      <4>1. a.op = r.op /\ a.asked = r.asked /\ a.unseen = r.unseen /\ a.told = Outcome(r)
        BY <3>4
      <4>2. FirstView(r) = FirstView(a)'
        BY <3>2, <4>1 DEF FirstView
      <4> QED
        BY <3>2, <4>1, <4>2 DEF Outcome
    <3>6. \A a \in answer' : TwoViewsRight(a)'
      <4>1. AskedRight(r.op, r.asked)'
        BY <3>2, <3>3 DEF RequestRight, AskedRight, Forwards
      <4> QED
        BY <3>2, <3>3, <3>4, <3>5, <4>1 DEF TwoViewsRight, RequestRight
    <3>7. r.op \notin {"resolve_time", "coverage", "patterns"}
      BY <3>3 DEF RequestRight, TWO_VIEWS
    <3>8. \A a \in answer' : AnswerRight(a)'
      BY <3>4, <3>6, <3>7 DEF AnswerRight
    <3> QED
      BY <3>1, <3>2, <3>8 DEF AnalysisInv
  <2>15. CASE UNCHANGED vars
    <3>1. /\ scenario' = scenario /\ missing' = missing /\ now' = now /\ request' = request /\ answer' = answer
          /\ DB' = DB
      BY <2>15 DEF vars, DB
    <3>2. \A a \in answer : AnswerRight(a)' <=> AnswerRight(a)
      <4> TAKE a \in answer
      <4>1. TimeRight(a)' <=> TimeRight(a)
        BY <3>1 DEF TimeRight
      <4>2. /\ CoverageRight(a)' <=> CoverageRight(a)
            /\ PatternsRight(a)' <=> PatternsRight(a)
        BY <3>1 DEF CoverageRight, PatternsRight, Measured
      <4>3. FirstView(a)' = FirstView(a)
        BY <3>1 DEF FirstView
      <4>4. Outcome(a)' = Outcome(a)
        BY <3>1, <4>3 DEF Outcome
      <4>5. TwoViewsRight(a)' <=> TwoViewsRight(a)
        BY <3>1, <4>4 DEF TwoViewsRight, AskedRight, Forwards
      <4> QED
        BY <4>1, <4>2, <4>5 DEF AnswerRight
    <3>3. \A r \in request : RequestRight(r)' <=> RequestRight(r)
      BY <3>1 DEF RequestRight, AskedRight, Forwards
    <3> QED
      BY <3>1, <3>2, <3>3 DEF AnalysisInv
  <2> QED
    BY <2>1, <2>2, <2>3, <2>4, <2>5, <2>6, <2>7, <2>8, <2>9, <2>10, <2>11, <2>12, <2>13, <2>14, <2>15 DEF Next
<1> QED
  BY <1>1, <1>2, PTL DEF Spec

(* What a request of two views was told, and the views it was told it by.      *)
LEMMA ToldByTwoViews ==
  ASSUME AnalysisInv, NEW op \in TWO_VIEWS, NEW a \in Told(op)
  PROVE  /\ a.op = op /\ a.told.status = 200 /\ missing \subseteq a.unseen
         /\ AskedRight(op, a.asked) /\ a.told = Outcome(a)
<1>1. a.op = op /\ a.told.status = 200 /\ AnswerRight(a)
  BY DEF Told, AnalysisInv
<1>2. a.told \notin {NotFound, Unprocessable}
  BY <1>1 DEF NotFound, Unprocessable
<1> QED
  BY <1>1, <1>2 DEF AnswerRight, TwoViewsRight

-----------------------------------------------------------------------------
(* The properties.                                                           *)

(* This shift holds the moment and the last one ends where it begins, last     *)
(* night is over and no later night is, days and weeks meet; and an answer is  *)
(* called closed when its window is over (time_expressions.py).               *)
THEOREM TimeIsTiled == Spec => []CalendarTiles
<1>1. AnalysisInv => CalendarTiles
  <2> SUFFICES ASSUME AnalysisInv, NEW a \in Told("resolve_time")
               PROVE  LET w(expression) == Resolve(expression, now)
                          hours(x) == <<HourOf(x.from), HourOf(x.to)>>
                          night == w("last night")
                      IN /\ InWindow(w("this shift"), now) /\ w("last shift").to = w("this shift").from
                         /\ \A e \in {"this shift", "last shift"} :
                              hours(w(e)) \in {<<6, 14>>, <<14, 22>>, <<22, 6>>} /\ w(e).to - w(e).from \in 7 .. 9
                         /\ night.to <= now /\ hours(night) = <<22, 6>> /\ night.to - night.from \in 7 .. 9
                         /\ \A t \in (night.to + 1) .. now : HourOf(t) # 6
                         /\ InWindow(w("today"), now) /\ w("yesterday").to = w("today").from
                         /\ InWindow(w("this week"), w("today").from) /\ w("last week").to = w("this week").from
                         /\ a.told.closed <=> a.told.window.to <= now
    BY DEF CalendarTiles
  <2>1. now \in Int /\ AnswerRight(a) /\ a.op = "resolve_time" /\ a.told.status = 200
    BY DEF AnalysisInv, Told
  <2>2. PICK w : a.told = [status |-> 200, window |-> w, closed |-> IsClosed(w, now)]
    <3>1. TimeRight(a)
      BY <2>1 DEF AnswerRight
    <3>2. a.told # Unprocessable
      BY <2>1 DEF Unprocessable
    <3> QED
      BY <3>1, <3>2 DEF TimeRight
  <2>3. a.told.closed <=> a.told.window.to <= now
    <3>1. a.told.closed = IsClosed(w, now) /\ a.told.window = w
      BY <2>2
    <3> QED
      BY <3>1 DEF IsClosed
  <2>t. PICK t \in Int : t = now
    BY <2>1
  <2>4. /\ Resolve("this shift", t) = Of(CurrentShift(t))
        /\ Resolve("last shift", t) = Of(PreviousShift(CurrentShift(t)))
        /\ Resolve("last night", t) = Of(LastCompletedNight(t))
        /\ Resolve("today", t) = Days(DayOf(t), 1) /\ Resolve("yesterday", t) = Days(DayOf(t) - 1, 1)
        /\ Resolve("this week", t) = Days(WeekStart(t), 7)
        /\ Resolve("last week", t) = Days(WeekStart(t) - 7, 7)
    BY DEF Resolve
  <2> DEFINE this == Resolve("this shift", t)
  <2> DEFINE last == Resolve("last shift", t)
  <2> DEFINE night == Resolve("last night", t)
  <2>5. /\ InWindow(this, t) /\ last.to = this.from
        /\ Hours(this) \in ShiftHours /\ this.to - this.from \in 7 .. 9
        /\ Hours(last) \in ShiftHours /\ last.to - last.from \in 7 .. 9
    BY <2>4, ThisShift
  <2>6. /\ night.to <= t /\ Hours(night) = <<22, 6>> /\ night.to - night.from \in 7 .. 9
        /\ \A u \in (night.to + 1) .. t : HourOf(u) # 6
    BY <2>4, LastNightIsOver
  <2>7. /\ InWindow(Resolve("today", t), t)
        /\ Resolve("yesterday", t).to = Resolve("today", t).from
        /\ InWindow(Resolve("this week", t), Resolve("today", t).from)
        /\ Resolve("last week", t).to = Resolve("this week", t).from
    BY <2>4, DaysMeet
  <2>8. \A e \in {"this shift", "last shift"} :
          Hours(Resolve(e, t)) \in ShiftHours /\ Resolve(e, t).to - Resolve(e, t).from \in 7 .. 9
    BY <2>5
  <2> QED
    BY <2>t, <2>3, <2>5, <2>6, <2>7, <2>8 DEF Hours, ShiftHours
<1> QED
  BY <1>1, AnalysisInvHolds, PTL

(* Every hour of a window is in one bucket; the buckets add up to the totals   *)
(* and to what was stored between the statements the two were read by; and the *)
(* same bucket says the same in every window (queries.py).                     *)
THEOREM BucketsAreRight == Spec => []BucketsAddUp
<1>1. AnalysisInv => BucketsAddUp
  <2> SUFFICES ASSUME AnalysisInv, NEW a \in Told("inspection_stats"), a.asked.by = "time"
               PROVE  LET groups == a.told.groups
                          window == a.asked.window
                          asOf == FirstView(a)
                      IN
                      /\ \A t \in window.from .. (window.to - 1) :
                           Cardinality({g \in groups : g.from <= t /\ t < g.to}) = 1
                      /\ MapThenSumSet(LAMBDA g : g.parts, groups)
                           = a.told.total + Cardinality(InspectedIn(DB, window) \ InspectedIn(asOf, window))
                      /\ MapThenSumSet(LAMBDA g : g.rejects, groups)
                           = a.told.rejects + Cardinality(RejectedIn(DB, window) \ RejectedIn(asOf, window))
                      /\ \A w \in {v \in scenario.windows : RunsForwards(v)} :
                           \A g \in groups, h \in InspectionStats(DB, DB, w, "time").groups :
                             g.key = h.key /\ g.from = h.from /\ g.to = h.to => g = h
    BY DEF BucketsAddUp
  <2> DEFINE v == a.asked.window
  <2> DEFINE asOf == FirstView(a)
  <2> DEFINE groups == CountsByTimeBucket(DB, v)
  <2>1. scenario \in Scenarios
    BY DEF AnalysisInv
  <2>2. /\ a.op = "inspection_stats" /\ missing \subseteq a.unseen
        /\ AskedRight("inspection_stats", a.asked) /\ a.told = Outcome(a)
    BY ToldByTwoViews DEF TWO_VIEWS
  <2>3. v \in scenario.windows /\ a.told = InspectionStats(asOf, DB, v, "time")
    BY <2>2 DEF AskedRight, Forwards, Outcome
  <2>4. \A old, w : /\ InspectionStats(old, DB, w, "time").groups = CountsByTimeBucket(DB, w)
                    /\ InspectionStats(old, DB, w, "time").total = Cardinality(InspectedIn(old, w))
                    /\ InspectionStats(old, DB, w, "time").rejects = Cardinality(RejectedIn(old, w))
    BY DEF InspectionStats, GroupsOf
  <2>5. Countable(DB)
    BY <2>1, ViewCounts DEF DB
  <2>6. \A w \in scenario.windows : Bounded(w)
    BY <2>1, ScenariosAssumption DEF Bounded, Spans
  <2>7. /\ a.told.groups = groups /\ a.told.total = Cardinality(InspectedIn(asOf, v))
        /\ a.told.rejects = Cardinality(RejectedIn(asOf, v))
    BY <2>3, <2>4
  <2>8. \A t \in v.from .. (v.to - 1) : Cardinality({g \in groups : g.from <= t /\ t < g.to}) = 1
    BY <2>3, <2>6, BucketsTile
  <2>9. /\ FieldTotal(groups, "parts") = Cardinality(InspectedIn(DB, v))
        /\ FieldTotal(groups, "rejects") = Cardinality(RejectedIn(DB, v))
    BY <2>3, <2>5, <2>6, BucketsSum
  <2>10. \A w \in scenario.windows : \A g \in groups, h \in InspectionStats(DB, DB, w, "time").groups :
           g.key = h.key /\ g.from = h.from /\ g.to = h.to => g = h
    BY <2>3, <2>4, <2>5, <2>6, BucketsAgree
  <2>11. /\ InspectedIn(asOf, v) \subseteq InspectedIn(DB, v) /\ RejectedIn(asOf, v) \subseteq RejectedIn(DB, v)
    BY <2>2, VerdictsGrow DEF FirstView, DB
  <2>12. IsFiniteSet(InspectedIn(DB, v)) /\ IsFiniteSet(RejectedIn(DB, v))
    <3>1. InspectedIn(DB, v) \in SUBSET (DOMAIN DB.parts) /\ RejectedIn(DB, v) \in SUBSET (DOMAIN DB.parts)
      BY DEF InspectedIn, RejectedIn, Inspected
    <3> QED
      BY <2>5, <3>1, FS_Subset DEF Countable
  <2> HIDE DEF groups, asOf, v
  <2>13. /\ FieldTotal(a.told.groups, "parts")
              = a.told.total + Cardinality(InspectedIn(DB, v) \ InspectedIn(asOf, v))
         /\ FieldTotal(a.told.groups, "rejects")
              = a.told.rejects + Cardinality(RejectedIn(DB, v) \ RejectedIn(asOf, v))
    <3>1. Cardinality(InspectedIn(DB, v))
            = Cardinality(InspectedIn(asOf, v)) + Cardinality(InspectedIn(DB, v) \ InspectedIn(asOf, v))
      BY <2>11, <2>12, AddedCounts
    <3>2. Cardinality(RejectedIn(DB, v))
            = Cardinality(RejectedIn(asOf, v)) + Cardinality(RejectedIn(DB, v) \ RejectedIn(asOf, v))
      BY <2>11, <2>12, AddedCounts
    <3> QED
      BY <2>7, <2>9, <3>1, <3>2
  <2>14. /\ MapThenSumSet(LAMBDA g : g.parts, a.told.groups)
              = a.told.total + Cardinality(InspectedIn(DB, v) \ InspectedIn(asOf, v))
         /\ MapThenSumSet(LAMBDA g : g.rejects, a.told.groups)
              = a.told.rejects + Cardinality(RejectedIn(DB, v) \ RejectedIn(asOf, v))
    BY <2>13 DEF FieldTotal
  <2> QED
    BY <2>7, <2>8, <2>10, <2>14 DEF v, asOf
<1> QED
  BY <1>1, AnalysisInvHolds, PTL

(* A part that meets the criteria is in the window, out of it, or nowhere.     *)
LEMMA OneOfThree ==
  ASSUME NEW P, NEW w, \A t, u \in P : t = u
  PROVE  LET A == \E t \in P : InWindow(w, t)
             B == P = {}
             C == \E t \in P : ~InWindow(w, t)
         IN Cardinality({k \in {"selected", "unplaceable", "outside"} :
              CASE k = "selected" -> A [] k = "unplaceable" -> B [] k = "outside" -> C}) = 1
<1> DEFINE A == \E t \in P : InWindow(w, t)
<1> DEFINE B == P = {}
<1> DEFINE C == \E t \in P : ~InWindow(w, t)
<1> DEFINE G == {k \in {"selected", "unplaceable", "outside"} :
              CASE k = "selected" -> A [] k = "unplaceable" -> B [] k = "outside" -> C}
<1>1. \/ A /\ ~B /\ ~C
      \/ ~A /\ B /\ ~C
      \/ ~A /\ ~B /\ C
  OBVIOUS
<1> HIDE DEF A, B, C
<1>2. \E k \in {"selected", "unplaceable", "outside"} : G = {k}
  <2>1. CASE A /\ ~B /\ ~C
    <3>1. G = {"selected"}
      BY <2>1
    <3> QED
      BY <3>1
  <2>2. CASE ~A /\ B /\ ~C
    <3>1. G = {"unplaceable"}
      BY <2>2
    <3> QED
      BY <3>1
  <2>3. CASE ~A /\ ~B /\ C
    <3>1. G = {"outside"}
      BY <2>3
    <3> QED
      BY <3>1
  <2> QED
    BY <1>1, <2>1, <2>2, <2>3
<1> HIDE DEF G
<1>3. Cardinality(G) = 1
  BY <1>2, FS_Singleton
<1> QED
  BY <1>3 DEF G, A, B, C

(* A part that meets the criteria is in one group, out of the window or among  *)
(* those no window can place, however late the rows between the two statements *)
(* of the request; and the groups add up (containment.py).                     *)
THEOREM ScopesAreComplete == Spec => []ContainmentIsComplete
<1>1. AnalysisInv => ContainmentIsComplete
  <2> SUFFICES ASSUME AnalysisInv, NEW a \in Told("affected")
               PROVE  LET t == a.told
                          asOf == FirstView(a)
                          meets(db, p) == Meets(db, db.parts[p], [a.asked EXCEPT !.window = {}])
                          placed(p) == AnchorsOf(DB.parts[p], a.asked.anchor)
                          still == {p \in DOMAIN DB.parts \cap DOMAIN asOf.parts :
                                      DB.parts[p] = asOf.parts[p] /\ meets(DB, p) /\ meets(asOf, p)}
                          window == CHOOSE w \in a.asked.window : TRUE
                      IN /\ \A p \in still : Cardinality({k \in {"selected", "unplaceable", "outside"} :
                                CASE k = "selected" -> p \in t.selected
                                  [] k = "unplaceable" -> p \in t.unplaceable
                                  [] k = "outside" -> \E i \in placed(p) : ~InWindow(window, i)}) = 1
                         /\ \A p \in t.unplaceable : meets(DB, p)
                         /\ MapThenSumSet(LAMBDA o : t.parts[o].count, DOMAIN t.parts) = Cardinality(t.selected)
    BY DEF ContainmentIsComplete
  <2>1. scenario \in Scenarios
    BY DEF AnalysisInv
  <2>2. a.op = "affected" /\ AskedRight("affected", a.asked) /\ a.told = Outcome(a)
    BY ToldByTwoViews DEF TWO_VIEWS
  <2>a. PICK w, c : \E anchor \in ANCHORS : a.asked = Selection(w, anchor, c)
    BY <2>2 DEF AskedRight
  <2>3. PICK anchor \in ANCHORS : a.asked = Selection(w, anchor, c)
    BY <2>a
  <2> DEFINE sel == Selection(w, anchor, c)
  <2> DEFINE old == FirstView(a)
  <2> DEFINE chosen == SelectParts(old, sel)
  <2>4. a.asked = sel /\ sel.window = {w} /\ sel.anchor = anchor
    BY <2>3 DEF Selection
  <2>5. /\ a.told.selected = chosen /\ a.told.parts = Contain(old, chosen)
        /\ a.told.unplaceable = CountUnplaceable(DB, sel)
    <3>1. a.told = Affected(old, DB, sel)
      BY <2>2, <2>4 DEF Outcome
    <3> HIDE DEF sel, old
    <3> QED
      BY <3>1 DEF Affected
  <2>6. \A db, row : Meets(db, row, [sel EXCEPT !.window = {}]) <=> Meets(db, row, sel)
    BY WithoutWindow
  <2>7. ASSUME NEW p \in DOMAIN DB.parts
        PROVE  \A t, u \in AnchorsOf(DB.parts[p], anchor) : t = u
    <3>a. PICK there \in Scenarios : there = scenario
      BY <2>1
    <3>b. PICK absent : absent = missing
      OBVIOUS
    <3>1. there = scenario /\ absent = missing
      BY <3>a, <3>b
    <3>2. DB = View(there.db, absent)
      BY <3>1 DEF DB
    <3>3. p \in DOMAIN View(there.db, absent).parts
      BY <3>2, <2>7
    <3> QED
      BY <3>2, <3>3, <2>3, OnePlace
  <2>8. IsFiniteSet(chosen)
    <3>1. IsFiniteSet(DOMAIN old.parts)
      BY <2>1, ViewCounts DEF Countable, FirstView
    <3>2. chosen \in SUBSET (DOMAIN old.parts)
      BY DEF SelectParts
    <3> QED
      BY <3>1, <3>2, FS_Subset
  <2>9. CountTotal(a.told.parts, DOMAIN a.told.parts) = Cardinality(a.told.selected)
    BY <2>5, <2>8, ContainAddsUp
  <2>10. MapThenSumSet(LAMBDA o : a.told.parts[o].count, DOMAIN a.told.parts) = Cardinality(a.told.selected)
    BY <2>9 DEF CountTotal
  <2> HIDE DEF sel, old, chosen
  <2>11. \A p \in CountUnplaceable(DB, sel) : Meets(DB, DB.parts[p], sel)
    BY <2>6 DEF CountUnplaceable
  <2>12. \A p \in a.told.unplaceable : Meets(DB, DB.parts[p], [a.asked EXCEPT !.window = {}])
    BY <2>4, <2>5, <2>6, <2>11
  <2>13. (CHOOSE x \in a.asked.window : TRUE) = w
    BY <2>4
  <2>14. ASSUME NEW p \in DOMAIN DB.parts \cap DOMAIN FirstView(a).parts,
                DB.parts[p] = FirstView(a).parts[p],
                Meets(DB, DB.parts[p], [a.asked EXCEPT !.window = {}]),
                Meets(FirstView(a), FirstView(a).parts[p], [a.asked EXCEPT !.window = {}])
         PROVE  Cardinality({k \in {"selected", "unplaceable", "outside"} :
                  CASE k = "selected" -> p \in a.told.selected
                    [] k = "unplaceable" -> p \in a.told.unplaceable
                    [] k = "outside" -> \E i \in AnchorsOf(DB.parts[p], a.asked.anchor) :
                                          ~InWindow(CHOOSE x \in a.asked.window : TRUE, i)}) = 1
    <3> DEFINE P == AnchorsOf(DB.parts[p], anchor)
    <3>1. p \in DOMAIN DB.parts /\ p \in DOMAIN old.parts /\ DB.parts[p] = old.parts[p]
      BY <2>14 DEF old
    <3>2. Meets(DB, DB.parts[p], sel) /\ Meets(old, old.parts[p], sel)
      BY <2>4, <2>6, <2>14 DEF old
    <3>3. p \in a.told.selected <=> \E t \in P : InWindow(w, t)
      BY <2>4, <2>5, <3>1, <3>2 DEF SelectParts, chosen
    <3>4. p \in a.told.unplaceable <=> P = {}
      BY <2>4, <2>5, <2>6, <3>1, <3>2 DEF CountUnplaceable
    <3>5. \A t, u \in P : t = u
      BY <2>7
    <3>6. P = AnchorsOf(DB.parts[p], a.asked.anchor)
      BY <2>4
    <3> HIDE DEF P
    <3>7. Cardinality({k \in {"selected", "unplaceable", "outside"} :
            CASE k = "selected" -> \E t \in P : InWindow(w, t)
              [] k = "unplaceable" -> P = {}
              [] k = "outside" -> \E t \in P : ~InWindow(w, t)}) = 1
      BY <3>5, OneOfThree
    <3> QED
      BY <2>13, <3>3, <3>4, <3>6, <3>7
  <2> QED
    BY <2>10, <2>12, <2>14
<1> QED
  BY <1>1, AnalysisInvHolds, PTL

(* Each link of the chain a stop is opened with leads to the next along the    *)
(* line, in an episode that had begun by then; no episode is used twice; and a *)
(* cause outside the line is named at the end it would come in by              *)
(* (propagation.py).                                                          *)
THEOREM ChainsAreEvidence == Spec => []ChainIsEvidence
<1>1. AnalysisInv => ChainIsEvidence
  <2> SUFFICES ASSUME AnalysisInv, NEW a \in Told("get_stop")
               PROVE  LET d == a.told.derivation
                          chain == d.links
                          neighbour(link) ==
                            IF link.buffer = CARRIER_RETURN THEN TailOf(DB.topology)
                            ELSE LET l == CHOOSE l \in DB.topology : l.buffer = link.buffer IN
                                 IF link.episode.reason.direction = "starved" THEN l.up ELSE l.down
                      IN /\ \A i \in 1 .. Len(chain) - 1 : LET link == chain[i]  next == chain[i + 1] IN
                              /\ link.episode.state = CONSEQUENCE_STATE
                              /\ next.episode.station = neighbour(link)
                              /\ next.episode.from <= link.since /\ link.since <= link.episode.from
                              /\ link.episode.from - LeadIn <= link.since
                         /\ IsInjective([i \in DOMAIN chain |-> <<chain[i].episode.station, chain[i].episode.from>>])
                         /\ d.termination = "cause_candidate"
                              => chain[Len(chain)].episode.state \in CAUSE_CANDIDATE_STATES
                         /\ CategoryOf(d) = "external_upstream"
                              => chain[Len(chain)].episode.station = HeadOf(DB.topology)
                         /\ CategoryOf(d) = "external_downstream"
                              => chain[Len(chain)].episode.station = TailOf(DB.topology)
    BY DEF ChainIsEvidence
  <2>1. PICK there \in Scenarios : there = scenario
    BY DEF AnalysisInv
  <2>2. PICK absent, clock, began : absent = missing /\ clock = now /\ began = a.asked
    OBVIOUS
  <2>3. PICK db : db = View(there.db, absent)
    OBVIOUS
  <2>4. DB = db
    BY <2>1, <2>2, <2>3 DEF DB
  <2>v. PICK asOf : asOf = FirstView(a)
    OBVIOUS
  <2>5. a.told = GetStop(asOf, db, clock, began) /\ a.told.status = 200
    <3>1. a.op = "get_stop" /\ a.told.status = 200 /\ a.told = Outcome(a)
      BY ToldByTwoViews DEF TWO_VIEWS
    <3> QED
      BY <2>2, <2>4, <2>v, <3>1 DEF Outcome
  <2>6. Evidence(a.told.derivation, DB.topology)
    BY <2>3, <2>4, <2>5, StopsAreEvident
  <2> QED
    BY <2>6 DEF Evidence, Leads, Neighbour, Key
<1> QED
  BY <1>1, AnalysisInvHolds, PTL

(* What is lost to a window is the time its gaps cover together, in every      *)
(* answer that carries a coverage (coverage.py).                               *)
THEOREM CoverageIsTheUnion == Spec => []CoverageMeasuresTheUnion
<1>1. AnalysisInv => CoverageMeasuresTheUnion
  <2> SUFFICES ASSUME AnalysisInv, NEW op \in {"coverage", "list_stops", "inspection_stats", "patterns", "get_stop"},
                      NEW a \in Told(op)
               PROVE  LET c == a.told.coverage
                          w == CASE op = "get_stop" -> Window(a.told.stop.from, a.told.stop.to)
                                 [] op = "inspection_stats" -> a.asked.window
                                 [] OTHER -> a.asked
                          dark == {t \in w.from .. (w.to - 1) : \E g \in DB.gaps : g.from <= t /\ t < g.to}
                      IN c.uncovered = Cardinality(dark) /\ (c.fully_covered <=> dark = {})
    BY DEF CoverageMeasuresTheUnion
  <2>1. PICK there \in Scenarios : there = scenario
    BY DEF AnalysisInv
  <2>2. PICK absent, clock, began : absent = missing /\ clock = now /\ began = a.asked
    OBVIOUS
  <2>3. PICK db : db = View(there.db, absent)
    OBVIOUS
  <2>4. DB = db
    BY <2>1, <2>2, <2>3 DEF DB
  <2>5. /\ IsFiniteSet(db.gaps) /\ \A g \in db.gaps : g.from \in Int /\ g.to \in Int
        /\ GoodOutputs(db)
    BY <2>3, ViewOf, OutputsAre
  <2>6. \A w \in scenario.windows : w.from \in Int /\ w.to \in Int
    BY <2>1, ScenariosAssumption DEF Spans
  <2>7. a.op = op /\ a.told.status = 200 /\ AnswerRight(a) /\ clock \in Int
    BY <2>2 DEF AnalysisInv, Told
  <2>8. a.told # Unprocessable
    BY <2>7 DEF Unprocessable
  <2>v. PICK asOf : asOf = FirstView(a)
    OBVIOUS
  <2>g. GoodOutputs(asOf)
    <3>1. PICK unseen : unseen = a.unseen
      OBVIOUS
    <3>2. asOf = View(there.db, unseen)
      BY <2>1, <2>v, <3>1 DEF FirstView
    <3> QED
      BY <3>2, OutputsAre
  <2>o. op \in TWO_VIEWS => a.told = Outcome(a) /\ AskedRight(op, a.asked)
    BY ToldByTwoViews
  <2> DEFINE w == CASE op = "get_stop" -> Window(a.told.stop.from, a.told.stop.to)
                    [] op = "inspection_stats" -> a.asked.window
                    [] OTHER -> a.asked
  <2>9. a.told.coverage = CoverageOf(db, w) /\ w.from \in Int /\ w.to \in Int
    <3>1. CASE op = "get_stop"
      <4>1. w = Window(a.told.stop.from, a.told.stop.to)
        BY <3>1
      <4>2. a.told = GetStop(asOf, db, clock, began)
        BY <2>2, <2>4, <2>7, <2>v, <2>o, <3>1 DEF Outcome, TWO_VIEWS
      <4>3. /\ a.told.stop.from \in Int /\ a.told.stop.to \in Int
            /\ a.told.coverage = CoverageOf(db, Window(a.told.stop.from, a.told.stop.to))
        <5>1. GetStop(asOf, db, clock, began).status = 200
          BY <2>7, <4>2
        <5>2. clock \in Int /\ GoodOutputs(db) /\ GoodOutputs(asOf)
          BY <2>5, <2>7, <2>g
        <5>3. LET d == GetStop(asOf, db, clock, began) IN
              /\ d.stop.from \in Int /\ d.stop.to \in Int
              /\ d.coverage = CoverageOf(db, Window(d.stop.from, d.stop.to))
          BY <5>1, <5>2, StopIs
        <5> QED
          BY <4>2, <5>3
      <4> HIDE DEF w
      <4> QED
        BY <4>1, <4>3 DEF Window
    <3>2. CASE op = "inspection_stats"
      <4>1. w = a.asked.window
        BY <3>2
      <4>2. w \in scenario.windows /\ a.told = InspectionStats(asOf, db, w, a.asked.by)
        BY <2>4, <2>7, <2>v, <2>o, <3>2, <4>1 DEF AskedRight, Forwards, Outcome, TWO_VIEWS
      <4> HIDE DEF w
      <4>3. InspectionStats(asOf, db, w, a.asked.by).coverage = CoverageOf(db, w)
        BY DEF InspectionStats
      <4> QED
        BY <2>6, <4>2, <4>3
    <3>3. CASE op = "coverage"
      <4>1. w = a.asked
        BY <3>3
      <4>2. w \in scenario.windows /\ a.told = [status |-> 200, coverage |-> CoverageOf(db, w)]
        BY <2>4, <2>7, <2>8, <3>3, <4>1 DEF AnswerRight, CoverageRight, Measured
      <4> HIDE DEF w
      <4> QED
        BY <2>6, <4>2
    <3>4. CASE op = "list_stops"
      <4>1. w = a.asked
        BY <3>4
      <4>2. w \in scenario.windows /\ a.told = ListStops(asOf, db, w)
        BY <2>4, <2>7, <2>v, <2>o, <3>4, <4>1 DEF AskedRight, Forwards, Outcome, TWO_VIEWS
      <4> HIDE DEF w
      <4>3. ListStops(asOf, db, w).coverage = CoverageOf(db, w)
        BY DEF ListStops
      <4> QED
        BY <2>6, <4>2, <4>3
    <3>5. CASE op = "patterns"
      <4>1. w = a.asked
        BY <3>5
      <4>2. w \in scenario.windows /\ a.told = InspectionPatterns(db, w)
        BY <2>4, <2>7, <2>8, <3>5, <4>1 DEF AnswerRight, PatternsRight, Measured
      <4> HIDE DEF w
      <4>3. InspectionPatterns(db, w).coverage = CoverageOf(db, w)
        BY DEF InspectionPatterns
      <4> QED
        BY <2>6, <4>2, <4>3
    <3> QED
      BY <3>1, <3>2, <3>3, <3>4, <3>5
  <2> HIDE DEF w
  <2>10. /\ a.told.coverage.uncovered = Cardinality(Dark(db, w))
         /\ a.told.coverage.fully_covered <=> Dark(db, w) = {}
    BY <2>5, <2>9, GapsCostTheUnion
  <2> QED
    BY <2>4, <2>10 DEF Dark, w
<1> QED
  BY <1>1, AnalysisInvHolds, PTL

(* A stop of a window that is over is named by the part its silence followed,  *)
(* whatever was stored between the statements of the request: its name is its  *)
(* own in the list, and if it is a silence still it can be opened, is the same *)
(* in every other list, and what opens holds the silence that was listed       *)
(* (routes_stops.py, stops.py).                                               *)
THEOREM IdentifiersResolve == Spec => []ListedStopResolves
<1>1. AnalysisInv => ListedStopResolves
  <2> SUFFICES ASSUME AnalysisInv, NEW a \in Told("list_stops"), IsClosed(a.asked, now)
               PROVE  LET listed == a.told.stops
                          silent(stop) == ~\E o \in Outputs(DB) : stop.from < o /\ o < stop.to
                      IN
                      /\ \A i \in DOMAIN listed : (silent(listed[i]) /\ listed[i].id # Unknown) => Opens(listed[i])
                      /\ \A i, j \in DOMAIN listed : i # j => listed[i].id # listed[j].id
                      /\ \A v \in {u \in scenario.windows : RunsForwards(u)} :
                           LET other == ListStops(DB, DB, v).stops IN
                           \A i \in DOMAIN listed, j \in DOMAIN other :
                             (/\ silent(listed[i]) /\ listed[i].from < other[j].to /\ other[j].from < listed[i].to
                              /\ Unknown \notin {listed[i].id, other[j].id}) => listed[i].id = other[j].id
    BY DEF ListedStopResolves
  <2>1. PICK there \in Scenarios : there = scenario
    BY DEF AnalysisInv
  <2>2. PICK absent, unseen, clock, w : absent = missing /\ unseen = a.unseen /\ clock = now /\ w = a.asked
    OBVIOUS
  <2>3. PICK db, asOf : db = View(there.db, absent) /\ asOf = View(there.db, unseen)
    OBVIOUS
  <2>4. DB = db /\ FirstView(a) = asOf
    BY <2>1, <2>2, <2>3 DEF DB, FirstView
  <2>o. /\ a.op = "list_stops" /\ missing \subseteq a.unseen
        /\ AskedRight("list_stops", a.asked) /\ a.told = Outcome(a)
    BY ToldByTwoViews DEF TWO_VIEWS
  <2>5. GoodOutputs(db) /\ GoodOutputs(asOf) /\ Outputs(asOf) \subseteq Outputs(db)
    <3>1. absent \subseteq unseen
      BY <2>2, <2>o
    <3> QED
      BY <2>3, <3>1, OutputsAre, OutputsGrow
  <2>6. \A v \in scenario.windows : v.from \in Int /\ v.to \in Int
    BY <2>1, ScenariosAssumption DEF Spans
  <2>7. w \in scenario.windows /\ RunsForwards(w) /\ a.told = ListStops(asOf, db, w)
    BY <2>2, <2>4, <2>o DEF AskedRight, Forwards, Outcome
  <2>8. clock \in Int /\ w.to <= clock
    BY <2>2 DEF AnalysisInv, IsClosed
  <2>9. ASSUME NEW v \in scenario.windows, RunsForwards(v)
        PROVE  LET other == ListStops(db, db, v).stops IN
               \A i \in DOMAIN other : \E s \in Listed(db, v) :
                 /\ Silent(db, v, s) /\ other[i].id = OutputAtOrBefore(db, s.from)
                 /\ other[i].from = s.from /\ other[i].to = s.to
    BY <2>5, <2>6, <2>9, ListIs
  <2> DEFINE listed == ListStops(asOf, db, w).stops
  <2> DEFINE silent(stop) == ~\E o \in Outputs(db) : stop.from < o /\ o < stop.to
  <2>10. /\ \A i \in DOMAIN listed : \E s \in Listed(asOf, w) :
               /\ Silent(asOf, w, s) /\ listed[i].id = OutputAtOrBefore(db, s.from)
               /\ listed[i].from = s.from /\ listed[i].to = s.to
         /\ \A i, j \in DOMAIN listed : i # j => listed[i].from # listed[j].from
    BY <2>5, <2>6, <2>7, ListIs
  <2> HIDE DEF listed
  <2>11. w.from \in Int /\ w.to \in Int
    BY <2>6, <2>7
  <2>s. ASSUME NEW i \in DOMAIN listed, silent(listed[i])
        PROVE  \E s : /\ Silent(db, w, s) /\ listed[i].id = OutputAtOrBefore(db, s.from)
                      /\ listed[i].from = s.from /\ listed[i].to = s.to
    <3>1. PICK s \in Listed(asOf, w) : /\ Silent(asOf, w, s) /\ listed[i].id = OutputAtOrBefore(db, s.from)
                                       /\ listed[i].from = s.from /\ listed[i].to = s.to
      BY <2>10
    <3>2. ASSUME NEW p \in Outputs(db), p > s.from
          PROVE  p >= s.to
      <4>1. p \in Int /\ s.from \in Int /\ s.to \in Int
        BY <2>5, <3>1 DEF GoodOutputs, Silent
      <4>2. ~(s.from < p /\ p < s.to)
        BY <2>s, <3>1
      <4> QED
        BY <3>2, <4>1, <4>2
    <3>3. Silent(db, w, s)
      BY <2>5, <3>1, <3>2 DEF Silent
    <3> QED
      BY <3>1, <3>3
  <2>12. ASSUME NEW i \in DOMAIN listed, silent(listed[i]), listed[i].id # Unknown
         PROVE  Opens(listed[i])
    <3>1. PICK s : /\ Silent(db, w, s) /\ listed[i].id = OutputAtOrBefore(db, s.from)
                   /\ listed[i].from = s.from /\ listed[i].to = s.to
      BY <2>12, <2>s
    <3>2. PICK id : id = listed[i].id
      OBVIOUS
    <3>3. LET d == GetStop(db, db, clock, id) IN
          d.status = 200 /\ d.stop.id = id /\ d.stop.from <= s.from /\ s.to <= d.stop.to
      BY <2>5, <2>8, <2>11, <2>12, <3>1, <3>2, SilentOpens
    <3>4. GetStop(DB, DB, now, listed[i].id) = GetStop(db, db, clock, id)
      BY <2>2, <2>4, <3>2
    <3> QED
      BY <3>1, <3>2, <3>3, <3>4 DEF Opens
  <2>13. ASSUME NEW i \in DOMAIN listed, NEW j \in DOMAIN listed, i # j
         PROVE  listed[i].id # listed[j].id
    <3>1. PICK s \in Listed(asOf, w) : /\ Silent(asOf, w, s) /\ listed[i].id = OutputAtOrBefore(db, s.from)
                                       /\ listed[i].from = s.from
      BY <2>10
    <3>2. PICK t \in Listed(asOf, w) : /\ Silent(asOf, w, t) /\ listed[j].id = OutputAtOrBefore(db, t.from)
                                       /\ listed[j].from = t.from
      BY <2>10
    <3>3. s.from # t.from /\ s.from \in Int /\ t.from \in Int
      BY <2>10, <2>13, <3>1, <3>2 DEF Silent
    <3>4. CASE s.from < t.from
      BY <2>5, <2>11, <3>1, <3>2, <3>4, NamesDiffer
    <3>5. CASE t.from < s.from
      BY <2>5, <2>11, <3>1, <3>2, <3>5, NamesDiffer
    <3> QED
      BY <3>3, <3>4, <3>5
  <2>14. ASSUME NEW v \in {u \in scenario.windows : RunsForwards(u)},
                NEW i \in DOMAIN listed, NEW j \in DOMAIN ListStops(db, db, v).stops, silent(listed[i]),
                listed[i].from < ListStops(db, db, v).stops[j].to, ListStops(db, db, v).stops[j].from < listed[i].to,
                listed[i].id # Unknown, ListStops(db, db, v).stops[j].id # Unknown
         PROVE  listed[i].id = ListStops(db, db, v).stops[j].id
    <3>1. PICK s : /\ Silent(db, w, s) /\ listed[i].id = OutputAtOrBefore(db, s.from)
                   /\ listed[i].from = s.from /\ listed[i].to = s.to
      BY <2>14, <2>s
    <3>2. PICK other : other = ListStops(db, db, v).stops
      OBVIOUS
    <3>3. PICK t \in Listed(db, v) : /\ Silent(db, v, t) /\ other[j].id = OutputAtOrBefore(db, t.from)
                                     /\ other[j].from = t.from /\ other[j].to = t.to
      BY <2>9, <3>2
    <3>4. /\ s.from < t.to /\ t.from < s.to
          /\ OutputAtOrBefore(db, s.from) # Unknown /\ OutputAtOrBefore(db, t.from) # Unknown
      BY <2>14, <3>1, <3>2, <3>3
    <3>5. OutputAtOrBefore(db, s.from) = OutputAtOrBefore(db, t.from)
      BY <2>5, <3>1, <3>3, <3>4, NamesAgree
    <3> QED
      BY <3>1, <3>2, <3>3, <3>5
  <2>15. a.told.stops = listed
    BY <2>7 DEF listed
  <2> QED
    BY <2>4, <2>12, <2>13, <2>14, <2>15
<1> QED
  BY <1>1, AnalysisInvHolds, PTL

-----------------------------------------------------------------------------
(* Fractions.                                                                *)

IsFraction(p) == p.num \in Nat /\ p.den \in Nat \ {0}

LEMMA Cancels ==
  ASSUME NEW x \in Int, NEW y \in Int, NEW d \in Nat \ {0}, x * d <= y * d
  PROVE  x <= y
OBVIOUS

LEMMA Products ==
  ASSUME NEW x \in Nat, NEW y \in Nat
  PROVE  x * y \in Nat /\ (x # 0 /\ y # 0 => x * y # 0)
OBVIOUS

LEMMA Scales ==
  ASSUME NEW x \in Int, NEW y \in Int, NEW d \in Nat, x <= y
  PROVE  x * d <= y * d
OBVIOUS

LEMMA AtMostTotal ==
  ASSUME NEW p, NEW q, IsFraction(p), IsFraction(q)
  PROVE  AtMost(p, q) \/ AtMost(q, p)
BY Products DEF AtMost, IsFraction

LEMMA AtMostTrans ==
  ASSUME NEW p, NEW q, NEW r, IsFraction(p), IsFraction(q), IsFraction(r), AtMost(p, q), AtMost(q, r)
  PROVE  AtMost(p, r)
<1> DEFINE a == p.num  b == p.den  c == q.num  d == q.den  e == r.num  f == r.den
<1>1. /\ a \in Nat /\ b \in Nat \ {0} /\ c \in Nat /\ d \in Nat \ {0} /\ e \in Nat /\ f \in Nat \ {0}
      /\ a * d <= c * b /\ c * f <= e * d
  BY DEF AtMost, IsFraction
<1> HIDE DEF a, b, c, d, e, f
<1>2. /\ a * d \in Nat /\ c * b \in Nat /\ c * f \in Nat /\ e * d \in Nat /\ a * f \in Nat /\ e * b \in Nat
  BY <1>1, Products
<1>3. (a * d) * f <= (c * b) * f /\ (c * f) * b <= (e * d) * b
  BY <1>1, <1>2, Scales
<1>4. (a * d) * f = (a * f) * d /\ (c * b) * f = (c * f) * b /\ (e * d) * b = (e * b) * d
  BY <1>1
<1>5. (a * f) * d <= (e * b) * d
  <2>1. (a * f) * d <= (c * f) * b /\ (c * f) * b <= (e * b) * d
    BY <1>3, <1>4
  <2>2. (a * f) * d \in Nat /\ (c * f) * b \in Nat /\ (e * b) * d \in Nat
    BY <1>1, <1>2, Products
  <2> QED
    BY <2>1, <2>2
<1>6. a * f <= e * b
  BY <1>1, <1>2, <1>5, Cancels
<1> QED
  BY <1>6 DEF AtMost, a, b, e, f

LEMMA TimesIs ==
  ASSUME NEW p, IsFraction(p), NEW n \in Nat, NEW d \in Nat \ {0}
  PROVE  /\ IsFraction(Times(p, n, d))
         /\ d <= n => AtMost(p, Times(p, n, d))
<1>1. p.num \in Nat /\ p.den \in Nat \ {0}
  BY DEF IsFraction
<1>2. p.num * n \in Nat /\ p.den * d \in Nat \ {0} /\ p.num * p.den \in Nat
  BY <1>1, Products
<1>3. Times(p, n, d).num = p.num * n /\ Times(p, n, d).den = p.den * d
  BY DEF Times
<1>4. ASSUME d <= n
      PROVE  p.num * (p.den * d) <= (p.num * n) * p.den
  <2>1. d * (p.num * p.den) <= n * (p.num * p.den)
    BY <1>2, <1>4, Scales
  <2>2. d * (p.num * p.den) = p.num * (p.den * d) /\ n * (p.num * p.den) = (p.num * n) * p.den
    BY <1>1
  <2> QED
    BY <2>1, <2>2
<1> QED
  BY <1>2, <1>3, <1>4 DEF IsFraction, AtMost

LEMMA LessOfIs ==
  ASSUME NEW p, NEW q, IsFraction(p), IsFraction(q)
  PROVE  /\ LessOf(p, q) \in {p, q} /\ IsFraction(LessOf(p, q))
         /\ AtMost(LessOf(p, q), p) /\ AtMost(LessOf(p, q), q)
<1>1. AtMost(p, p) /\ AtMost(q, q)
  BY DEF AtMost, IsFraction
<1>2. AtMost(p, q) \/ AtMost(q, p)
  BY AtMostTotal
<1> QED
  BY <1>1, <1>2 DEF LessOf

-----------------------------------------------------------------------------
(* Recursion over an interval.                                               *)

LEMMA Upward ==
  ASSUME NEW n \in Nat, NEW B, 0 \in B, \A i \in 0 .. (n - 1) : i \in B => i + 1 \in B
  PROVE  \A i \in 0 .. n : i \in B
<1> DEFINE Missing == {i \in 0 .. n : i \notin B}
<1>1. SUFFICES ASSUME Missing # {}
               PROVE  FALSE
  OBVIOUS
<1>2. IsFiniteSet(Missing) /\ Missing \subseteq Int
  <2>1. IsFiniteSet(0 .. n) /\ Missing \in SUBSET (0 .. n)
    BY FS_Interval
  <2> QED
    BY <2>1, FS_Subset
<1>3. PICK m \in Missing : \A i \in Missing : m <= i
  <2> HIDE DEF Missing
  <2> QED
    BY <1>1, <1>2, HasLeast
<1>4. m # 0 /\ m \in 0 .. n /\ m \notin B
  OBVIOUS
<1>5. m - 1 \in 0 .. (n - 1) /\ m - 1 \in 0 .. n /\ (m - 1) + 1 = m /\ ~(m <= m - 1)
  BY <1>4
<1>6. m - 1 \in B
  BY <1>3, <1>5
<1> QED
  BY <1>4, <1>5, <1>6

(* What a step at a time makes of a start.                                    *)
Iterates(f, n, start, step) ==
  f = [i \in 0 .. n |-> IF i = 0 THEN start ELSE step[i][f[i - 1]]]

LEMMA IterationExists ==
  ASSUME NEW n \in Nat, NEW start, NEW step
  PROVE  \E f : Iterates(f, n, start, step)
<1> DEFINE B == {i \in 0 .. n : \E f : Iterates(f, i, start, step)}
<1>1. 0 \in B
  <2> DEFINE f == [i \in 0 .. 0 |-> start]
  <2>1. \A i \in 0 .. 0 : i = 0
    OBVIOUS
  <2>2. f = [i \in 0 .. 0 |-> IF i = 0 THEN start ELSE step[i][f[i - 1]]]
    BY <2>1
  <2> HIDE DEF f
  <2>3. Iterates(f, 0, start, step)
    BY <2>2 DEF Iterates
  <2> QED
    BY <2>3
<1>2. ASSUME NEW k \in 0 .. (n - 1), k \in B
      PROVE  k + 1 \in B
  <2>1. PICK g : Iterates(g, k, start, step)
    BY <1>2
  <2> DEFINE f == [i \in 0 .. (k + 1) |-> IF i = k + 1 THEN step[i][g[k]] ELSE g[i]]
  <2>2. \A i \in 0 .. k : i # k + 1 /\ i \in 0 .. (k + 1) /\ (i # 0 => i - 1 \in 0 .. k)
    OBVIOUS
  <2>3. \A i \in 0 .. k : f[i] = g[i]
    BY <2>2
  <2>4. ASSUME NEW i \in 0 .. (k + 1)
        PROVE  f[i] = IF i = 0 THEN start ELSE step[i][f[i - 1]]
    <3>1. CASE i = k + 1
      <4>1. i # 0 /\ i - 1 = k /\ k \in 0 .. k
        BY <3>1
      <4>2. f[i] = step[i][g[k]]
        BY <3>1
      <4> HIDE DEF f
      <4> QED
        BY <2>3, <4>1, <4>2
    <3>2. CASE i # k + 1
      <4>1. i \in 0 .. k
        BY <3>2
      <4>2. g[i] = IF i = 0 THEN start ELSE step[i][g[i - 1]]
        BY <2>1, <4>1 DEF Iterates
      <4> HIDE DEF f
      <4> QED
        BY <2>2, <2>3, <4>1, <4>2
    <3> QED
      BY <3>1, <3>2
  <2>5. f = [i \in 0 .. (k + 1) |-> f[i]]
    OBVIOUS
  <2> HIDE DEF f
  <2>6. f = [i \in 0 .. (k + 1) |-> IF i = 0 THEN start ELSE step[i][f[i - 1]]]
    BY <2>4, <2>5
  <2> QED
    BY <2>6 DEF Iterates
<1> HIDE DEF B
<1>3. n \in B
  BY <1>1, <1>2, Upward
<1> QED
  BY <1>3 DEF B

LEMMA IterationStays ==
  ASSUME NEW n \in Nat, NEW start, NEW step, NEW f, Iterates(f, n, start, step),
         NEW S, start \in S, \A i \in 1 .. n : \A x \in S : step[i][x] \in S
  PROVE  \A i \in 0 .. n : f[i] \in S
<1> DEFINE B == {i \in 0 .. n : f[i] \in S}
<1>1. 0 \in B
  BY DEF Iterates
<1>2. ASSUME NEW k \in 0 .. (n - 1), k \in B
      PROVE  k + 1 \in B
  <2>1. k + 1 \in 1 .. n /\ k + 1 \in 0 .. n /\ k + 1 # 0 /\ (k + 1) - 1 = k
    OBVIOUS
  <2>2. f[k + 1] = step[k + 1][f[k]]
    BY <2>1 DEF Iterates
  <2> QED
    BY <1>2, <2>1, <2>2
<1> HIDE DEF B
<1>3. \A i \in 0 .. n : i \in B
  BY <1>1, <1>2, Upward
<1> QED
  BY <1>3 DEF B

-----------------------------------------------------------------------------
(* The exact test.                                                           *)

LEMMA ChooseIs ==
  ASSUME NEW n \in Nat, NEW k \in 0 .. n
  PROVE  Choose(n, k) \in Nat \ {0}
<1> DEFINE step == [i \in 1 .. k |-> [x \in Nat \ {0} |-> (x * (n - k + i)) \div i]]
           Ways(f) == f = [i \in 0 .. k |-> IF i = 0 THEN 1 ELSE (f[i - 1] * (n - k + i)) \div i]
           S == Nat \ {0}
<1>1. ASSUME NEW i \in 1 .. k, NEW x \in S
      PROVE  (x * (n - k + i)) \div i \in S
  <2>1. n - k + i \in Nat /\ i \in Nat \ {0} /\ n - k + i >= i
    OBVIOUS
  <2>2. x * (n - k + i) \in Nat /\ i <= x * (n - k + i)
    <3>1. x * (n - k + i) \in Nat  BY <2>1, Products
    <3>2. 1 * (n - k + i) <= x * (n - k + i)  BY <2>1, Scales
    <3> QED BY <2>1, <3>1, <3>2
  <2> QED
    BY <2>1, <2>2
<1>2. PICK f : Iterates(f, k, 1, step)
  <2> HIDE DEF step
  <2>1. k \in Nat
    OBVIOUS
  <2> QED
    BY <2>1, IterationExists
<1>3. \A i \in 1 .. k : \A x \in S : step[i][x] = (x * (n - k + i)) \div i
  OBVIOUS
<1>4. \A g : Iterates(g, k, 1, step) /\ (\A i \in 0 .. k : g[i] \in S) => Ways(g)
  <2> SUFFICES ASSUME NEW g, Iterates(g, k, 1, step), \A i \in 0 .. k : g[i] \in S
               PROVE  Ways(g)
    OBVIOUS
  <2> HIDE DEF step, S
  <2>1. \A i \in 0 .. k : i # 0 => i \in 1 .. k /\ i - 1 \in 0 .. k
    OBVIOUS
  <2>2. \A i \in 0 .. k : g[i] = IF i = 0 THEN 1 ELSE (g[i - 1] * (n - k + i)) \div i
    <3> TAKE i \in 0 .. k
    <3>1. g[i] = IF i = 0 THEN 1 ELSE step[i][g[i - 1]]
      BY DEF Iterates
    <3> QED
      BY <1>3, <2>1, <3>1
  <2>3. g = [i \in 0 .. k |-> g[i]]
    BY DEF Iterates
  <2> QED
    BY <2>2, <2>3
<1>5. \A i \in 0 .. k : f[i] \in S
  <2>1. \A i \in 1 .. k : \A x \in S : step[i][x] \in S
    BY <1>1, <1>3
  <2>2. 1 \in S
    OBVIOUS
  <2> HIDE DEF step, S
  <2> QED
    BY <1>2, <2>1, <2>2, IterationStays
<1>6. \E g : Ways(g)
  BY <1>2, <1>4, <1>5
<1> DEFINE ways == CHOOSE g : Ways(g)
<1>7. Choose(n, k) = ways[k]
  BY DEF Choose
<1>8. Ways(ways)
  BY <1>6
<1> HIDE DEF ways
<1> DEFINE B == {i \in 0 .. k : ways[i] \in S}
<1>9. \A i \in 0 .. k : i \in B
  <2>1. 0 \in B
    BY <1>8
  <2>2. ASSUME NEW i \in 0 .. (k - 1), i \in B
        PROVE  i + 1 \in B
    <3>1. i + 1 \in 1 .. k /\ i + 1 \in 0 .. k /\ i + 1 # 0 /\ (i + 1) - 1 = i
      OBVIOUS
    <3>2. ways[i + 1] = (ways[i] * (n - k + (i + 1))) \div (i + 1)
      BY <1>8, <3>1
    <3>3. ways[i] \in S
      BY <2>2
    <3> HIDE DEF S
    <3> QED
      BY <1>1, <3>1, <3>2, <3>3
  <2> HIDE DEF B
  <2> QED
    BY <2>1, <2>2, Upward
<1> QED
  BY <1>7, <1>9

(* A sum of numbers is one.                                                   *)
NumberTotal(t, S) == MapThenSumSet(LAMBDA x : t[x], S)

LEMMA IntervalCounts ==
  ASSUME NEW n \in Nat
  PROVE  IsFiniteSet(1 .. n) /\ Cardinality(1 .. n) = n
<1>1. 1 \in Int /\ n \in Int
  OBVIOUS
<1>2. IsFiniteSet(1 .. n) /\ Cardinality(1 .. n) = IF 1 > n THEN 0 ELSE n - 1 + 1
  BY <1>1, FS_Interval
<1>3. 1 > n => n = 0
  OBVIOUS
<1> QED
  BY <1>2, <1>3

LEMMA NumbersSum ==
  ASSUME NEW t, NEW S, IsFiniteSet(S), \A x \in S : t[x] \in Nat
  PROVE  NumberTotal(t, S) \in Nat
<1> DEFINE own == [x \in S |-> {x} \X (1 .. t[x])]
           n == [x \in S |-> Cardinality(own[x])]
           all == UNION {own[x] : x \in S}
           g == [s \in SUBSET S |-> Cardinality(Together(own, s))]
<1>1. ASSUME NEW x \in S
      PROVE  IsFiniteSet(own[x]) /\ n[x] = t[x]
  <2>1. IsFiniteSet({x}) /\ Cardinality({x}) = 1 /\ IsFiniteSet(1 .. t[x]) /\ Cardinality(1 .. t[x]) = t[x]
    <3>1. t[x] \in Nat
      OBVIOUS
    <3>2. IsFiniteSet(1 .. t[x]) /\ Cardinality(1 .. t[x]) = t[x]
      BY <3>1, IntervalCounts
    <3> QED
      BY <3>2, FS_Singleton
  <2>2. IsFiniteSet({x} \X (1 .. t[x])) /\ Cardinality({x} \X (1 .. t[x])) = 1 * t[x]
    BY <2>1, FS_Product
  <2> QED
    BY <2>2
<1>2. Apart(own, S)
  BY DEF Apart
<1>3. IsFiniteSet(all)
  <2>1. IsFiniteSet({own[x] : x \in S})
    <3> HIDE DEF own
    <3> QED
      BY ImageIsFinite
  <2> HIDE DEF own
  <2> QED
    BY <1>1, <2>1, FS_UNION
<1>4. Sums(g, S, n)
  <2>1. \A x \in S : own[x] \subseteq all
    OBVIOUS
  <2> HIDE DEF own, all
  <2> QED
    BY <1>2, <1>3, <2>1, TogetherSums
<1>5. g[S] \in Nat
  <2>1. Together(own, S) = all
    BY DEF Together
  <2>2. g[S] = Cardinality(Together(own, S))
    OBVIOUS
  <2> HIDE DEF g, all, own
  <2> QED
    BY <1>3, <2>1, <2>2, FS_CardinalityType
<1> HIDE DEF g, n, own
<1> DEFINE Takes(f) == f = [s \in SUBSET S |-> IF s = {} THEN 0
                               ELSE t[CHOOSE x \in s : TRUE] + f[s \ {CHOOSE x \in s : TRUE}]]
           iter == CHOOSE f : Takes(f)
           h == [s \in SUBSET S |-> g[s]]
<1>6. Takes(h)
  <2>1. ASSUME NEW s \in SUBSET S
        PROVE  h[s] = IF s = {} THEN 0 ELSE t[CHOOSE x \in s : TRUE] + h[s \ {CHOOSE x \in s : TRUE}]
    <3> DEFINE x == CHOOSE y \in s : TRUE
    <3>1. g[s] = IF s = {} THEN 0 ELSE n[x] + g[s \ {x}]
      BY <1>4 DEF Sums
    <3>2. s # {} => x \in s
      OBVIOUS
    <3> HIDE DEF x
    <3>3. s \ {x} \in SUBSET S
      OBVIOUS
    <3>4. h[s] = IF s = {} THEN 0 ELSE t[x] + h[s \ {x}]
      BY <1>1, <3>1, <3>2, <3>3
    <3> QED
      BY <3>4 DEF x
  <2> QED
    BY <2>1
<1>7. Takes(iter)
  BY <1>6
<1>8. NumberTotal(t, S) = iter[S]
  BY DEF NumberTotal, MapThenSumSet, MapThenFoldSet
<1> HIDE DEF iter
<1>9. ASSUME NEW s \in SUBSET S
      PROVE  iter[s] = IF s = {} THEN 0 ELSE n[CHOOSE x \in s : TRUE] + iter[s \ {CHOOSE x \in s : TRUE}]
  <2> DEFINE x == CHOOSE y \in s : TRUE
  <2>1. iter[s] = IF s = {} THEN 0 ELSE t[x] + iter[s \ {x}]
    BY <1>7
  <2>2. s # {} => x \in s
    OBVIOUS
  <2> HIDE DEF x
  <2>3. iter[s] = IF s = {} THEN 0 ELSE n[x] + iter[s \ {x}]
    BY <1>1, <2>1, <2>2
  <2> QED
    BY <2>3 DEF x
<1>10. Sums(iter, S, n)
  BY <1>9 DEF Sums
<1> QED
  BY <1>4, <1>5, <1>8, <1>10, OneSum

(* How many of how many.                                                      *)
AreCounts(c) == c.trials \in Nat /\ c.successes \in 0 .. c.trials

LEMMA ExactIsFraction ==
  ASSUME NEW observed, NEW reference, AreCounts(observed), AreCounts(reference)
  PROVE  IsFraction(ExactPValue(observed, reference))
<1> DEFINE trials == observed.trials + reference.trials
           successes == observed.successes + reference.successes
           failures == trials - successes
           possible == {k \in 0 .. Earlier(successes, observed.trials) : observed.trials - k <= failures}
           tables == [k \in possible |-> Choose(successes, k) * Choose(failures, observed.trials - k)]
           counted == {k \in possible : tables[k] <= tables[observed.successes]}
           p == ExactPValue(observed, reference)
<1>1. /\ observed.trials \in Nat /\ observed.successes \in 0 .. observed.trials
      /\ reference.trials \in Nat /\ reference.successes \in 0 .. reference.trials
  BY DEF AreCounts
<1>2. p.num = NumberTotal(tables, counted) /\ p.den = Choose(trials, observed.trials)
  BY DEF ExactPValue, NumberTotal
<1>3. /\ trials \in Nat /\ successes \in Nat /\ failures \in Nat
      /\ observed.trials \in 0 .. trials
  BY <1>1
<1>4. Earlier(successes, observed.trials) \in Nat
      /\ Earlier(successes, observed.trials) <= successes
      /\ Earlier(successes, observed.trials) <= observed.trials
  BY <1>1, <1>3 DEF Earlier
<1> HIDE DEF p, trials, successes, failures
<1>5. p.den \in Nat \ {0}
  BY <1>2, <1>3, ChooseIs
<1>6. ASSUME NEW k \in possible
      PROVE  tables[k] \in Nat
  <2>1. k \in 0 .. successes /\ observed.trials - k \in 0 .. failures
    BY <1>1, <1>3, <1>4
  <2>2. Choose(successes, k) \in Nat /\ Choose(failures, observed.trials - k) \in Nat
    BY <1>3, <2>1, ChooseIs
  <2> QED
    BY <2>2, Products
<1>7. IsFiniteSet(counted)
  <2>1. IsFiniteSet(0 .. Earlier(successes, observed.trials))
    BY <1>4, FS_Interval
  <2>2. counted \in SUBSET (0 .. Earlier(successes, observed.trials))
    OBVIOUS
  <2> QED
    BY <2>1, <2>2, FS_Subset
<1>8. NumberTotal(tables, counted) \in Nat
  <2>1. \A k \in counted : tables[k] \in Nat
    BY <1>6
  <2> HIDE DEF tables, counted
  <2> QED
    BY <1>7, <2>1, NumbersSum
<1> HIDE DEF tables, counted
<1> QED
  BY <1>2, <1>5, <1>8 DEF IsFraction, p

LEMMA LenIs ==
  ASSUME NEW n \in Nat, NEW S, NEW s \in [1 .. n -> S]
  PROVE  Len(s) = n /\ DOMAIN s = 1 .. n
<1>1. s \in Seq(S)
  OBVIOUS
<1> QED
  BY <1>1

(* A test that ran has a p-value, and its verdict is what that is without the  *)
(* correction.                                                                *)
Tested(c) == c.tested => IsFraction(c.p) /\ (AtMost(c.p, Alpha) => c.verdict = "significant")

LEMMA TestedIs ==
  ASSUME NEW observed, NEW reference, AreCounts(observed), AreCounts(reference)
  PROVE  LET c == CompareProportions(observed, reference) IN
         c.observed = observed /\ c.reference = reference /\ Tested(c)
<1> DEFINE c == CompareProportions(observed, reference)
           p == ExactPValue(observed, reference)
           tested == observed.trials >= MinimumSample /\ reference.trials >= MinimumSample
<1>1. IsFraction(p)
  BY ExactIsFraction
<1>2. /\ c.observed = observed /\ c.reference = reference /\ c.tested = tested
      /\ c.p = IF tested THEN p ELSE One
      /\ c.verdict = IF ~tested THEN "not_enough_data"
                     ELSE IF AtMost(p, Alpha) THEN "significant" ELSE "not_significant"
  BY DEF CompareProportions
<1> HIDE DEF c, p, tested
<1>3. Tested(c)
  BY <1>1, <1>2 DEF Tested
<1> QED
  BY <1>2, <1>3 DEF c

(* Tests that ran, in the order of their p-values.                            *)
Ranks(ranked, n, comparisons) ==
  /\ ranked \in [1 .. n -> [key : DOMAIN comparisons, p : {comparisons[k].p : k \in DOMAIN comparisons}]]
  /\ \A i \in 1 .. n : comparisons[ranked[i].key].tested /\ ranked[i].p = comparisons[ranked[i].key].p
  /\ \A i, j \in 1 .. n : i < j => AtMost(ranked[i].p, ranked[j].p)

LEMMA RankedIs ==
  ASSUME NEW comparisons, IsFiniteSet(DOMAIN comparisons), \A k \in DOMAIN comparisons : Tested(comparisons[k])
  PROVE  \E n \in Nat : Ranks(Ranked(comparisons), n, comparisons)
<1> DEFINE ran == {k \in DOMAIN comparisons : comparisons[k].tested}
           test == [k \in ran |-> [key |-> k, p |-> comparisons[k].p]]
           tests == {test[k] : k \in ran}
           R == {e \in tests \X tests : AtMost(e[1].p, e[2].p)}
           n == Cardinality(tests)
           Sorted(s) == /\ s \in [1 .. n -> tests]
                        /\ IsInjective(s) /\ \A i, j \in DOMAIN s : i < j => AtMost(s[i].p, s[j].p)
<1>1. tests = {[key |-> k, p |-> comparisons[k].p] : k \in {x \in DOMAIN comparisons : comparisons[x].tested}}
  OBVIOUS
<1>2. Ranked(comparisons) = CHOOSE s : Sorted(s)
  <2>1. Ranked(comparisons) = CHOOSE s \in [1 .. n -> tests] :
                                IsInjective(s) /\ \A i, j \in DOMAIN s : i < j => AtMost(s[i].p, s[j].p)
    BY <1>1 DEF Ranked
  <2> HIDE DEF tests, n
  <2> QED
    BY <2>1
<1>3. \A x \in tests : x.key \in ran /\ x.p = comparisons[x.key].p /\ x = [key |-> x.key, p |-> x.p] /\ IsFraction(x.p)
  <2> DEFINE Is(x) == x.key \in ran /\ x.p = comparisons[x.key].p /\ x = [key |-> x.key, p |-> x.p] /\ IsFraction(x.p)
  <2>1. ASSUME NEW k \in ran
        PROVE  Is(test[k])
    <3>1. IsFraction(comparisons[k].p)
      BY DEF Tested
    <3> QED
      BY <3>1
  <2>2. \A x \in tests : Is(x)
    <3> HIDE DEF Is, test, ran
    <3> QED
      BY <2>1
  <2> QED
    BY <2>2
<1>4. IsFiniteSet(tests)
  <2>1. IsFiniteSet(ran)
    BY FS_Subset
  <2> HIDE DEF ran, test
  <2> QED
    BY <2>1, ImageIsFinite
<1>5. n \in Nat
  BY <1>4, FS_CardinalityType
<1> HIDE DEF tests
<1>6. \A x, y \in tests : <<x, y>> \in R <=> AtMost(x.p, y.p)
  OBVIOUS
<1> HIDE DEF R
<1>7. Orders(R, tests)
  <2>1. \A x, y \in tests : <<x, y>> \in R \/ <<y, x>> \in R
    BY <1>3, <1>6, AtMostTotal
  <2>2. \A x, y, z \in tests : <<x, y>> \in R /\ <<y, z>> \in R => <<x, z>> \in R
    BY <1>3, <1>6, AtMostTrans
  <2> QED
    BY <2>1, <2>2 DEF Orders
<1>8. PICK s : SortedBy(s, tests, R)
  BY <1>4, <1>7, SortExists
<1>9. Sorted(s)
  <2>1. s \in [1 .. n -> tests] /\ IsInjective(s) /\ \A i, j \in DOMAIN s : i < j => <<s[i], s[j]>> \in R
    BY <1>8 DEF SortedBy
  <2> QED
    BY <1>6, <2>1
<1> DEFINE r == Ranked(comparisons)
<1>10. Sorted(r)
  <2> HIDE DEF Sorted
  <2> QED
    BY <1>2, <1>9
<1> HIDE DEF r, n
<1>11. r \in [1 .. n -> tests] /\ \A i, j \in 1 .. n : i < j => AtMost(r[i].p, r[j].p)
  BY <1>10
<1>12. tests \subseteq [key : DOMAIN comparisons, p : {comparisons[k].p : k \in DOMAIN comparisons}]
  BY <1>3
<1>13. \A i \in 1 .. n : comparisons[r[i].key].tested /\ r[i].p = comparisons[r[i].key].p
  BY <1>3, <1>11
<1>14. Ranks(r, n, comparisons)
  BY <1>11, <1>12, <1>13 DEF Ranks
<1> QED
  BY <1>5, <1>14 DEF r

-----------------------------------------------------------------------------
(* The step-up procedure.                                                    *)

FRACTIONS == [num : Nat, den : Nat \ {0}]

StepsUp(a, n, scaled) ==
  a = [i \in 1 .. n + 1 |-> IF i > n THEN One ELSE LessOf(a[i + 1], scaled[i])]

LEMMA FractionsAre ==
  /\ One \in FRACTIONS
  /\ \A p \in FRACTIONS : IsFraction(p)
  /\ \A p, q \in FRACTIONS : LessOf(p, q) \in FRACTIONS
BY DEF FRACTIONS, IsFraction, One, LessOf

LEMMA StepUpExists ==
  ASSUME NEW n \in Nat, NEW scaled, \A i \in 1 .. n : scaled[i] \in FRACTIONS
  PROVE  \E a : StepsUp(a, n, scaled)
<1> DEFINE step == [k \in 1 .. n |-> [x \in FRACTIONS |-> LessOf(x, scaled[n + 1 - k])]]
<1>1. PICK f : Iterates(f, n, One, step)
  <2> HIDE DEF step
  <2> QED
    BY IterationExists
<1>2. \A k \in 1 .. n : \A x \in FRACTIONS : step[k][x] = LessOf(x, scaled[n + 1 - k])
  OBVIOUS
<1> HIDE DEF step
<1>3. \A k \in 1 .. n : n + 1 - k \in 1 .. n
  OBVIOUS
<1>4. \A k \in 0 .. n : f[k] \in FRACTIONS
  <2>1. \A k \in 1 .. n : \A x \in FRACTIONS : step[k][x] \in FRACTIONS
    BY <1>2, <1>3, FractionsAre
  <2> QED
    BY <1>1, <2>1, FractionsAre, IterationStays
<1> DEFINE a == [i \in 1 .. n + 1 |-> f[n + 1 - i]]
<1>5. ASSUME NEW i \in 1 .. n + 1
      PROVE  a[i] = IF i > n THEN One ELSE LessOf(a[i + 1], scaled[i])
  <2>1. a[i] = f[n + 1 - i] /\ n + 1 - i \in 0 .. n
    OBVIOUS
  <2>2. CASE i > n
    <3>1. n + 1 - i = 0
      BY <2>2
    <3> QED
      BY <1>1, <2>1, <2>2, <3>1 DEF Iterates
  <2>3. CASE ~(i > n)
    <3> DEFINE k == n + 1 - i
    <3>1. k \in 1 .. n /\ k # 0 /\ k \in 0 .. n /\ k - 1 \in 0 .. n /\ i + 1 \in 1 .. n + 1
          /\ n + 1 - (i + 1) = k - 1 /\ n + 1 - k = i
      BY <2>3
    <3>2. a[i + 1] = f[k - 1]
      BY <3>1
    <3> HIDE DEF a
    <3>3. a[i] = f[k]
      BY <2>1
    <3> HIDE DEF k
    <3>4. f[k] = step[k][f[k - 1]]
      BY <1>1, <3>1 DEF Iterates
    <3>5. step[k][f[k - 1]] = LessOf(f[k - 1], scaled[i])
      BY <1>2, <1>4, <3>1
    <3> QED
      BY <2>3, <3>2, <3>3, <3>4, <3>5
  <2> QED
    BY <2>2, <2>3
<1>6. a = [i \in 1 .. n + 1 |-> a[i]]
  OBVIOUS
<1> HIDE DEF a
<1>7. StepsUp(a, n, scaled)
  BY <1>5, <1>6 DEF StepsUp
<1> QED
  BY <1>7

(* What the procedure has settled from position i on.                         *)
Settled(a, n, scaled, i) ==
  /\ a[i] \in FRACTIONS
  /\ \A j \in i .. n : AtMost(a[i], scaled[j])
  /\ a[i] = One \/ \E j \in i .. n : a[i] = scaled[j]
  /\ \A j \in i .. n + 1 : a[j] \in FRACTIONS /\ AtMost(a[i], a[j])

LEMMA StepUpSettles ==
  ASSUME NEW n \in Nat, NEW scaled, \A i \in 1 .. n : scaled[i] \in FRACTIONS,
         NEW a, StepsUp(a, n, scaled)
  PROVE  \A i \in 1 .. n + 1 : Settled(a, n, scaled, i)
<1> DEFINE B == {k \in 0 .. n : Settled(a, n, scaled, n + 1 - k)}
<1>1. 0 \in B
  <2>1. a[n + 1] = One
    BY DEF StepsUp
  <2>2. AtMost(One, One)
    BY DEF AtMost, One
  <2>3. \A j \in n + 1 .. n : FALSE
    OBVIOUS
  <2>4. \A j \in n + 1 .. n + 1 : j = n + 1
    OBVIOUS
  <2>5. Settled(a, n, scaled, n + 1)
    BY <2>1, <2>2, <2>3, <2>4, FractionsAre DEF Settled
  <2>6. n + 1 - 0 = n + 1 /\ 0 \in 0 .. n
    OBVIOUS
  <2> QED
    BY <2>5, <2>6
<1>2. ASSUME NEW k \in 0 .. (n - 1), k \in B
      PROVE  k + 1 \in B
  <2> DEFINE i == n - k
  <2>1. i \in 1 .. n /\ i \in 1 .. n + 1 /\ n + 1 - k = i + 1 /\ n + 1 - (k + 1) = i /\ k + 1 \in 0 .. n
    OBVIOUS
  <2>2. Settled(a, n, scaled, i + 1)
    BY <1>2, <2>1
  <2> HIDE DEF i
  <2>3. a[i] = LessOf(a[i + 1], scaled[i])
    BY <2>1 DEF StepsUp
  <2>4. a[i + 1] \in FRACTIONS /\ scaled[i] \in FRACTIONS
    BY <2>1, <2>2 DEF Settled
  <2>5. a[i] \in FRACTIONS /\ a[i] \in {a[i + 1], scaled[i]} /\ AtMost(a[i], a[i + 1]) /\ AtMost(a[i], scaled[i])
    BY <2>3, <2>4, FractionsAre, LessOfIs
  <2>6. \A j \in i .. n : j = i \/ j \in i + 1 .. n
    BY <2>1
  <2>7. \A j \in i .. n + 1 : j = i \/ j \in i + 1 .. n + 1
    BY <2>1
  <2>8. \A j \in i + 1 .. n : j \in i .. n /\ j \in 1 .. n
    BY <2>1
  <2>9. i \in i .. n
    BY <2>1
  <2>10. \A j \in i .. n : AtMost(a[i], scaled[j])
    <3> TAKE j \in i .. n
    <3>1. CASE j = i
      BY <2>5, <3>1
    <3>2. CASE j # i
      <4>1. j \in i + 1 .. n /\ j \in 1 .. n
        BY <2>6, <2>8, <3>2
      <4>2. AtMost(a[i + 1], scaled[j]) /\ scaled[j] \in FRACTIONS
        BY <2>2, <4>1 DEF Settled
      <4> QED
        BY <2>4, <2>5, <4>2, FractionsAre, AtMostTrans
    <3> QED
      BY <3>1, <3>2
  <2>11. a[i] = One \/ \E j \in i .. n : a[i] = scaled[j]
    <3>1. CASE a[i] = scaled[i]
      BY <2>9, <3>1
    <3>2. CASE a[i] = a[i + 1]
      BY <2>2, <2>8, <3>2 DEF Settled
    <3> QED
      BY <2>5, <3>1, <3>2
  <2>12. \A j \in i .. n + 1 : a[j] \in FRACTIONS /\ AtMost(a[i], a[j])
    <3> TAKE j \in i .. n + 1
    <3>1. CASE j = i
      <4>1. AtMost(a[i], a[i])
        BY <2>5, FractionsAre, AtMostTotal
      <4> QED
        BY <2>5, <3>1, <4>1
    <3>2. CASE j # i
      <4>1. a[j] \in FRACTIONS /\ AtMost(a[i + 1], a[j])
        BY <2>2, <2>7, <3>2 DEF Settled
      <4> QED
        BY <2>4, <2>5, <4>1, FractionsAre, AtMostTrans
    <3> QED
      BY <3>1, <3>2
  <2>13. Settled(a, n, scaled, i)
    BY <2>5, <2>10, <2>11, <2>12 DEF Settled
  <2> QED
    BY <2>1, <2>13
<1>3. \A k \in 0 .. n : k \in B
  <2> HIDE DEF B
  <2> QED
    BY <1>1, <1>2, Upward
<1> QED
  <2> TAKE i \in 1 .. n + 1
  <2>1. n + 1 - i \in 0 .. n /\ n + 1 - (n + 1 - i) = i
    OBVIOUS
  <2>2. n + 1 - i \in B
    BY <1>3, <2>1
  <2> QED
    BY <2>1, <2>2

LEMMA StepUpIs ==
  ASSUME NEW n \in Nat, NEW S, NEW ranked \in [1 .. n -> S], \A i \in 1 .. n : IsFraction(ranked[i].p)
  PROVE  \E a : /\ BenjaminiHochberg(ranked) = [i \in 1 .. n |-> a[i]]
                /\ \A i \in 1 .. n : Settled(a, n, [j \in 1 .. n |-> Times(ranked[j].p, n, j)], i)
<1> DEFINE scaled == [j \in 1 .. n |-> Times(ranked[j].p, n, j)]
           Adjusts(a) == a = [i \in 1 .. Len(ranked) + 1 |->
                                IF i > Len(ranked) THEN One
                                ELSE LessOf(a[i + 1], Times(ranked[i].p, Len(ranked), i))]
           adjusted == CHOOSE a : Adjusts(a)
<1>1. Len(ranked) = n /\ DOMAIN ranked = 1 .. n
  BY LenIs
<1>2. BenjaminiHochberg(ranked) = [i \in 1 .. n |-> adjusted[i]]
  BY <1>1 DEF BenjaminiHochberg
<1>3. \A i \in 1 .. n : scaled[i] = Times(ranked[i].p, n, i)
  OBVIOUS
<1>4. \A i \in 1 .. n : scaled[i] \in FRACTIONS
  <2> SUFFICES ASSUME NEW i \in 1 .. n
               PROVE  Times(ranked[i].p, n, i) \in FRACTIONS
    BY <1>3
  <2>1. IsFraction(Times(ranked[i].p, n, i))
    <3>1. i \in Nat \ {0}
      OBVIOUS
    <3> QED
      BY <3>1, TimesIs
  <2> QED
    BY <2>1 DEF Times, FRACTIONS, IsFraction
<1> HIDE DEF scaled
<1>5. \A a : Adjusts(a) <=> StepsUp(a, n, scaled)
  <2> TAKE a
  <2>1. [i \in 1 .. n + 1 |-> IF i > n THEN One ELSE LessOf(a[i + 1], Times(ranked[i].p, n, i))]
        = [i \in 1 .. n + 1 |-> IF i > n THEN One ELSE LessOf(a[i + 1], scaled[i])]
    <3>1. \A i \in 1 .. n + 1 : i > n \/ i \in 1 .. n
      OBVIOUS
    <3> QED
      BY <1>3, <3>1
  <2> QED
    BY <1>1, <2>1 DEF StepsUp
<1>6. \E a : Adjusts(a)
  BY <1>4, <1>5, StepUpExists
<1>7. StepsUp(adjusted, n, scaled)
  <2>1. Adjusts(adjusted)
    BY <1>6
  <2> HIDE DEF adjusted, Adjusts
  <2> QED
    BY <1>5, <2>1
<1> HIDE DEF adjusted
<1>8. \A i \in 1 .. n + 1 : Settled(adjusted, n, scaled, i)
  BY <1>4, <1>7, StepUpSettles
<1>9. \A i \in 1 .. n : i \in 1 .. n + 1
  OBVIOUS
<1> QED
  BY <1>2, <1>8, <1>9 DEF scaled

-----------------------------------------------------------------------------
(* Patterns.                                                                 *)

LEMMA CountsAre ==
  ASSUME NEW trials, IsFiniteSet(trials)
  PROVE  AreCounts(CountsOf(trials)) /\ CountsOf(trials).trials = Cardinality(trials)
<1> DEFINE met == {t \in trials : t.outcome}
<1>1. IsFiniteSet(met) /\ Cardinality(met) <= Cardinality(trials)
  BY FS_Subset
<1>2. Cardinality(met) \in Nat /\ Cardinality(trials) \in Nat
  BY <1>1, FS_CardinalityType
<1>3. CountsOf(trials) = [successes |-> Cardinality(met), trials |-> Cardinality(trials)]
  BY DEF CountsOf, Counts
<1> HIDE DEF met
<1> QED
  BY <1>1, <1>2, <1>3 DEF AreCounts

(* A value and the rest of its stratum are the stratum.                       *)
LEMMA ComparedIs ==
  ASSUME NEW trials, IsFiniteSet(trials)
  PROVE  /\ IsFiniteSet(DOMAIN Compare(trials))
         /\ \A k \in DOMAIN Compare(trials) :
              LET c == Compare(trials)[k] IN
              /\ Tested(c)
              /\ c.observed.trials + c.reference.trials = Cardinality({t \in trials : t.stratum = k[2]})
<1> DEFINE keys == {<<t.value, t.stratum>> : t \in trials}
           own(k) == {t \in trials : <<t.value, t.stratum>> = k}
           rest(k) == {t \in trials : t.stratum = k[2]} \ own(k)
           key == [t \in trials |-> <<t.value, t.stratum>>]
<1>1. Compare(trials) = [k \in keys |-> CompareProportions(CountsOf(own(k)), CountsOf(rest(k)))]
  BY DEF Compare
<1>2. IsFiniteSet(keys)
  <2>1. keys = {key[t] : t \in trials}
    OBVIOUS
  <2> HIDE DEF key, keys
  <2> QED
    BY <2>1, ImageIsFinite
<1>3. ASSUME NEW k \in keys
      PROVE  LET c == Compare(trials)[k] IN
             /\ Tested(c)
             /\ c.observed.trials + c.reference.trials = Cardinality({t \in trials : t.stratum = k[2]})
  <2>1. own(k) \subseteq trials /\ rest(k) \subseteq trials /\ own(k) \cap rest(k) = {}
        /\ own(k) \cup rest(k) = {t \in trials : t.stratum = k[2]}
    OBVIOUS
  <2>2. Compare(trials)[k] = CompareProportions(CountsOf(own(k)), CountsOf(rest(k)))
    BY <1>1
  <2> HIDE DEF own, rest
  <2>3. IsFiniteSet(own(k)) /\ IsFiniteSet(rest(k))
    BY <2>1, FS_Subset
  <2>4. /\ AreCounts(CountsOf(own(k))) /\ CountsOf(own(k)).trials = Cardinality(own(k))
        /\ AreCounts(CountsOf(rest(k))) /\ CountsOf(rest(k)).trials = Cardinality(rest(k))
    BY <2>3, CountsAre
  <2>5. Cardinality(own(k) \cup rest(k)) = Cardinality(own(k)) + Cardinality(rest(k))
    BY <2>1, <2>3, DisjointUnion
  <2>6. LET c == CompareProportions(CountsOf(own(k)), CountsOf(rest(k))) IN
        c.observed = CountsOf(own(k)) /\ c.reference = CountsOf(rest(k)) /\ Tested(c)
    BY <2>4, TestedIs
  <2> QED
    BY <2>1, <2>2, <2>4, <2>5, <2>6
<1> QED
  <2>1. DOMAIN Compare(trials) = keys
    BY <1>1
  <2> HIDE DEF keys
  <2> QED
    BY <1>2, <1>3, <2>1

Corrected(report, trials) ==
  LET found == report.patterns
      n == Len(found)
  IN \A i \in 1 .. n :
       /\ found[i].significant => /\ found[i].comparison.verdict = "significant"
                                  /\ \A j \in 1 .. i : found[j].significant
       /\ \A j \in i .. n : AtMost(found[i].adjusted, Times(found[j].comparison.p, n, j))
       /\ \/ AtMost(One, found[i].adjusted)
          \/ \E j \in i .. n : AtMost(Times(found[j].comparison.p, n, j), found[i].adjusted)
       /\ found[i].comparison.observed.trials + found[i].comparison.reference.trials + report.unattributed
            = Cardinality({t \in trials : t.value = None \/ t.stratum = found[i].key[2]})

LEMMA PatternsCorrect ==
  ASSUME NEW trials, IsFiniteSet(trials), Correction = "benjamini_hochberg"
  PROVE  Corrected(FindPatterns(trials), trials)
<1> DEFINE attributed == {t \in trials : t.value # None}
           comparisons == Compare(attributed)
           ranked == Ranked(comparisons)
           report == FindPatterns(trials)
           found == report.patterns
<1>1. IsFiniteSet(attributed) /\ IsFiniteSet(trials \ attributed)
  BY FS_Subset
<1>2. /\ report.unattributed = Cardinality(trials \ attributed)
      /\ found = [i \in DOMAIN ranked |->
                    [key |-> ranked[i].key, comparison |-> comparisons[ranked[i].key],
                     adjusted |-> Adjust(ranked)[i], significant |-> AtMost(Adjust(ranked)[i], Alpha)]]
  BY DEF FindPatterns
<1>3. Adjust(ranked) = BenjaminiHochberg(ranked)
  BY DEF Adjust
<1> HIDE DEF found, report, ranked
<1>4. /\ IsFiniteSet(DOMAIN comparisons)
      /\ \A k \in DOMAIN comparisons :
           /\ Tested(comparisons[k])
           /\ comparisons[k].observed.trials + comparisons[k].reference.trials
                = Cardinality({t \in attributed : t.stratum = k[2]})
  <2> HIDE DEF attributed
  <2> QED
    BY <1>1, ComparedIs
<1> HIDE DEF comparisons
<1>5. PICK n \in Nat : Ranks(ranked, n, comparisons)
  BY <1>4, RankedIs DEF ranked
<1>6. DOMAIN ranked = 1 .. n
  BY <1>5 DEF Ranks
<1>7. Len(found) = n
  <2> DEFINE S == {found[i] : i \in 1 .. n}
  <2>1. found \in [1 .. n -> S]
    BY <1>2, <1>6
  <2> HIDE DEF S
  <2> QED
    BY <2>1, LenIs
<1>8. \A i \in 1 .. n : /\ ranked[i].key \in DOMAIN comparisons
                        /\ comparisons[ranked[i].key].tested
                        /\ ranked[i].p = comparisons[ranked[i].key].p
  BY <1>5 DEF Ranks
<1>9. \A i \in 1 .. n : /\ IsFraction(ranked[i].p)
                        /\ AtMost(ranked[i].p, Alpha) => comparisons[ranked[i].key].verdict = "significant"
  BY <1>4, <1>8 DEF Tested
<1> DEFINE scaled == [j \in 1 .. n |-> Times(ranked[j].p, n, j)]
<1>10. PICK a : /\ BenjaminiHochberg(ranked) = [i \in 1 .. n |-> a[i]]
                /\ \A i \in 1 .. n : Settled(a, n, scaled, i)
  <2> DEFINE S == {ranked[i] : i \in 1 .. n}
  <2>1. ranked \in [1 .. n -> S]
    BY <1>5 DEF Ranks
  <2> HIDE DEF S
  <2> QED
    BY <1>9, <2>1, StepUpIs
<1>11. \A i \in 1 .. n : scaled[i] = Times(ranked[i].p, n, i)
  OBVIOUS
<1> HIDE DEF scaled
<1>12. ASSUME NEW i \in 1 .. n
       PROVE  /\ found[i].key = ranked[i].key /\ found[i].comparison = comparisons[ranked[i].key]
              /\ found[i].adjusted = a[i] /\ found[i].significant = AtMost(a[i], Alpha)
              /\ found[i].comparison.p = ranked[i].p
  BY <1>2, <1>3, <1>6, <1>8, <1>10
<1>13. IsFraction(Alpha) /\ IsFraction(One) /\ ~AtMost(One, Alpha)
  BY PartsAssumption DEF IsFraction, AtMost, One
<1>14. ASSUME NEW i \in 1 .. n
       PROVE  /\ a[i] \in FRACTIONS
              /\ \A j \in i .. n : j \in 1 .. n /\ AtMost(a[i], scaled[j])
              /\ a[i] = One \/ \E j \in i .. n : a[i] = scaled[j]
              /\ \A j \in i .. n : a[j] \in FRACTIONS /\ AtMost(a[i], a[j])
  <2>1. \A j \in i .. n : j \in 1 .. n /\ j \in i .. n + 1
    OBVIOUS
  <2> QED
    BY <1>10, <2>1 DEF Settled
<1>15. ASSUME NEW i \in 1 .. n, found[i].significant
       PROVE  found[i].comparison.verdict = "significant" /\ \A j \in 1 .. i : found[j].significant
  <2>1. AtMost(a[i], Alpha) /\ IsFraction(a[i])
    BY <1>12, <1>14, <1>15, FractionsAre
  <2>2. a[i] # One
    BY <1>13, <2>1
  <2>3. PICK j \in i .. n : a[i] = scaled[j]
    BY <1>14, <2>2
  <2>4. j \in 1 .. n /\ j \in Nat \ {0} /\ j <= n
    OBVIOUS
  <2>5. IsFraction(scaled[j]) /\ AtMost(ranked[j].p, scaled[j])
    BY <1>9, <1>11, <2>4, TimesIs
  <2>6. AtMost(ranked[j].p, Alpha)
    BY <1>9, <1>13, <2>1, <2>3, <2>4, <2>5, AtMostTrans
  <2>7. i < j => AtMost(ranked[i].p, ranked[j].p)
    BY <1>5, <2>4 DEF Ranks
  <2>8. AtMost(ranked[i].p, Alpha)
    <3>1. CASE i = j
      BY <2>6, <3>1
    <3>2. CASE i < j
      BY <1>9, <1>13, <2>4, <2>6, <2>7, <3>2, AtMostTrans
    <3> QED
      BY <3>1, <3>2
  <2>9. found[i].comparison.verdict = "significant"
    BY <1>9, <1>12, <2>8
  <2>10. ASSUME NEW h \in 1 .. i
         PROVE  found[h].significant
    <3>1. h \in 1 .. n /\ i \in h .. n
      OBVIOUS
    <3>2. AtMost(a[h], a[i]) /\ a[h] \in FRACTIONS
      BY <1>14, <3>1
    <3>3. AtMost(a[h], Alpha)
      BY <1>13, <2>1, <3>2, FractionsAre, AtMostTrans
    <3> QED
      BY <1>12, <3>1, <3>3
  <2> QED
    BY <2>9, <2>10
<1>16. ASSUME NEW i \in 1 .. n
       PROVE  /\ \A j \in i .. n : AtMost(found[i].adjusted, Times(found[j].comparison.p, n, j))
              /\ \/ AtMost(One, found[i].adjusted)
                 \/ \E j \in i .. n : AtMost(Times(found[j].comparison.p, n, j), found[i].adjusted)
  <2>1. \A j \in i .. n : j \in 1 .. n /\ Times(found[j].comparison.p, n, j) = scaled[j]
    BY <1>11, <1>12, <1>14
  <2>2. found[i].adjusted = a[i] /\ AtMost(a[i], a[i])
    BY <1>12, <1>14, FractionsAre, AtMostTotal
  <2> QED
    BY <1>14, <2>1, <2>2
<1>17. ASSUME NEW i \in 1 .. n
       PROVE  found[i].comparison.observed.trials + found[i].comparison.reference.trials + report.unattributed
                = Cardinality({t \in trials : t.value = None \/ t.stratum = found[i].key[2]})
  <2> DEFINE key == ranked[i].key
             own == {t \in attributed : t.stratum = key[2]}
             all == {t \in trials : t.value = None \/ t.stratum = key[2]}
  <2>1. own \cap (trials \ attributed) = {} /\ own \cup (trials \ attributed) = all /\ own \subseteq attributed
    OBVIOUS
  <2>2. IsFiniteSet(own)
    BY <1>1, <2>1, FS_Subset
  <2>3. comparisons[key].observed.trials + comparisons[key].reference.trials = Cardinality(own)
    BY <1>4, <1>8
  <2> HIDE DEF own, attributed
  <2>4. Cardinality(own \cup (trials \ attributed)) = Cardinality(own) + Cardinality(trials \ attributed)
    BY <1>1, <2>1, <2>2, DisjointUnion
  <2>5. found[i].comparison = comparisons[key] /\ found[i].key = key
    BY <1>12
  <2> HIDE DEF key
  <2> QED
    BY <1>2, <2>1, <2>3, <2>4, <2>5
<1>18. Corrected(report, trials)
  BY <1>7, <1>15, <1>16, <1>17 DEF Corrected, found
<1> QED
  BY <1>18 DEF report

-----------------------------------------------------------------------------
(* Every dimension's trials.                                                 *)

LEMMA ViewComponents ==
  ASSUME NEW s \in Scenarios, NEW absent
  PROVE  IsFiniteSet(View(s.db, absent).components)
<1>1. View(s.db, absent).components \subseteq s.db.components
  BY DEF View
<1>2. IsFiniteSet(s.db.components)
  BY ScenariosAssumption
<1> QED
  BY <1>1, <1>2, FS_Subset

LEMMA LotsAreFinite ==
  ASSUME NEW db, IsFiniteSet(db.components), NEW row
  PROVE  IsFiniteSet(LotsOf(db, row))
<1> DEFINE lot == [k \in db.components |-> k.lot]
           lots == {lot[k] : k \in db.components}
           read(serial) == {k.lot : k \in {c \in db.components : c.serial = serial}}
<1>1. LotsOf(db, row) = {IF read(serial) = {} THEN None ELSE CHOOSE l \in read(serial) : TRUE : serial \in row.components}
  BY DEF LotsOf
<1>2. \A serial : read(serial) \subseteq lots
  OBVIOUS
<1>3. IsFiniteSet(lots)
  <2> HIDE DEF lot
  <2> QED
    BY ImageIsFinite
<1> HIDE DEF lots, read
<1>4. LotsOf(db, row) \subseteq lots \cup {None}
  BY <1>1, <1>2
<1>5. IsFiniteSet(lots \cup {None})
  BY <1>3, FS_AddElement
<1> QED
  BY <1>4, <1>5, FS_Subset

DIMENSIONS == {"carrier", "lot", "time", "defect_class", "carrier_within_class"}

LEMMA TrialsAreFinite ==
  ASSUME NEW db, Countable(db), IsFiniteSet(db.components), NEW w
  PROVE  /\ DOMAIN TrialsOf(db, w) = DIMENSIONS
         /\ \A name \in DIMENSIONS : IsFiniteSet(TrialsOf(db, w)[name])
<1> DEFINE S == InspectedIn(db, w)
           P == S \X Classes
<1>1. IsFiniteSet(S)
  <2>1. S \subseteq DOMAIN db.parts
    BY DEF InspectedIn, Inspected
  <2> HIDE DEF S
  <2> QED
    BY <2>1, FS_Subset DEF Countable
<1>2. IsFiniteSet(P)
  <2> HIDE DEF S
  <2> QED
    BY <1>1, PartsAssumption, FS_Product
<1>3. IsFiniteSet(CarrierTrials(db, w))
  <2> DEFINE f == [p \in S |-> [of |-> p, value |-> Verdict(db, p).carrier, stratum |-> "all",
                                outcome |-> p \in RejectedIn(db, w)]]
  <2>1. CarrierTrials(db, w) = {f[p] : p \in S}
    BY DEF CarrierTrials
  <2> HIDE DEF f, S
  <2> QED
    BY <1>1, <2>1, ImageIsFinite
<1>4. IsFiniteSet(TimeTrials(db, w))
  <2> DEFINE f == [p \in S |-> [of |-> p, value |-> ToString(BucketStart(Verdict(db, p).at)), stratum |-> "all",
                                outcome |-> p \in RejectedIn(db, w)]]
  <2>1. TimeTrials(db, w) = {f[p] : p \in S}
    BY DEF TimeTrials
  <2> HIDE DEF f, S
  <2> QED
    BY <1>1, <2>1, ImageIsFinite
<1>5. IsFiniteSet(ClassTrials(db, w))
  <2> DEFINE trial(p, c) == [of |-> p, value |-> c, stratum |-> "all", outcome |-> c \in Verdict(db, p).classes]
             f == [e \in P |-> trial(e[1], e[2])]
  <2>1. ClassTrials(db, w) = {trial(p, c) : p \in S, c \in Classes}
    BY DEF ClassTrials
  <2>2. \A p \in S, c \in Classes : <<p, c>> \in P /\ f[<<p, c>>] = trial(p, c)
    OBVIOUS
  <2>3. \A e \in P : e[1] \in S /\ e[2] \in Classes /\ f[e] = trial(e[1], e[2])
    OBVIOUS
  <2> HIDE DEF f, P, trial, S
  <2>4. ASSUME NEW t \in ClassTrials(db, w)
        PROVE  t \in {f[e] : e \in P}
    <3>1. PICK p \in S, c \in Classes : t = trial(p, c)
      BY <2>1
    <3> QED
      BY <2>2, <3>1
  <2>5. ASSUME NEW t \in {f[e] : e \in P}
        PROVE  t \in ClassTrials(db, w)
    BY <2>1, <2>3
  <2>6. ClassTrials(db, w) = {f[e] : e \in P}
    BY <2>4, <2>5
  <2> QED
    BY <1>2, <2>6, ImageIsFinite
<1>6. IsFiniteSet(CarrierWithinClassTrials(db, w))
  <2> DEFINE trial(p, c) == [of |-> p, value |-> Verdict(db, p).carrier, stratum |-> c, outcome |-> c \in Verdict(db, p).classes]
             f == [e \in P |-> trial(e[1], e[2])]
  <2>1. CarrierWithinClassTrials(db, w) = {trial(p, c) : p \in S, c \in Classes}
    BY DEF CarrierWithinClassTrials
  <2>2. \A p \in S, c \in Classes : <<p, c>> \in P /\ f[<<p, c>>] = trial(p, c)
    OBVIOUS
  <2>3. \A e \in P : e[1] \in S /\ e[2] \in Classes /\ f[e] = trial(e[1], e[2])
    OBVIOUS
  <2> HIDE DEF f, P, trial, S
  <2>4. ASSUME NEW t \in CarrierWithinClassTrials(db, w)
        PROVE  t \in {f[e] : e \in P}
    <3>1. PICK p \in S, c \in Classes : t = trial(p, c)
      BY <2>1
    <3> QED
      BY <2>2, <3>1
  <2>5. ASSUME NEW t \in {f[e] : e \in P}
        PROVE  t \in CarrierWithinClassTrials(db, w)
    BY <2>1, <2>3
  <2>6. CarrierWithinClassTrials(db, w) = {f[e] : e \in P}
    BY <2>4, <2>5
  <2> QED
    BY <1>2, <2>6, ImageIsFinite
<1>7. IsFiniteSet(LotTrials(db, w))
  <2> DEFINE lots(p) == IF LotsOf(db, db.parts[p]) = {} THEN {None} ELSE LotsOf(db, db.parts[p])
             of(p) == {[of |-> p, value |-> l, stratum |-> "all", outcome |-> p \in RejectedIn(db, w)] : l \in lots(p)}
             f == [p \in S |-> of(p)]
  <2>1. LotTrials(db, w) = UNION {f[p] : p \in S}
    BY DEF LotTrials
  <2>2. ASSUME NEW p \in S
        PROVE  IsFiniteSet(f[p])
    <3>1. IsFiniteSet(lots(p))
      BY LotsAreFinite, FS_Singleton
    <3> DEFINE g == [l \in lots(p) |-> [of |-> p, value |-> l, stratum |-> "all", outcome |-> p \in RejectedIn(db, w)]]
    <3>2. f[p] = {g[l] : l \in lots(p)}
      OBVIOUS
    <3> HIDE DEF f, g, lots
    <3> QED
      BY <3>1, <3>2, ImageIsFinite
  <2> HIDE DEF f, S
  <2>3. IsFiniteSet({f[p] : p \in S})
    BY <1>1, ImageIsFinite
  <2> QED
    BY <2>1, <2>2, <2>3, FS_UNION
<1> QED
  BY <1>3, <1>4, <1>5, <1>6, <1>7 DEF TrialsOf, DIMENSIONS

(* By the step-up procedure, a pattern is called significant only if it would  *)
(* be without the correction and no more convincing one is not, the adjusted   *)
(* values are the ones the procedure defines, and every trial is compared or   *)
(* is counted as attributed to nothing (patterns.py, significance.py).         *)
THEOREM PatternsAreRight == Correction = "benjamini_hochberg" => (Spec => []PatternsAreCorrected)
<1> SUFFICES ASSUME Correction = "benjamini_hochberg"
             PROVE  Spec => []PatternsAreCorrected
  OBVIOUS
<1>1. AnalysisInv => PatternsAreCorrected
  <2> SUFFICES ASSUME AnalysisInv, NEW a \in Told("patterns"), NEW name \in DOMAIN a.told.dimensions
               PROVE  Corrected(a.told.dimensions[name], TrialsOf(DB, a.asked)[name])
    BY DEF PatternsAreCorrected, Corrected
  <2>1. PICK there \in Scenarios : there = scenario
    BY DEF AnalysisInv
  <2>2. PICK absent, w : absent = missing /\ w = a.asked
    OBVIOUS
  <2>3. PICK db : db = View(there.db, absent)
    OBVIOUS
  <2>4. DB = db
    BY <2>1, <2>2, <2>3 DEF DB
  <2>5. Countable(db) /\ IsFiniteSet(db.components)
    BY <2>3, ViewCounts, ViewComponents
  <2>6. a.op = "patterns" /\ a.told.status = 200 /\ AnswerRight(a)
    BY DEF AnalysisInv, Told
  <2>7. a.told = InspectionPatterns(db, w)
    BY <2>2, <2>4, <2>6 DEF AnswerRight, PatternsRight, Measured, Unprocessable
  <2>8. a.told.dimensions = [x \in DIMENSIONS |-> FindPatterns(TrialsOf(db, w)[x])]
    <3>1. DOMAIN TrialsOf(db, w) = DIMENSIONS
      BY <2>5, TrialsAreFinite
    <3> QED
      BY <2>7, <3>1 DEF InspectionPatterns
  <2>9. name \in DIMENSIONS /\ IsFiniteSet(TrialsOf(db, w)[name])
    BY <2>5, <2>8, TrialsAreFinite
  <2>10. Corrected(FindPatterns(TrialsOf(db, w)[name]), TrialsOf(db, w)[name])
    BY <2>9, PatternsCorrect
  <2> QED
    BY <2>2, <2>4, <2>8, <2>9, <2>10
<1> QED
  BY <1>1, AnalysisInvHolds, PTL

=============================================================================
