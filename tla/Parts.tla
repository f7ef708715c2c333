-------------------------------- MODULE Parts --------------------------------
(***************************************************************************)
(* What is counted over parts: containment scopes, inspection statistics   *)
(* and patterns (analysis/containment.py, queries_traceability.py,         *)
(* routes_traceability.py, routes_inspection.py, patterns.py,              *)
(* significance.py).                                                       *)
(*                                                                         *)
(* A part's row is [created, carrier, components, force, inspected, left]: *)
(* the instant it was made or Unknown, its carrier or None, the serials of *)
(* its genealogy, its press force "in" or "out" of tolerance or None; and  *)
(* sets of none or one of [at, result, carrier, classes] and               *)
(* [at, disposition], classes being those that reached the threshold.  A   *)
(* component read at a feeder is [serial, lot, lane, at].                  *)
(***************************************************************************)
EXTENDS Stops

CONSTANTS
  Classes,           \* the classes the classifier scores
  InspectingStation, \* the station inspection results name
  SerialLimit, SampleLimit, BucketHours, MinimumSample,
  Alpha,             \* the significance level, a fraction [num, den]
  Correction         \* "none", "bonferroni" or "benjamini_hochberg"

ASSUME PartsAssumption ==
  /\ {SerialLimit, SampleLimit} \subseteq Nat /\ BucketHours \in Nat \ {0} /\ MinimumSample \in Nat \ {0}
  /\ {Alpha.num, Alpha.den} \subseteq Nat \ {0} /\ Alpha.num < Alpha.den
  /\ IsFiniteSet(Classes)

Inspected(db) == {p \in DOMAIN db.parts : db.parts[p].inspected # {}}
Verdict(db, p) == CHOOSE i \in db.parts[p].inspected : TRUE
InspectedIn(db, w) == {p \in Inspected(db) : InWindow(w, Verdict(db, p).at)}
RejectedIn(db, w) == {p \in InspectedIn(db, w) : Verdict(db, p).result = "reject"}

-----------------------------------------------------------------------------
(* Containment.  A selection is [window, anchor, carrier, lot, class, force],*)
(* window a set of none or one and every other criterion None for any.       *)

Anything == [window |-> {}, anchor |-> "created", carrier |-> None, lot |-> None, class |-> None,
             force |-> None]

\* The instant a station records of every part, "none" for the press; which station is
\* which is read off the topology and off the verdicts that have been stored.
StationAnchor(db, s) ==
  IF s = InspectingStation /\ Inspected(db) # {} THEN "inspected"
  ELSE IF UpstreamBuffersOf(db.topology, s) = {} THEN "created"
  ELSE IF DownstreamBuffersOf(db.topology, s) = {} THEN "left"
  ELSE None

AnchorsOf(row, anchor) ==
  CASE anchor = "created" -> {row.created} \ {Unknown}
    [] anchor = "inspected" -> {i.at : i \in row.inspected}
    [] anchor = "left" -> {l.at : l \in row.left}

\* A component that is only named by a genealogy has been read from no lot yet.
LotsOf(db, row) ==
  {LET read == {k.lot : k \in {c \in db.components : c.serial = serial}} IN
     IF read = {} THEN None ELSE CHOOSE lot \in read : TRUE : serial \in row.components}

Meets(db, row, sel) ==
  /\ sel.carrier \in {None, row.carrier}
  /\ sel.lot # None => sel.lot \in LotsOf(db, row)
  /\ sel.class # None => \E i \in row.inspected : sel.class \in i.classes
  /\ sel.force # None => row.force = sel.force

SelectParts(db, sel) ==
  {p \in DOMAIN db.parts : /\ Meets(db, db.parts[p], sel)
                           /\ \A w \in sel.window : \E t \in AnchorsOf(db.parts[p], sel.anchor) : InWindow(w, t)}

\* Mutant of CountUnplaceable: the criteria copied field by field, without the tolerance.
UnplaceableWithoutTolerance(db, sel) ==
  {p \in DOMAIN db.parts : /\ Meets(db, db.parts[p], [sel EXCEPT !.window = {}, !.force = None])
                           /\ AnchorsOf(db.parts[p], sel.anchor) = {}}

\* The parts that meet every criterion and have no instant a window could place them by.
CountUnplaceable(db, sel) ==
  {p \in DOMAIN db.parts : /\ Meets(db, db.parts[p], [sel EXCEPT !.window = {}])
                           /\ AnchorsOf(db.parts[p], sel.anchor) = {}}

OutcomeOf(row) ==
  CASE row.left = {} -> "on_the_line"
    [] \E l \in row.left : l.disposition = "reject" -> "rejected"
    [] OTHER -> "shipped"

\* The three groups; the count is exact and the serials are the first of them.
Contain(db, parts) ==
  [outcome \in {"rejected", "shipped", "on_the_line"} |->
     LET group == {p \in parts : OutcomeOf(db.parts[p]) = outcome} IN
     [count |-> Cardinality(group),
      serials |-> {p \in group : Cardinality({q \in group : q <= p}) <= SerialLimit},
      truncated |-> Cardinality(group) > SerialLimit]]

\* A carrier is known once a part or a verdict names it.
Carriers(db) == ({db.parts[p].carrier : p \in DOMAIN db.parts}
                  \cup {Verdict(db, p).carrier : p \in Inspected(db)}) \ {None}

\* GET /lots/{lot_code}/parts and GET /carriers/{id}/parts
LotParts(db, lot, window) ==
  IF lot \notin {k.lot : k \in db.components} THEN NotFound
  ELSE [status |-> 200, parts |-> Contain(db, SelectParts(db, [Anything EXCEPT !.lot = lot, !.window = window]))]

CarrierParts(db, carrier, window) ==
  IF carrier \notin Carriers(db) THEN NotFound
  ELSE [status |-> 200,
        parts |-> Contain(db, SelectParts(db, [Anything EXCEPT !.carrier = carrier, !.window = window]))]

\* GET /parts/{serial}: by the serial alone; a part is there for its assembly row or for a
\* verdict that was stored without one.
GetPart(db, p) ==
  IF p \notin DOMAIN db.parts THEN NotFound ELSE [status |-> 200, row |-> db.parts[p]]

\* GET /components/{serial}/assembly: a component that is in two assemblies is in the first,
\* and one still at its feeder is in none;
\* one that is only named by a genealogy is there without its lot.
ComponentAssembly(db, serial) ==
  LET read == {c \in db.components : c.serial = serial}
      built == {p \in DOMAIN db.parts : serial \in db.parts[p].components}
  IN IF read = {} /\ built = {} THEN NotFound
     ELSE [status |-> 200, lots |-> {c.lot : c \in read},
           assembly |-> IF built = {} THEN {} ELSE {Min(built)},
           left |-> IF built = {} THEN {} ELSE db.parts[Min(built)].left]

-----------------------------------------------------------------------------
(* Inspection statistics.                                                    *)

BucketStart(t) == (t \div BucketHours) * BucketHours

Group(key, from, to, parts, rejects) ==
  [key |-> key, from |-> from, to |-> to, parts |-> Cardinality(parts), rejects |-> Cardinality(rejects)]

\* Mutant of BucketStarts: the series would begin at the window and not on the clock.
BucketStartsFromTheWindow(w) == {t \in w.from .. (w.to - 1) : (t - w.from) % BucketHours = 0}

\* Every bucket the window touches, on the clock.
BucketStarts(w) == {BucketStart(t) : t \in w.from .. (w.to - 1)}

CountsByTimeBucket(db, w) ==
  {Group(b, Later(b, w.from), Earlier(b + BucketHours, w.to),
         {p \in InspectedIn(db, w) : BucketStart(Verdict(db, p).at) = b},
         {p \in RejectedIn(db, w) : BucketStart(Verdict(db, p).at) = b}) : b \in BucketStarts(w)}

\* A class called on nothing is counted too; its denominator is every part inspected, by the
\* count of the first statement.
DefectClassCounts(asOf, db, w) ==
  {Group(c, Unknown, Unknown, InspectedIn(asOf, w), {p \in InspectedIn(db, w) : c \in Verdict(db, p).classes}) :
     c \in IF InspectedIn(db, w) = {} THEN {} ELSE Classes}

CountsByCarrier(db, w) ==
  {Group(c, Unknown, Unknown, {p \in InspectedIn(db, w) : Verdict(db, p).carrier = c},
         {p \in RejectedIn(db, w) : Verdict(db, p).carrier = c}) :
     c \in {Verdict(db, p).carrier : p \in InspectedIn(db, w)} \ {None}}

\* By the feeder lane a component came from: a part is in every lane's group it drew from.
CountsByLane(db, w) ==
  LET from(lane, parts) == {p \in parts : \E k \in db.components :
                              k.serial \in db.parts[p].components /\ k.lane = lane} IN
  {Group(lane, Unknown, Unknown, from(lane, InspectedIn(db, w)), from(lane, RejectedIn(db, w))) :
     lane \in {l \in {k.lane : k \in db.components} : from(l, InspectedIn(db, w)) # {}}}

RejectsWithoutClass(db, w) == {p \in RejectedIn(db, w) : Verdict(db, p).classes = {}}

\* The first rejects of the window, to cite.
RejectSample(db, w) ==
  LET earlier(p) == {q \in RejectedIn(db, w) : Verdict(db, q).at < Verdict(db, p).at} IN
  {p \in RejectedIn(db, w) : Cardinality(earlier(p)) < SampleLimit}

GroupsOf(asOf, db, w, groupBy) ==
  CASE groupBy = "time" -> CountsByTimeBucket(db, w)
    [] groupBy = "defect_class" -> DefectClassCounts(asOf, db, w)
    [] groupBy = "carrier" -> CountsByCarrier(db, w)
    [] groupBy = "lane" -> CountsByLane(db, w)
    [] OTHER -> {}

\* GET /inspection/stats: the totals by the first statement, the breakdowns by later ones.
InspectionStats(asOf, db, w, groupBy) ==
  [status |-> 200,
   total |-> Cardinality(InspectedIn(asOf, w)),
   rejects |-> Cardinality(RejectedIn(asOf, w)),
   by_defect_class |-> DefectClassCounts(asOf, db, w),
   rejects_without_class |-> Cardinality(RejectsWithoutClass(db, w)),
   sample |-> RejectSample(db, w),
   coverage |-> CoverageOf(db, w),
   groups |-> GroupsOf(asOf, db, w, groupBy)]

-----------------------------------------------------------------------------
(* Significance: fractions [num, den].                                       *)

AtMost(a, b) == a.num * b.den <= b.num * a.den
LessOf(a, b) == IF AtMost(a, b) THEN a ELSE b
One == [num |-> 1, den |-> 1]
Counts(successes, trials) == [successes |-> successes, trials |-> trials]

\* The ways to choose k of n; every partial product is a whole number.
Choose(n, k) ==
  LET ways[i \in 0 .. k] == IF i = 0 THEN 1 ELSE (ways[i - 1] * (n - k + i)) \div i IN ways[k]

\* Fisher's exact test: the share of the tables with these margins that are no more likely
\* than the one observed.
ExactPValue(observed, reference) ==
  LET trials == observed.trials + reference.trials
      successes == observed.successes + reference.successes
      failures == trials - successes
      possible == {k \in 0 .. Earlier(successes, observed.trials) : observed.trials - k <= failures}
      tables == [k \in possible |-> Choose(successes, k) * Choose(failures, observed.trials - k)]
  IN [num |-> MapThenSumSet(LAMBDA k : tables[k],
                            {k \in possible : tables[k] <= tables[observed.successes]}),
      den |-> Choose(trials, observed.trials)]

\* Too few on either side and nothing is tested.
CompareProportions(observed, reference) ==
  LET tested == observed.trials >= MinimumSample /\ reference.trials >= MinimumSample
      p == ExactPValue(observed, reference)
  IN [observed |-> observed, reference |-> reference, tested |-> tested,
      p |-> IF tested THEN p ELSE One,
      verdict |-> IF ~tested THEN "not_enough_data"
                  ELSE IF AtMost(p, Alpha) THEN "significant" ELSE "not_significant"]

-----------------------------------------------------------------------------
(* Patterns.  A trial is [of, value, stratum, outcome], of naming the part.  *)

\* The trials of each dimension: of parts, of parts per lot they were built from, of parts
\* per class, along with the carrier.
CarrierTrials(db, w) ==
  {[of |-> p, value |-> Verdict(db, p).carrier, stratum |-> "all",
    outcome |-> p \in RejectedIn(db, w)] : p \in InspectedIn(db, w)}
LotTrials(db, w) ==
  UNION {{[of |-> p, value |-> l, stratum |-> "all", outcome |-> p \in RejectedIn(db, w)] :
            l \in IF LotsOf(db, db.parts[p]) = {} THEN {None} ELSE LotsOf(db, db.parts[p])} : p \in InspectedIn(db, w)}
ClassTrials(db, w) ==
  {[of |-> p, value |-> c, stratum |-> "all", outcome |-> c \in Verdict(db, p).classes] :
     p \in InspectedIn(db, w), c \in Classes}
TimeTrials(db, w) ==
  {[of |-> p, value |-> ToString(BucketStart(Verdict(db, p).at)), stratum |-> "all",
    outcome |-> p \in RejectedIn(db, w)] : p \in InspectedIn(db, w)}
CarrierWithinClassTrials(db, w) ==
  {[of |-> p, value |-> Verdict(db, p).carrier, stratum |-> c, outcome |-> c \in Verdict(db, p).classes] :
     p \in InspectedIn(db, w), c \in Classes}

CountsOf(trials) == Counts(Cardinality({t \in trials : t.outcome}), Cardinality(trials))

\* Every value against the rest of its stratum.
Compare(trials) ==
  LET keys == {<<t.value, t.stratum>> : t \in trials}
      own(k) == {t \in trials : <<t.value, t.stratum>> = k}
      rest(k) == {t \in trials : t.stratum = k[2]} \ own(k)
  IN [k \in keys |-> CompareProportions(CountsOf(own(k)), CountsOf(rest(k)))]

Times(p, n, d) == [num |-> p.num * n, den |-> p.den * d]

\* Mutant of BenjaminiHochberg: each test would be scaled by its rank and left there.
ScaledByRank(ranked) ==
  [i \in DOMAIN ranked |-> LessOf(One, Times(ranked[i].p, Len(ranked), i))]

\* Step-up: from the weakest test to the strongest, never past a less convincing one.
BenjaminiHochberg(ranked) ==
  LET adjusted[i \in 1 .. Len(ranked) + 1] ==
        IF i > Len(ranked) THEN One ELSE LessOf(adjusted[i + 1], Times(ranked[i].p, Len(ranked), i))
  IN [i \in DOMAIN ranked |-> adjusted[i]]

\* The tests that ran, from the most convincing on.
Ranked(comparisons) ==
  LET tests == {[key |-> k, p |-> comparisons[k].p] :
                  k \in {x \in DOMAIN comparisons : comparisons[x].tested}}
  IN CHOOSE s \in [1 .. Cardinality(tests) -> tests] :
       IsInjective(s) /\ \A i, j \in DOMAIN s : i < j => AtMost(s[i].p, s[j].p)

Adjust(ranked) ==
  CASE Correction = "none" -> [i \in DOMAIN ranked |-> ranked[i].p]
    [] Correction = "bonferroni" -> [i \in DOMAIN ranked |-> LessOf(One, Times(ranked[i].p, Len(ranked), 1))]
    [] Correction = "benjamini_hochberg" -> BenjaminiHochberg(ranked)

FindPatterns(trials) ==
  LET attributed == {t \in trials : t.value # None}
      comparisons == Compare(attributed)
      ranked == Ranked(comparisons)
      adjusted == Adjust(ranked)
  IN [unattributed |-> Cardinality(trials \ attributed),
      untested |-> {k \in DOMAIN comparisons : ~comparisons[k].tested},
      patterns |-> [i \in DOMAIN ranked |->
         [key |-> ranked[i].key, comparison |-> comparisons[ranked[i].key], adjusted |-> adjusted[i],
          significant |-> AtMost(adjusted[i], Alpha)]]]

TrialsOf(db, w) ==
  [carrier |-> CarrierTrials(db, w), lot |-> LotTrials(db, w), time |-> TimeTrials(db, w),
   defect_class |-> ClassTrials(db, w), carrier_within_class |-> CarrierWithinClassTrials(db, w)]

\* GET /inspection/patterns: every dimension but the lane, which the line cannot compare.
InspectionPatterns(db, w) ==
  LET trials == TrialsOf(db, w) IN
  [status |-> 200, coverage |-> CoverageOf(db, w),
   dimensions |-> [name \in DOMAIN trials |-> FindPatterns(trials[name])]]
=============================================================================
