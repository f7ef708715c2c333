------------------------------ MODULE Analysis ------------------------------
(***************************************************************************)
(* The analysis service over a database another process writes: rows       *)
(* become visible one at a time, in any order and long after the instant   *)
(* they carry, while the clock runs (diagnostics/analysis).  A request is  *)
(* several statements, each of which sees the rows committed by then: the  *)
(* stops of a window, one stop, the inspection statistics and a scope are  *)
(* answered from two views of the database, that of the first statement    *)
(* and that of the rest, with rows becoming visible in between.  The other *)
(* answers are put together from one view.                                 *)
(*                                                                         *)
(* A scenario is [db, late, clock, windows, criteria]: the rows there will *)
(* be, the facts among them that are not visible yet, the instants the     *)
(* clock shows, and the windows and the criteria that are asked for.       *)
(***************************************************************************)
EXTENDS Parts

CONSTANTS Scenarios

\* The instants of an interval or of a row.
Instants(rows) == \A r \in rows : r.at \in Int /\ r.at > Unknown
Spans(intervals) == \A i \in intervals : i.from \in Int /\ i.to \in Int

\* Each buffer once, the pool not among them, and no more than one end on either side.
OneLine(topology) ==
  /\ IsFiniteSet(topology)
  /\ \A l, m \in topology : l.buffer # CARRIER_RETURN /\ (l.buffer = m.buffer => l = m)
  /\ \A s, t \in Stations(topology) :
       \/ UpstreamBuffersOf(topology, s) = {} /\ UpstreamBuffersOf(topology, t) = {}
       \/ DownstreamBuffersOf(topology, s) = {} /\ DownstreamBuffersOf(topology, t) = {}
       => s = t

\* A clock that begins; whole hours; one line; finitely many rows; and of a part one
\* inspection and one leaving at most, by the keys of their tables.
ASSUME ScenariosAssumption ==
  \A s \in Scenarios :
    /\ s.clock \subseteq Int /\ \E first \in s.clock : \A t \in s.clock : first <= t
    /\ Spans(s.windows)
    /\ OneLine(s.db.topology)
    /\ IsFiniteSet(s.db.changes) /\ Instants(s.db.changes) /\ Instants(s.db.levels)
    /\ IsFiniteSet(s.db.gaps) /\ Spans(s.db.gaps)
    /\ IsFiniteSet(DOMAIN s.db.parts) /\ IsFiniteSet(s.db.components)
    /\ \A p \in DOMAIN s.db.parts : LET row == s.db.parts[p] IN
         /\ Instants(row.inspected) /\ \A i, j \in row.inspected : i = j
         /\ Instants(row.left) /\ \A l, m \in row.left : l = m

VARIABLES
  scenario, \* what is going on: one of Scenarios
  missing,  \* the facts that are not visible yet
  now,      \* the clock
  request,  \* the request whose first statement was read; {} or a set of one
  answer    \* the answer to the last request; {} or a set of one

vars == <<scenario, missing, now, request, answer>>

Unprocessable == [status |-> 422]

-----------------------------------------------------------------------------
(* What is visible.  A part's row comes with its first event whichever it is: *)
(* the event of its making alone brings the instant, the carrier and the      *)
(* genealogy.  A state and the reason for it are two values.                  *)

View(db, absent) ==
  LET has(kind, p) == <<kind, p>> \notin absent
      made(p) == db.parts[p].created # Unknown /\ has("created", p)
      row(p) == LET r == db.parts[p] IN
        [created |-> IF made(p) THEN r.created ELSE Unknown,
         carrier |-> IF made(p) THEN r.carrier ELSE None,
         components |-> IF made(p) THEN r.components ELSE {},
         force |-> IF has("pressed", p) THEN r.force ELSE None,
         inspected |-> IF has("inspected", p) THEN r.inspected ELSE {},
         left |-> IF has("left", p) THEN r.left ELSE {}]
      change(c) == IF <<"reason", c.station, c.at>> \in absent
                   THEN [c EXCEPT !.reason = NoReason, !.buffer = None] ELSE c
  IN [parts |-> [p \in {q \in DOMAIN db.parts : \/ made(q)
                                               \/ row(q).force # None
                                               \/ row(q).inspected \cup row(q).left # {}} |-> row(p)],
      components |-> {c \in db.components : <<"component", c.serial>> \notin absent},
      changes |-> {change(c) : c \in {d \in db.changes : <<"state", d.station, d.at>> \notin absent}},
      levels |-> {s \in db.levels : <<"level", s.buffer, s.at>> \notin absent},
      gaps |-> {g \in db.gaps : <<"gap", g.from, g.to>> \notin absent},
      topology |-> db.topology, signals |-> db.signals, alarms |-> db.alarms, stations |-> db.stations]

DB == View(scenario.db, missing)

\* What the first statement of a request saw.
FirstView(r) == View(scenario.db, r.unseen)

Store(fact) ==
  /\ missing' = missing \ {fact}
  /\ answer' = {}
  /\ UNCHANGED <<scenario, now, request>>

\* A request reads the clock once: it ticks between requests.
Tick ==
  /\ request = {}
  /\ now + 1 \in scenario.clock
  /\ now' = now + 1
  /\ answer' = {}
  /\ UNCHANGED <<scenario, missing, request>>

-----------------------------------------------------------------------------
(* The routes.                                                               *)

\* One request at a time: each leaves what it asked for and what it was told, here by a view
\* there is.
Respond(op, asked, told) ==
  /\ request = {} /\ answer = {}
  /\ answer' = {[op |-> op, asked |-> asked, unseen |-> missing, told |-> told]}
  /\ UNCHANGED <<scenario, missing, now, request>>

\* The first statement of a request of two views.
Ask(op, asked) ==
  /\ request = {} /\ answer = {}
  /\ request' = {[op |-> op, asked |-> asked, unseen |-> missing]}
  /\ UNCHANGED <<scenario, missing, now, answer>>

RunsForwards(w) == w.from < w.to

\* A route that takes a window refuses one that does not run forwards.
RespondOver(op, w, asked, told) ==
  IF RunsForwards(w) THEN Respond(op, asked, told) ELSE Respond(op, asked, Unprocessable)
AskOver(op, w, asked) ==
  IF RunsForwards(w) THEN Ask(op, asked) ELSE Respond(op, asked, Unprocessable)

StopsRoute == \E w \in scenario.windows : AskOver("list_stops", w, w)
StopRoute == \E began \in scenario.clock \cup Outputs(scenario.db) \cup {w.from : w \in scenario.windows} :
               Ask("get_stop", began)
CoverageRoute == \E w \in scenario.windows :
                   RespondOver("coverage", w, w, [status |-> 200, coverage |-> CoverageOf(DB, w)])
StatsRoute == \E w \in scenario.windows, groupBy \in {"time", "defect_class", "carrier", "lane", None} :
                AskOver("inspection_stats", w, [window |-> w, by |-> groupBy])
PatternsRoute == \E w \in scenario.windows : RespondOver("patterns", w, w, InspectionPatterns(DB, w))
AlarmRoutes ==
  \/ \E w \in scenario.windows, s \in scenario.db.stations \cup {None, "unheard-of"} :
       RespondOver("list_alarms", w, w, ListAlarms(DB, w, s))
  \/ \E id \in 1 .. 2 : Respond("get_alarm", id, GetAlarm(DB, id))
TrendRoute == \E w \in scenario.windows, bucket \in {0, BucketHours} :
                RespondOver("signal_trend", w, w, SignalTrend(DB, w, "S1", "force", bucket))
LineStatusRoute == Respond("line_status", None, LineStatus(DB, now))
TimeRoute == \E expression \in UNDERSTOOD_EXPRESSIONS \cup {"some other time"} :
               Respond("resolve_time", expression,
                       IF expression \notin UNDERSTOOD_EXPRESSIONS THEN Unprocessable
                       ELSE LET w == Resolve(expression, now) IN
                            [status |-> 200, window |-> w, closed |-> IsClosed(w, now)])
PartRoutes ==
  \/ \E p \in DOMAIN scenario.db.parts : Respond("get_part", p, GetPart(DB, p))
  \/ \E c \in scenario.db.components : Respond("assembly", c.serial, ComponentAssembly(DB, c.serial))
  \/ \E lot \in {c.lot : c \in scenario.db.components}, w \in SUBSET scenario.windows :
       /\ Cardinality(w) < 2 /\ \A x \in w : RunsForwards(x)
       /\ Respond("lot_parts", lot, LotParts(DB, lot, w))
  \/ \E carrier \in Carriers(scenario.db) : Respond("carrier_parts", carrier, CarrierParts(DB, carrier, {}))

\* GET /parts/affected, its first statement: no scope for a station that is not there, nor
\* for one that records no instant.
SelectScope ==
  \E w \in scenario.windows, s \in scenario.db.stations \cup {None, "unheard-of"}, c \in scenario.criteria :
    LET anchor == IF s = None THEN "created" ELSE StationAnchor(DB, s)
        sel == [window |-> {w}, anchor |-> anchor, carrier |-> c.carrier, lot |-> c.lot, class |-> c.class,
                force |-> c.force]
    IN IF ~RunsForwards(w) \/ s = "unheard-of" \/ anchor = None
       THEN Respond("affected", c,
                    IF RunsForwards(w) /\ s = "unheard-of" THEN NotFound ELSE Unprocessable)
       ELSE Ask("affected", sel)

\* What a request of two views is told.
Affected(asOf, db, sel) ==
  LET selected == SelectParts(asOf, sel) IN
  [status |-> 200, selected |-> selected, parts |-> Contain(asOf, selected),
   unplaceable |-> CountUnplaceable(db, sel)]

Outcome(r) ==
  CASE r.op = "list_stops" -> ListStops(FirstView(r), DB, r.asked)
    [] r.op = "get_stop" -> GetStop(FirstView(r), DB, now, r.asked)
    [] r.op = "inspection_stats" -> InspectionStats(FirstView(r), DB, r.asked.window, r.asked.by)
    [] r.op = "affected" -> Affected(FirstView(r), DB, r.asked)

\* Its later statements, over what is visible by then.
Conclude ==
  \E r \in request :
    /\ answer' = {[op |-> r.op, asked |-> r.asked, unseen |-> r.unseen, told |-> Outcome(r)]}
    /\ request' = {}
    /\ UNCHANGED <<scenario, missing, now>>

-----------------------------------------------------------------------------

Init ==
  /\ scenario \in Scenarios
  /\ missing = scenario.late
  /\ now = Min(scenario.clock)
  /\ request = {} /\ answer = {}

Next ==
  \/ \E fact \in missing : Store(fact)
  \/ Tick
  \/ StopsRoute \/ StopRoute \/ CoverageRoute \/ StatsRoute \/ PatternsRoute \/ AlarmRoutes
  \/ TrendRoute \/ LineStatusRoute \/ TimeRoute \/ PartRoutes \/ SelectScope \/ Conclude

Spec == Init /\ [][Next]_vars

-----------------------------------------------------------------------------
(* Properties.  Each is about the answer that was given last.                *)

Told(op) == {a \in answer : a.op = op /\ a.told.status = 200}

Opens(stop) ==
  LET detail == GetStop(DB, DB, now, stop.id) IN
  /\ detail.status = 200
  /\ detail.stop.id = stop.id /\ detail.stop.from <= stop.from /\ stop.to <= detail.stop.to

\* What routes_stops.py says of every id it gives: it can be opened (§6.5).
EveryListedIdOpens ==
  \A a \in Told("list_stops") : \A i \in DOMAIN a.told.stops :
    a.told.stops[i].id # Unknown => Opens(a.told.stops[i])

\* A stop listed in a window that is over is named by the part its silence followed, by the
\* outputs there are at the end of the request, whatever was stored between its statements: no
\* two stops of a list share a name; and one that is a silence still (no late part came out in
\* it) can be opened, shows the silence the list showed a part of, and has the same name in
\* every window it shows in.  stop_id, the two ways of measuring a silence and the order of
\* the statements (routes_stops.py) agree.
ListedStopResolves ==
  \A a \in Told("list_stops") :
    LET listed == a.told.stops
        silent(stop) == ~\E o \in Outputs(DB) : stop.from < o /\ o < stop.to
    IN IsClosed(a.asked, now) =>
      /\ \A i \in DOMAIN listed : (silent(listed[i]) /\ listed[i].id # Unknown) => Opens(listed[i])
      /\ \A i, j \in DOMAIN listed : i # j => listed[i].id # listed[j].id
      /\ \A w \in {v \in scenario.windows : RunsForwards(v)} : LET other == ListStops(DB, DB, w).stops IN
           \A i \in DOMAIN listed, j \in DOMAIN other :
             (/\ silent(listed[i]) /\ listed[i].from < other[j].to /\ other[j].from < listed[i].to
              /\ Unknown \notin {listed[i].id, other[j].id}) => listed[i].id = other[j].id

\* A chain is evidence: each next link is the neighbour on the side its reason names, in an
\* episode that had begun by the time the buffer between them ran dry or full, which was
\* within the lead-in and no later than the consequence; no episode is used twice; and a
\* cause outside the line is named only at the end it would come in by (propagation.py).
ChainIsEvidence ==
  \A a \in Told("get_stop") :
    LET d == a.told.derivation
        chain == d.links
        neighbour(link) ==
          IF link.buffer = CARRIER_RETURN THEN TailOf(DB.topology)
          ELSE LET l == CHOOSE l \in DB.topology : l.buffer = link.buffer IN
               IF link.episode.reason.direction = "starved" THEN l.up ELSE l.down
    IN /\ \A i \in 1 .. Len(chain) - 1 : LET link == chain[i]  next == chain[i + 1] IN
            /\ link.episode.state = CONSEQUENCE_STATE
            /\ next.episode.station = neighbour(link)
            /\ next.episode.from <= link.since /\ link.since <= link.episode.from
            /\ link.episode.from - LeadIn <= link.since
       /\ IsInjective([i \in DOMAIN chain |-> <<chain[i].episode.station, chain[i].episode.from>>])
       /\ d.termination = "cause_candidate" => chain[Len(chain)].episode.state \in CAUSE_CANDIDATE_STATES
       /\ CategoryOf(d) = "external_upstream" => chain[Len(chain)].episode.station = HeadOf(DB.topology)
       /\ CategoryOf(d) = "external_downstream" => chain[Len(chain)].episode.station = TailOf(DB.topology)

\* What a window's gaps cost is the time they cover together, however they overlap, in
\* every answer that carries it (coverage.py).
CoverageMeasuresTheUnion ==
  \A op \in {"coverage", "list_stops", "inspection_stats", "patterns", "get_stop"} :
    \A a \in Told(op) :
      LET c == a.told.coverage
          w == CASE op = "get_stop" -> Window(a.told.stop.from, a.told.stop.to)
                 [] op = "inspection_stats" -> a.asked.window
                 [] OTHER -> a.asked
          dark == {t \in w.from .. (w.to - 1) : \E g \in DB.gaps : g.from <= t /\ t < g.to}
      IN c.uncovered = Cardinality(dark) /\ (c.fully_covered <=> dark = {})

\* The buckets of a window tile it and lose nothing: they add up to its totals and to what was
\* stored between the statements that read the two, so to its totals when nothing was; and a
\* bucket that lies within two windows says the same in both: the same hour is the same hour
\* everywhere (queries.py).
BucketsAddUp ==
  \A a \in Told("inspection_stats") : a.asked.by = "time" =>
    LET groups == a.told.groups
        window == a.asked.window
        asOf == FirstView(a)
    IN
    /\ \A t \in window.from .. (window.to - 1) :
         Cardinality({g \in groups : g.from <= t /\ t < g.to}) = 1
    /\ MapThenSumSet(LAMBDA g : g.parts, groups)
         = a.told.total + Cardinality(InspectedIn(DB, window) \ InspectedIn(asOf, window))
    /\ MapThenSumSet(LAMBDA g : g.rejects, groups)
         = a.told.rejects + Cardinality(RejectedIn(DB, window) \ RejectedIn(asOf, window))
    /\ \A w \in {v \in scenario.windows : RunsForwards(v)} :
         \A g \in groups, h \in InspectionStats(DB, DB, w, "time").groups :
           g.key = h.key /\ g.from = h.from /\ g.to = h.to => g = h

\* No part of a containment scope is lost or counted twice: one that meets the criteria and
\* does not change while it is counted is in one group, or is out of the window, or is among
\* those no window can place; and these meet the criteria too.
ContainmentIsComplete ==
  \A a \in Told("affected") :
    LET t == a.told
        asOf == FirstView(a)
        meets(db, p) == Meets(db, db.parts[p], [a.asked EXCEPT !.window = {}])
        placed(p) == AnchorsOf(DB.parts[p], a.asked.anchor)
        still == {p \in DOMAIN DB.parts \cap DOMAIN asOf.parts :
                    DB.parts[p] = asOf.parts[p] /\ meets(DB, p) /\ meets(asOf, p)}
        window == CHOOSE w \in a.asked.window : TRUE
    IN /\ \A p \in still : Cardinality({k \in {"selected", "unplaceable", "outside"} :
              CASE k = "selected" -> p \in t.selected
                [] k = "unplaceable" -> p \in t.unplaceable
                [] k = "outside" -> \E i \in placed(p) : ~InWindow(window, i)}) = 1
       /\ \A p \in t.unplaceable : meets(DB, p)
       /\ MapThenSumSet(LAMBDA o : t.parts[o].count, DOMAIN t.parts) = Cardinality(t.selected)

\* A pattern is significant only if it would be without the correction and no stronger one
\* is not; the adjusted values are those of the step-up procedure; and every trial is in one
\* comparison or is counted as attributed to nothing (patterns.py, significance.py).
PatternsAreCorrected ==
  \A a \in Told("patterns") : \A name \in DOMAIN a.told.dimensions :
    LET report == a.told.dimensions[name]
        found == report.patterns
        n == Len(found)
    IN \A i \in 1 .. n :
         /\ found[i].significant => /\ found[i].comparison.verdict = "significant"
                                    /\ \A j \in 1 .. i : found[j].significant
         /\ \A j \in i .. n : AtMost(found[i].adjusted, Times(found[j].comparison.p, n, j))
         /\ \/ AtMost(One, found[i].adjusted)
            \/ \E j \in i .. n : AtMost(Times(found[j].comparison.p, n, j), found[i].adjusted)
         /\ found[i].comparison.observed.trials + found[i].comparison.reference.trials + report.unattributed
              = Cardinality({t \in TrialsOf(DB, a.asked)[name] : t.value = None \/ t.stratum = found[i].key[2]})

\* The phrases mean what they say on the days the clocks change too: this shift holds the
\* moment and the last one ends where it begins; last night is over, is a night, and no
\* later night is over; days and weeks meet (time_expressions.py).
CalendarTiles ==
  \A a \in Told("resolve_time") :
    LET w(expression) == Resolve(expression, now)
        hours(x) == <<HourOf(x.from), HourOf(x.to)>>
        night == w("last night")
    IN /\ InWindow(w("this shift"), now) /\ w("last shift").to = w("this shift").from
       /\ \A e \in {"this shift", "last shift"} :
            hours(w(e)) \in {<<6, 14>>, <<14, 22>>, <<22, 6>>} /\ w(e).to - w(e).from \in 7 .. 9
       /\ night.to <= now /\ hours(night) = <<22, 6>> /\ night.to - night.from \in 7 .. 9
       /\ \A t \in (night.to + 1) .. now : HourOf(t) # 6
       /\ InWindow(w("today"), now) /\ w("yesterday").to = w("today").from
       /\ InWindow(w("this week"), w("today").from) /\ w("last week").to = w("this week").from
       /\ a.told.closed <=> a.told.window.to <= now
=============================================================================
