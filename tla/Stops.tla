-------------------------------- MODULE Stops --------------------------------
(***************************************************************************)
(* A line stop is an absence of output, and an absence of data looks the   *)
(* same: the stops of a window, one stop by its id, and the coverage that  *)
(* tells the two apart (analysis/stops.py, routes_stops.py, coverage.py    *)
(* and the queries under them).                                            *)
(*                                                                         *)
(* db is what the read views hold:                                         *)
(*   parts     serial -> [created, carrier, components, force, inspected,  *)
(*             left], the last two being sets of one record or of none     *)
(*   components  [serial, lot, lane, at]                                   *)
(*   gaps      [from, to];  topology the links of Propagation              *)
(*   changes   [station, at, state, reason, buffer];  levels its samples   *)
(*   signals   [station, signal, at, value]                                *)
(*   alarms    [id, station, raised, acked, cleared], Open for not yet     *)
(*   stations  the codes there are                                         *)
(* Every statement of a request reads the rows committed by then (READ     *)
(* COMMITTED): asOf is what the first one saw and db what the later ones   *)
(* do, which may be more.                                                  *)
(***************************************************************************)
EXTENDS Propagation, Calendar

CONSTANTS
  MicroStopThreshold, InterruptionFloor, LeadIn, History, StopLimit, PointLimit, LiveWithin

ASSUME StopsAssumption ==
  /\ {InterruptionFloor, MicroStopThreshold, LeadIn, History, StopLimit, PointLimit, LiveWithin} \subseteq Nat
  /\ InterruptionFloor <= MicroStopThreshold

NotFound == [status |-> 404]

-----------------------------------------------------------------------------
(* Coverage.                                                                 *)

GapsOverlapping(db, w) == {g \in db.gaps : g.from < w.to /\ g.to > w.from}

Later(a, b) == IF a > b THEN a ELSE b
Earlier(a, b) == IF a < b THEN a ELSE b

Clipped(gaps, w) == {g \in {[from |-> Later(h.from, w.from), to |-> Earlier(h.to, w.to)] : h \in gaps} :
                       g.from < g.to}

\* Mutant of MergedDuration: two gaps would cost their lengths, shared stretch included.
SummedDuration(sorted) == FoldLeft(LAMBDA total, g : total + g.to - g.from, 0, sorted)

\* The length of the union of intervals sorted by where they begin: a sweep that closes a
\* span when the next interval begins past its end.
MergedDuration(sorted) ==
  IF sorted = <<>> THEN 0
  ELSE LET grow(sweep, g) ==
             IF g.from <= sweep.span.to THEN [sweep EXCEPT !.span.to = Later(@, g.to)]
             ELSE [total |-> sweep.total + sweep.span.to - sweep.span.from, span |-> g]
           swept == FoldLeft(grow, [total |-> 0, span |-> sorted[1]], Tail(sorted))
       IN swept.total + swept.span.to - swept.span.from

\* The instants of every stream the service reads.
Observed(db) ==
  LET rows == {db.parts[p] : p \in DOMAIN db.parts} IN
  {r.created : r \in {x \in rows : x.created # Unknown}}
    \cup {i.at : i \in UNION {r.inspected : r \in rows}} \cup {l.at : l \in UNION {r.left : r \in rows}}
    \cup {c.at : c \in db.changes} \cup {s.at : s \in db.levels} \cup {s.at : s \in db.signals}
    \cup {a.raised : a \in db.alarms}

LatestDataAt(db) == IF Observed(db) = {} THEN Unknown ELSE Max(Observed(db))

\* The three facts of a window: its gaps, what they cost, and what it holds.
CoverageOf(db, w) ==
  LET gaps == Clipped(GapsOverlapping(db, w), w)
      uncovered == MergedDuration(InOrder(gaps))
  IN [gaps |-> gaps, uncovered |-> uncovered, fully_covered |-> uncovered = 0,
      observed |-> {t \in Observed(db) : InWindow(w, t)}]

Outputs(db) == {l.at : l \in UNION {db.parts[p].left : p \in DOMAIN db.parts}}

-----------------------------------------------------------------------------
(* State history.                                                            *)

\* The rows of the span and, per station, the one that was in force when it began; each
\* lasts until the next row of its station.
StateEpisodes(db, from, to) ==
  LET rows == {c \in db.changes : c.at < to /\ (c.at < from =>
                 \A d \in db.changes : d.station = c.station /\ d.at < from => d.at <= c.at)}
      following(c) == {d.at : d \in {x \in rows : x.station = c.station /\ x.at > c.at}}
  IN {[station |-> c.station, state |-> c.state, from |-> c.at, reason |-> c.reason, buffer |-> c.buffer,
       to |-> IF following(c) = {} THEN Open ELSE Min(following(c))] : c \in rows}

BufferSamples(db, from, to) == {s \in db.levels : from <= s.at /\ s.at < to}

LatestStationState(db, s) ==
  LET rows == {c \in db.changes : c.station = s} IN {c \in rows : \A d \in rows : d.at <= c.at}

AlarmStatus(a) == IF a.cleared # Open THEN "cleared" ELSE IF a.acked # Open THEN "acknowledged" ELSE "raised"
AlarmsOverlapping(db, w) == {a \in db.alarms : a.raised < w.to /\ a.cleared > w.from}

\* GET /alarms, of one station or of all, and GET /alarms/{alarm_id}
ListAlarms(db, w, station) ==
  IF station \notin db.stations \cup {None} THEN NotFound
  ELSE [status |-> 200,
        alarms |-> {<<a.id, AlarmStatus(a)>> : a \in {x \in AlarmsOverlapping(db, w) : station \in {None, x.station}}}]
GetAlarm(db, id) ==
  IF ~\E a \in db.alarms : a.id = id THEN NotFound
  ELSE [status |-> 200, alarm |-> CHOOSE a \in db.alarms : a.id = id]

\* A signal over a window: every sample, or one point for each bucket of the clock that
\* holds any.
RawPoints(samples) == {[at |-> s.at, count |-> 1, min |-> s.value, max |-> s.value] : s \in samples}
BucketedPoints(samples, bucket) ==
  LET start(t) == (t \div bucket) * bucket
      own(t) == {s.value : s \in {x \in samples : start(x.at) = t}}
  IN {[at |-> t, count |-> Cardinality({s \in samples : start(s.at) = t}), min |-> Min(own(t)), max |-> Max(own(t))] :
        t \in {start(s.at) : s \in samples}}

\* GET /signals/trend: the first points, and whether there are more of them.
SignalTrend(db, w, station, signal, bucket) ==
  LET samples == {s \in db.signals : s.station = station /\ s.signal = signal /\ InWindow(w, s.at)}
      points == IF bucket = 0 THEN RawPoints(samples) ELSE BucketedPoints(samples, bucket)
      earlier(q) == {r \in points : r.at < q.at}
  IN IF station \notin db.stations THEN NotFound
     ELSE [status |-> 200, points |-> {q \in points : Cardinality(earlier(q)) < PointLimit},
           truncated |-> Cardinality(points) > PointLimit]

LatestBufferLevel(db, b) ==
  LET rows == {s \in db.levels : s.buffer = b} IN {s \in rows : \A t \in rows : t.at <= s.at}
ActiveAlarms(db) == {a \in db.alarms : a.cleared = Open}
LastPartOut(db) == IF Outputs(db) = {} THEN Unknown ELSE Max(Outputs(db))

\* GET /line/status: each station's and each buffer's last row however old, the alarms that
\* stand, the newest instant of all, and whether that is recent enough to call the line live.
LineStatus(db, now) ==
  LET latest == LatestDataAt(db) IN
  [status |-> 200, as_of |-> now, latest_data_at |-> latest,
   live |-> latest # Unknown /\ now - latest <= LiveWithin,
   stations |-> [s \in db.stations |-> LatestStationState(db, s)],
   buffers |-> [b \in {l.buffer : l \in db.topology} |-> LatestBufferLevel(db, b)],
   active |-> ActiveAlarms(db), last_part_out |-> LastPartOut(db)]

-----------------------------------------------------------------------------
(* Stops.                                                                    *)

OutputInstants(db, w) == {t \in Outputs(db) : InWindow(w, t)}
OutputAtOrBefore(db, t) == IF \E o \in Outputs(db) : o <= t THEN Max({o \in Outputs(db) : o <= t}) ELSE Unknown
OutputAfter(db, t) == IF \E o \in Outputs(db) : o > t THEN Min({o \in Outputs(db) : o > t}) ELSE Unknown

\* The silences of a window, whose edges bound one too.
Silences(outputs, w) ==
  LET edges == outputs \cup {w.from, w.to} IN
  {s \in [from : edges, to : edges] :
     s.from < s.to /\ \A e \in edges : ~(s.from < e /\ e < s.to)}

\* A longer silence than the threshold is a stop; a shorter one than a cycle is nothing.
DetectStops(outputs, w) ==
  LET long == {s \in Silences(outputs, w) : s.to - s.from > MicroStopThreshold} IN
  [stops |-> {[from |-> s.from, to |-> s.to,
               started_before_window |-> s.from = w.from /\ w.from \notin outputs,
               open_at_window_end |-> s.to = w.to] : s \in long},
   micro_stops |-> Cardinality({s \in Silences(outputs, w) \ long : s.to - s.from > InterruptionFloor})]

\* Mutant of EarlierOutput: the anchor would be read along with the outputs of the window.
EarlierOutputReadFirst(asOf, db, w) == OutputAtOrBefore(asOf, w.from)

\* The part that left last before the window opened, by the last statement of the request.
EarlierOutput(asOf, db, w) == OutputAtOrBefore(db, w.from)

\* The instant a stop is named by: that of the part its silence followed, if there is one.
Identifier(stop, earlierOutput) == IF stop.started_before_window THEN earlierOutput ELSE stop.from

\* Where the walk starts: the tail's first step out of Execute inside the stop.
SeedInstant(episodes, station, from, to) ==
  LET starts == {e.from : e \in {x \in episodes : /\ x.station = station /\ x.state # EXECUTE_STATE
                                                  /\ from <= x.from /\ x.from < to}}
  IN IF starts = {} THEN from ELSE Min(starts)

NoDerivation == [links |-> <<>>, candidates |-> <<>>, termination |-> "unexplained"]

Derivation(db, historyFrom, historyTo, from, to) ==
  LET tail == TailOf(db.topology)
      episodes == StateEpisodes(db, historyFrom, historyTo)
  IN IF tail = None THEN NoDerivation
     ELSE DeriveChain(tail, SeedInstant(episodes, tail, from, to), episodes,
                      BufferSamples(db, historyFrom, historyTo), db.topology, LeadIn)

HistoryBounds(w) == [from |-> w.from - History, to |-> w.to]

StopOf(id, from, to, open, derivation) ==
  [id |-> id, from |-> from, to |-> to, open |-> open, category |-> CategoryOf(derivation)]

\* GET /stops: the outputs of the window by the first statement, all else by later ones.
ListStops(asOf, db, w) ==
  LET found == DetectStops(OutputInstants(asOf, w), w)
      sorted == InOrder(found.stops)
      earlier == EarlierOutput(asOf, db, w)
      history == HistoryBounds(w)
      stop(s) == StopOf(Identifier(s, earlier), s.from, s.to, s.open_at_window_end,
                        Derivation(db, history.from, history.to, s.from, s.to))
  IN [status |-> 200,
      stops |-> [i \in 1 .. Earlier(StopLimit, Len(sorted)) |-> stop(sorted[i])],
      micro_stops |-> found.micro_stops,
      truncated |-> Len(sorted) > StopLimit,
      coverage |-> CoverageOf(db, w)]

\* GET /stops/{id}: the stop is the silence round the instant, whatever window it was
\* named in; one still open is measured to the clock.  Where it began is read first.
GetStop(asOf, db, now, began) ==
  LET from == OutputAtOrBefore(asOf, began)
      after == OutputAfter(db, began)
      to == IF after = Unknown THEN now ELSE after
  IN IF from = Unknown THEN NotFound
     ELSE IF to - from <= MicroStopThreshold THEN NotFound
     ELSE LET derivation == Derivation(db, from - History, to + 1, from, to)
              w == Window(from, to)
          IN [status |-> 200, stop |-> StopOf(from, from, to, after = Unknown, derivation),
              derivation |-> derivation, coverage |-> CoverageOf(db, w),
              alarms |-> AlarmsOverlapping(db, w)]
=============================================================================
