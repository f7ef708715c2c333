------------------------------ MODULE Calendar ------------------------------
(***************************************************************************)
(* The shift calendar of the analysis service as pure operators            *)
(* (analysis/time_expressions.py).  An instant is a whole number of UTC    *)
(* hours; the local time of an instant is the instant plus the offset in   *)
(* force, a number of local hours since the Monday day 0 began.  A window  *)
(* is [from, to), half-open.                                               *)
(***************************************************************************)
EXTENDS Integers, FiniteSetsExt

CONSTANTS
  Spring, Autumn,    \* the instants the clock goes forward and back
  Winter             \* the offset outside of them, in hours

ASSUME CalendarAssumption == Winter \in Nat /\ Spring \in Int /\ Autumn \in Int /\ Spring < Autumn

\* The hour the zone skips and the one it has twice begin no day and no shift: Berlin's is
\* from two to three.
ASSUME ChangesAssumption ==
  {(Spring + Winter) % 24, (Autumn + Winter) % 24} \cap {0, 6, 14, 22} = {}

EARLY_SHIFT_START_HOUR == 6
LATE_SHIFT_START_HOUR == 14
NIGHT_SHIFT_START_HOUR == 22

Window(from, to) == [from |-> from, to |-> to]
InWindow(w, moment) == w.from <= moment /\ moment < w.to
IsClosed(w, now) == w.to <= now

Offset(instant) == Winter + (IF Spring <= instant /\ instant < Autumn THEN 1 ELSE 0)
LocalOf(instant) == instant + Offset(instant)
DayOf(instant) == LocalOf(instant) \div 24
HourOf(instant) == LocalOf(instant) % 24

\* The instant it is that hour on that day; the first of two of them.
Local(day, hour) ==
  LET clock == 24 * day + hour IN
  Min({u \in {clock - Winter - 1, clock - Winter} : LocalOf(u) = clock})

Shift(kind, from, to) == [kind |-> kind, from |-> from, to |-> to]

\* An instant on a boundary belongs to the shift that starts there.
CurrentShift(now) ==
  LET today == DayOf(now)  hour == HourOf(now) IN
  CASE EARLY_SHIFT_START_HOUR <= hour /\ hour < LATE_SHIFT_START_HOUR ->
         Shift("early", Local(today, EARLY_SHIFT_START_HOUR), Local(today, LATE_SHIFT_START_HOUR))
    [] LATE_SHIFT_START_HOUR <= hour /\ hour < NIGHT_SHIFT_START_HOUR ->
         Shift("late", Local(today, LATE_SHIFT_START_HOUR), Local(today, NIGHT_SHIFT_START_HOUR))
    [] hour >= NIGHT_SHIFT_START_HOUR ->
         Shift("night", Local(today, NIGHT_SHIFT_START_HOUR), Local(today + 1, EARLY_SHIFT_START_HOUR))
    [] OTHER ->
         Shift("night", Local(today - 1, NIGHT_SHIFT_START_HOUR), Local(today, EARLY_SHIFT_START_HOUR))

\* Mutant of PreviousShift: eight elapsed hours back, whatever the clock did in them.
PreviousShiftByHours(shift) ==
  Shift(CASE shift.kind = "early" -> "night" [] shift.kind = "late" -> "early" [] OTHER -> "late",
        shift.from - 8, shift.from)

PreviousShift(shift) ==
  LET day == DayOf(shift.from) IN
  CASE shift.kind = "early" -> Shift("night", Local(day - 1, NIGHT_SHIFT_START_HOUR), shift.from)
    [] shift.kind = "late" -> Shift("early", Local(day, EARLY_SHIFT_START_HOUR), shift.from)
    [] OTHER -> Shift("late", Local(day, LATE_SHIFT_START_HOUR), shift.from)

\* Walking back from the current shift; a night comes round every third one.
LastCompletedNight(now) ==
  LET back[n \in 0 .. 3] == IF n = 0 THEN CurrentShift(now) ELSE PreviousShift(back[n - 1])
      done(s) == s.kind = "night" /\ s.to <= now
  IN back[Min({n \in 0 .. 3 : done(back[n])})]

WeekStart(now) == DayOf(now) - (DayOf(now) % 7)

Days(day, n) == Window(Local(day, 0), Local(day + n, 0))
Of(shift) == Window(shift.from, shift.to)

UNDERSTOOD_EXPRESSIONS == {"last night", "this shift", "last shift", "today", "yesterday",
                           "last hour", "last 24 hours", "this week", "last week"}

\* The window of an understood phrase at that moment; the last two hours' worth of it are
\* elapsed time, the rest calendar time.
Resolve(expression, now) ==
  CASE expression = "last night" -> Of(LastCompletedNight(now))
    [] expression = "this shift" -> Of(CurrentShift(now))
    [] expression = "last shift" -> Of(PreviousShift(CurrentShift(now)))
    [] expression = "today" -> Days(DayOf(now), 1)
    [] expression = "yesterday" -> Days(DayOf(now) - 1, 1)
    [] expression = "last hour" -> Window(now - 1, now)
    [] expression = "last 24 hours" -> Window(now - 24, now)
    [] expression = "this week" -> Days(WeekStart(now), 7)
    [] expression = "last week" -> Days(WeekStart(now) - 7, 7)
=============================================================================
