-------------------------------- MODULE Plant --------------------------------
(***************************************************************************)
(* The plant's process: the driver that generates the history and then     *)
(* goes live (server.py, run_catchup and run_live of line.py), the clock   *)
(* it runs against, the ledger and the historian behind it (historian.py), *)
(* the operator's panel (hmi.py), the ground-truth log (ground_truth.py)   *)
(* and the inspection service, a process of its own.                       *)
(*                                                                         *)
(* One event loop: the panel and the historian's storage run only where    *)
(* the driver awaits something that is not there yet.  The line is the one *)
(* of Line without its PackML states, alarms and jitter: stations in a     *)
(* row, buffers between them, all due at every tick, downstream first.     *)
(*                                                                         *)
(* Instants are ticks from history_start, a tick being a takt.  clock.wall *)
(* is the wall clock since the boot.                                       *)
(***************************************************************************)
EXTENDS Faults, FiniteSets

CONSTANTS
  Depth,         \* history_depth
  CatchupSpeed,  \* catchup_speed
  BatchSize,     \* catchup_batch_size
  QueueCap,      \* what the server keeps of a monitored item's notifications
  Capacity,      \* of every buffer
  Quiet,         \* _RECONCILE_QUIET_SECONDS, in polls
  Ceiling,       \* _RECONCILE_CEILING_SECONDS, in polls
  Scenarios,     \* the scenarios a run may carry
  Requests,      \* what the panel may be asked to inject: [kind, magnitude, scope, ramp, duration]
  FalseRejects,  \* the classes a good part may be given by mistake
  MaxWall, MaxInstant, MaxInjections, MaxBoots   \* bounds

ASSUME PlantAssumption ==
  /\ {Depth, BatchSize, QueueCap, Capacity, Quiet, Ceiling} \subseteq Nat \ {0}
  /\ CatchupSpeed \in Nat /\ CatchupSpeed > 1     \* or history never closes
  /\ Scenarios \subseteq 0 .. Len(Builders) /\ FalseRejects \subseteq Classes
  /\ {MaxWall, MaxInstant, MaxInjections, MaxBoots} \subseteq Nat

VARIABLES
  clock,     \* [wall, boots]
  driver,    \* where the driver is: [pc, live, at, station, cycles,
             \* polls, still, seen, posts]
  line,      \* [belts, fed, good, reject, hand]
  lots,      \* LotSchedule: per lane its lots and counts, and the next number
  reads,     \* the components S1 read: [lane, lot, at]
  faults,    \* the FaultSet
  log,       \* the ground-truth file
  service,   \* the inspection service's TruthChannel
  recent,    \* the newest part on the panel's strip
  ledger,    \* per stream, the rows it counts and the value it last counted
  queue,     \* per stream, the notifications the server holds for the historian
  rows       \* per stream, the history database

vars == <<clock, driver, line, lots, reads, faults, log, service, recent, ledger, queue, rows>>
lineVars == <<line, lots, reads>>
historyVars == <<ledger, queue, rows>>
truthVars == <<faults, log>>

\* The streams told apart: one of values, which repeat, and one of events.
REJECTS == "S4_Outfeed.RejectCount"
EVENTS == "S3_Inspection.Events"
Streams == {REJECTS, EVENTS}

-----------------------------------------------------------------------------
(* The clock.                                                                *)

CatchupDuration == Depth \div (CatchupSpeed - 1)
Live == clock.wall >= CatchupDuration
Now == IF Live THEN Depth + clock.wall ELSE clock.wall * CatchupSpeed

-----------------------------------------------------------------------------
(* The lots on S1's lanes.                                                   *)

\* A lot never loaded, and one never depleted.
Loaded(number, at) == [code |-> number, loaded |-> at, depleted |-> Never]
Stagger(lane) == (((lane - 1) * Settings.lot_size) \div 2) % Settings.lot_size
NewSchedule ==
  [lots |-> [lane \in LANES |-> <<Loaded(lane, 0)>>], drawn |-> [lane \in LANES |-> Stagger(lane)],
   next |-> Cardinality(LANES) + 1]

\* draw: a lot that has supplied its components is closed by the first one after them.
DrawFrom(schedule, lane, at) ==
  LET last == Len(schedule.lots[lane]) IN
  IF schedule.drawn[lane] < Settings.lot_size THEN [schedule EXCEPT !.drawn[lane] = @ + 1]
  ELSE [lots |-> [schedule.lots EXCEPT ![lane] =
                    Append([@ EXCEPT ![last].depleted = at], Loaded(schedule.next, at))],
        drawn |-> [schedule.drawn EXCEPT ![lane] = 1], next |-> schedule.next + 1]

Current(schedule, lane) == Last(schedule.lots[lane]).code

\* Mutant of LotAt: a lot still supplies at the instant it is closed.
LotAtItsClose(schedule, lane, at) ==
  SelectInSeq(schedule.lots[lane],
              LAMBDA lot : lot.loaded <= at /\ (lot.depleted = Never \/ at <= lot.depleted))

\* Which of a lane's lots supplied an instant, 0 for none.
LotAt(schedule, lane, at) ==
  SelectInSeq(schedule.lots[lane],
              LAMBDA lot : lot.loaded <= at /\ (lot.depleted = Never \/ at < lot.depleted))

-----------------------------------------------------------------------------
(* The ledger, the server and the historian.                                 *)

\* What the server queues for the historian: the oldest falls out of a full queue.
Queued(held, value) == Append(IF Len(held) = QueueCap THEN Tail(held) ELSE held, value)

\* Mutant of Counts: a write is a row, whatever it writes.
CountsEvery(stream, value) == TRUE

\* Ledger.record: an equal value in a row is no row. Events are all counted.
Counts(stream, value) == stream = EVENTS \/ ledger[stream].last # value

\* The server reports a value that differs from the node's, which is the one last written, and
\* every event.
Reports(stream, value) == stream = EVENTS \/ ledger[stream].last # value

Publish(stream, value) ==
  /\ ledger' = [ledger EXCEPT ![stream] =
                  [rows |-> IF Counts(stream, value) THEN @.rows + 1 ELSE @.rows, last |-> value]]
  /\ queue' = [queue EXCEPT ![stream] = IF Reports(stream, value) THEN Queued(@, value) ELSE @]
  /\ UNCHANGED rows

\* attach_historian: every value stream holds one row from the start, and the ledger knows.
PrimedLedger == [s \in Streams |-> IF s = REJECTS THEN [rows |-> 1, last |-> 0] ELSE [rows |-> 0, last |-> 0]]
PrimedQueue == [s \in Streams |-> IF s = REJECTS THEN <<0>> ELSE <<>>]

-----------------------------------------------------------------------------
(* Booting.                                                                  *)

Working == {2, 3, 4}   \* the stations with a buffer upstream of them

Idle == [pc |-> "step", live |-> FALSE, at |-> 0, station |-> 4, cycles |-> 0, polls |-> 0, still |-> 0, seen |-> -1,
         posts |-> <<>>]
NoPart == [serial |-> -1]

NewLine == [belts |-> [s \in Working |-> <<>>], fed |-> 0, good |-> 0, reject |-> 0, hand |-> NoPart]

\* open_log: what the scenario injects is written down.
LogOf(scenario) ==
  LET set == FaultSet(scenario)
  IN [i \in DOMAIN set |-> [record |-> "injection", source |-> "scenario", fault |-> set[i]]]

\* main up to the driver: the files of a run before it are unlinked.
Boots(scenario) ==
  /\ driver' = Idle
  /\ line' = NewLine
  /\ lots' = NewSchedule /\ reads' = {}
  /\ faults' = FaultSet(scenario)
  /\ log' = LogOf(scenario)
  /\ recent' = NoPart
  /\ ledger' = PrimedLedger /\ queue' = PrimedQueue /\ rows' = [s \in Streams |-> <<>>]

Init ==
  \E scenario \in Scenarios :
    /\ clock = [wall |-> 0, boots |-> 1]
    /\ driver = Idle
    /\ line = NewLine
    /\ lots = NewSchedule /\ reads = {}
    /\ faults = FaultSet(scenario)
    /\ log = LogOf(scenario)
    /\ service = <<>> /\ recent = NoPart
    /\ ledger = PrimedLedger /\ queue = PrimedQueue /\ rows = [s \in Streams |-> <<>>]

Up == driver.pc \notin {"down", "refused"}

\* Somebody starts the plant again; the inspection service ran on.
Boot ==
  /\ clock.boots < MaxBoots /\ ~Up
  /\ clock' = [wall |-> 0, boots |-> clock.boots + 1]
  /\ \E scenario \in Scenarios : Boots(scenario)
  /\ UNCHANGED service

-----------------------------------------------------------------------------
(* The driver: one station's cycle after the other.                          *)

\* The next cycle of the queue: all of an instant's, downstream first.
Onward(d) == IF d.station > 1 THEN [d EXCEPT !.station = @ - 1] ELSE [d EXCEPT !.station = 4, !.at = @ + 1]

\* Where a cycle leaves the driver: catch-up pauses after every batch, live sleeps until the
\* next cycle is due.
AfterCycle(d) ==
  LET next == [Onward(d) EXCEPT !.posts = <<>>, !.cycles = (@ + 1) % BatchSize]
  IN IF d.live THEN [next EXCEPT !.pc = "sleep", !.cycles = 0]
     ELSE [next EXCEPT !.pc = IF next.cycles = 0 THEN "pause" ELSE "step"]

AtStation(s) ==
  /\ driver.pc = "step" /\ driver.station = s
  /\ driver.at < (IF driver.live THEN MaxInstant ELSE Depth)

CycleIsDone == driver' = AfterCycle(driver)

\* The rule of Line.MustSuspend, for what a fault can move: the lanes at the head, the outfeed
\* at the tail; a buffer that is empty or full.
LaneReserve(lane) ==
  Modify(faults, "lane_fill", Whole(Settings.lane_capacity - (line.fed % Settings.lane_capacity)), driver.at,
         [lane |-> lane])
OutfeedReserve ==
  Plus(Whole(Settings.outfeed_capacity),
       Times(Whole(-1), Modify(faults, "outfeed_fill",
                               Whole((line.good + line.reject) % Settings.outfeed_capacity),
                               driver.at, NoContext)))

Suspended(s) ==
  \/ s = 1 /\ \E lane \in LANES : Under(LaneReserve(lane), Whole(1))
  \/ s = 4 /\ Under(OutfeedReserve, Whole(1))
  \/ s \in Working /\ line.belts[s] = <<>>
  \/ s < 4 /\ Len(line.belts[s + 1]) >= Capacity

Suspends ==
  /\ \E s \in 1 .. 4 : AtStation(s) /\ Suspended(s)
  /\ CycleIsDone
  /\ UNCHANGED <<clock, lineVars, truthVars, service, recent, historyVars>>

\* S1: a component off each lane becomes a part.
Feeds ==
  LET one == DrawFrom(lots, 1, driver.at)
      both == DrawFrom(one, 2, driver.at)
      part == [serial |-> line.fed, carrier |-> line.fed % Cardinality(DOMAIN Propensity), work |-> Whole(0),
               disposition |-> "none"]
  IN /\ AtStation(1) /\ ~Suspended(1)
     /\ lots' = both
     /\ reads' = reads \cup {[lane |-> lane, lot |-> Current(both, lane), at |-> driver.at] : lane \in LANES}
     /\ line' = [line EXCEPT !.fed = @ + 1, !.belts[2] = Append(@, part)]
     /\ CycleIsDone
     /\ UNCHANGED <<clock, truthVars, service, recent, historyVars>>

\* S2: the part is pressed, and keeps the work that took. A press that could not be raises.
Joins ==
  LET clamp == Clamp(faults, driver.at)
      contact == Contact(faults, driver.at)
  IN /\ AtStation(2) /\ ~Suspended(2)
     /\ IF Presses(clamp, contact)
          THEN /\ line' = [line EXCEPT !.belts[2] = Tail(@),
                             !.belts[3] = Append(@, [Head(line.belts[2]) EXCEPT
                                                       !.work = WorkOf(clamp, contact)])]
               /\ CycleIsDone
          ELSE /\ driver' = [driver EXCEPT !.pc = "down"]
               /\ UNCHANGED line
     /\ UNCHANGED <<clock, lots, reads, truthVars, service, recent, historyVars>>

\* Mutant of Requested: the verdict is asked for first.
RequestedVerdictFirst == <<"inspect", "truth">>

\* produce: the truth is declared before the verdict is asked for.
Requested == <<"truth", "inspect">>

\* S3 begins: the truth is written down, decided again for the image and the side channel, and
\* the first request is on its way. A frame that cannot be drawn raises, its part on record.
Records ==
  LET part == Head(line.belts[3])
      defects == TruthByLane(faults, part.serial, part.carrier, part.work, driver.at)
  IN /\ AtStation(3) /\ ~Suspended(3)
     /\ log' = Append(log, [record |-> "part", part |-> part, at |-> driver.at, defects |-> defects])
     /\ line' = [line EXCEPT !.belts[3] = Tail(@),
                             !.hand = [serial |-> part.serial, carrier |-> part.carrier, work |-> part.work,
                                       truth |-> ClassesOf(defects), judged |-> {}, found |-> {}]]
     /\ driver' = IF Renders(Clarity(faults, driver.at))
                    THEN [driver EXCEPT !.pc = "await", !.posts = Requested]
                    ELSE [driver EXCEPT !.pc = "down"]
     /\ UNCHANGED <<clock, lots, reads, faults, service, recent, historyVars>>

Awaits(post) == driver.pc = "await" /\ driver.posts # <<>> /\ Head(driver.posts) = post

Declared == [p \in DOMAIN service \cup {line.hand.serial} |->
               IF p = line.hand.serial THEN line.hand.truth ELSE service[p]]

\* POST /truth: the service keeps what the part is.
Declares ==
  /\ Awaits("truth")
  /\ service' = Declared
  /\ driver' = [driver EXCEPT !.posts = Tail(@)]
  /\ UNCHANGED <<clock, lineVars, truthVars, recent, historyVars>>

Lookup(serial) == IF serial \in DOMAIN service THEN service[serial] ELSE {}

\* POST /inspect: the classifier finds what was declared, but for the part it takes for good and
\* the good one it takes for another.
Inspects ==
  /\ Awaits("inspect")
  /\ LET truth == Lookup(line.hand.serial)
     IN \E found \in {{}, truth} \cup (IF truth = {} THEN {{c} : c \in FalseRejects} ELSE {}) :
          line' = [line EXCEPT !.hand = [@ EXCEPT !.found = found, !.judged = truth]]
  /\ driver' = [driver EXCEPT !.posts = Tail(@)]
  /\ UNCHANGED <<clock, lots, reads, truthVars, service, recent, historyVars>>

\* The service is not there, answers an error or too late: the request raises. It may have got
\* through.
Fails ==
  /\ driver.pc = "await" /\ driver.posts # <<>>
  /\ service' \in {service, IF Head(driver.posts) = "truth" THEN Declared ELSE service}
  /\ driver' = [driver EXCEPT !.pc = "down"]
  /\ UNCHANGED <<clock, lineVars, truthVars, recent, historyVars>>

\* The outcome: remembered for the strip, published, and the part goes on.
Judges ==
  LET hand == line.hand
      disposition == IF hand.found = {} THEN "good" ELSE "reject"
  IN /\ driver.pc = "await" /\ driver.posts = <<>>
     /\ recent' = [serial |-> hand.serial, judged |-> hand.judged, disposition |-> disposition]
     /\ line' = [line EXCEPT !.hand = NoPart,
                   !.belts[4] = Append(@, [serial |-> hand.serial, carrier |-> hand.carrier, work |-> hand.work,
                                           disposition |-> disposition])]
     /\ Publish(EVENTS, hand.serial)
     /\ CycleIsDone
     /\ UNCHANGED <<clock, lots, reads, truthVars, service>>

\* S4: the part leaves, counted.
Sorts ==
  LET part == Head(line.belts[4])
      rejected == line.reject + (IF part.disposition = "reject" THEN 1 ELSE 0)
  IN /\ AtStation(4) /\ ~Suspended(4)
     /\ line' = [line EXCEPT !.belts[4] = Tail(@), !.reject = rejected,
                             !.good = @ + (IF part.disposition = "good" THEN 1 ELSE 0)]
     /\ Publish(REJECTS, rejected)
     /\ CycleIsDone
     /\ UNCHANGED <<clock, lots, reads, truthVars, service, recent>>

\* The pause after a batch ends; live, the sleep ends once the next cycle is due.
Resumes ==
  /\ driver.pc = "pause" \/ (driver.pc = "sleep" /\ Live /\ driver.at <= Now)
  /\ driver' = [driver EXCEPT !.pc = "step"]
  /\ UNCHANGED <<clock, lineVars, truthVars, service, recent, historyVars>>

-----------------------------------------------------------------------------
(* The seam.                                                                 *)

\* The horizon is looked at before a cycle runs.
ReachesTheHorizon ==
  /\ driver.pc = "step" /\ ~driver.live /\ driver.at >= Depth
  /\ driver' = [driver EXCEPT !.pc = "reconcile", !.cycles = 0]
  /\ UNCHANGED <<clock, lineVars, truthVars, service, recent, historyVars>>

\* Mutant of Agrees: counts that stopped moving are taken for whole.
AgreesOnceQuiet(counts) == driver.still + 1 >= Quiet

Agrees(counts) == \A s \in Streams : counts[s] = ledger[s].rows

\* Mutant of GivesUp: waiting for as long as it takes.
NeverGivesUp(still, polls) == FALSE

\* The counts stopped moving, or the ceiling is reached.
GivesUp(still, polls) == still >= Quiet \/ polls >= Ceiling

UpTo(cap, n) == IF n < cap THEN n ELSE cap

Settled(pc) == [driver EXCEPT !.pc = pc, !.polls = 0, !.still = 0, !.seen = -1]

\* reconcile: one poll of the database. Its counts are read one after the other, but the line
\* stands and they only grow.
Polls ==
  LET counts == [s \in Streams |-> Len(rows[s])]
      total == counts[REJECTS] + counts[EVENTS]
      still == IF total # driver.seen THEN 0 ELSE UpTo(Quiet, driver.still + 1)
      polls == UpTo(Ceiling, driver.polls + 1)
  IN /\ driver.pc = "reconcile"
     /\ driver' =
          IF Agrees(counts) THEN Settled("waiting")
          ELSE IF GivesUp(still, polls) THEN Settled("refused")
          ELSE [driver EXCEPT !.still = still, !.seen = total, !.polls = polls]
     /\ UNCHANGED <<clock, lineVars, truthVars, service, recent, historyVars>>

\* History is generated before the clock has caught up: main sleeps the remainder, and live goes
\* on with the queue catch-up left.
GoesLive ==
  /\ driver.pc = "waiting" /\ Live
  /\ driver' = [driver EXCEPT !.pc = "step", !.live = TRUE]
  /\ UNCHANGED <<clock, lineVars, truthVars, service, recent, historyVars>>

-----------------------------------------------------------------------------
(* What runs beside the driver.                                              *)

\* Somebody else has the loop.
Yields == driver.pc \in {"await", "pause", "reconcile", "waiting", "sleep"}

\* The historian stores a notification.
Stores(stream) ==
  /\ Yields /\ queue[stream] # <<>>
  /\ rows' = [rows EXCEPT ![stream] = Append(@, Head(queue[stream]))]
  /\ queue' = [queue EXCEPT ![stream] = Tail(@)]
  /\ UNCHANGED <<clock, driver, lineVars, truthVars, service, recent, ledger>>

Ticks ==
  /\ Up /\ clock.wall < MaxWall
  /\ clock' = [clock EXCEPT !.wall = @ + 1]
  /\ UNCHANGED <<driver, lineVars, truthVars, service, recent, historyVars>>

Injected == {i \in DOMAIN log : log[i].record = "injection"}

\* Mutant of Running: the fault is handed over before it is written down.
RunningBeforeWritten(f, written) == Append(faults, f)

\* Injector.inject: a record that could not be written leaves nothing running.
Running(f, written) == IF written THEN Append(faults, f) ELSE faults

\* The panel's request: what the fault refuses is answered 400, what cannot be written 500.
Injects(r) ==
  LET until == IF r.duration = Never THEN Never ELSE Now + r.duration
      f == Fault(r.kind, Now, until, r.magnitude, r.scope, r.ramp)
  IN /\ Yields /\ Len(faults) < Cardinality({i \in Injected : log[i].source = "scenario"}) + MaxInjections
     /\ r.kind \in Kinds /\ Valid(f)
     /\ \E written \in BOOLEAN :
          /\ log' = IF written
                       THEN Append(log, [record |-> "injection", source |-> "operator", fault |-> f])
                       ELSE log
          /\ faults' = Running(f, written)
     /\ UNCHANGED <<clock, driver, lineVars, service, recent, historyVars>>

Driver ==
  \/ Suspends \/ Feeds \/ Joins \/ Records \/ Declares \/ Inspects \/ Fails \/ Judges \/ Sorts \/ Resumes
  \/ ReachesTheHorizon \/ Polls \/ GoesLive

Next ==
  \/ Driver \/ Boot \/ Ticks
  \/ \E stream \in Streams : Stores(stream)
  \/ \E r \in Requests : Injects(r)

Spec == Init /\ [][Next]_vars

\* The driver goes on, and so does the clock; the historian need not.
Fairness == WF_vars(Driver) /\ WF_vars(Ticks)

FairSpec == Spec /\ Fairness

-----------------------------------------------------------------------------
(* What the plant promises.                                                  *)

LoggedBefore(i) == {log[k].fault : k \in {j \in Injected : j < i}}

\* Every part on record has the defects that the injections recorded before it, and no others,
\* say it has: neither an operator in the middle of a request, nor a record that cannot be
\* written, nor a run before this one puts a fault on the line that the log does not know of.
TruthFollowsTheLog ==
  \A i \in DOMAIN log \ Injected : \E n \in 0 .. Len(faults) :
    /\ {faults[j] : j \in 1 .. n} = LoggedBefore(i)
    /\ log[i].defects = TruthByLane(SubSeq(faults, 1, n), log[i].part.serial, log[i].part.carrier,
                                    log[i].part.work, log[i].at)

\* The verdict on a part was given on the truth on record for that part: not on what the service
\* was told of the part of the same serial before a restart, nor on nothing.
VerdictIsOnItsOwnTruth ==
  recent # NoPart => \E i \in DOMAIN log \ Injected :
    log[i].part.serial = recent.serial /\ ClassesOf(log[i].defects) = recent.judged

\* Reconciliation passes a history that holds every event and every value the line published, in
\* their order, and refuses none that does.
HistoryIsWhole ==
  /\ rows[EVENTS] = [i \in 1 .. ledger[EVENTS].rows |-> i - 1]
  /\ rows[REJECTS] = [i \in 1 .. line.reject + 1 |-> i - 1]
ReconcileIsRight == (driver.pc = "waiting" => HistoryIsWhole) /\ (driver.pc = "refused" => ~HistoryIsWhole)

\* What S1 read of a component's lot is what the schedule says of the instant it read it at,
\* whatever the two lanes' lots did since.
ReadsAgreeWithTheSchedule ==
  \A r \in reads : LET i == LotAt(lots, r.lane, r.at) IN i # 0 /\ lots.lots[r.lane][i].code = r.lot

\* A boot ends its catch-up, live or refused: no history is too broken to be judged.
CatchupEnds == (Up /\ driver.at < Depth) ~> (~Up \/ driver.pc = "waiting")
=============================================================================
