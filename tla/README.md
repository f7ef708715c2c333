# Formal model of the machine diagnostics assistant

TLA+ modules, TLC configurations and TLAPS proofs for the program in `src/`: a
simulated four-station plant that publishes its history over OPC UA, an edge gateway
that brings it into Postgres without losing any of it, an analysis service that derives
stops, causes and patterns from what arrived, and an agent that answers questions with
claims each of which can be opened.

The repository says "R1: nothing is read and lost", that the plant's ground truth is
what evaluation may rely on, and that an answer names nothing nobody can open (§6.5).
Those sentences are what the modules are about.

`tlc -config X.cfg M` checks run X of module M; `tlapm M.tla` checks the proofs of
`IngestQueueProofs`, `DerivedRowsProofs`, `GatewayProofs`, `HistoryPagingProofs`,
`LineProofs`, `PlantProofs`, `AgentProofs` and `AnalysisProofs`.
`PROJECT.json` lists the components, the runs, the code each definition models, the
hazards, the findings and the theorems.

## The system

    plant (one process, asyncio)                  gateway (one process, tasks)
    +------------------------------+   OPC UA     +----------------------------------+
    | driver -> line -> stations   | -- events -->| subscription callbacks --+       |
    |   buffers, carriers, alarms  | -- history ->| history backfill --------+       |
    | historian, clock, panel      |              |            local queue (SQLite)  |
    | faults, ground-truth log     |              |                 drain            |
    +------|-----------------------+              +----------------- | --------------+
           | HTTP                                            Postgres v
    inspection service                  analysis <- agent <- UI, MCP client
    (keeps the truth channel)                         | sessions, messages, traces

### Components, their state, and what makes each right

| component | state | operations | interacts by | hard because | right when |
|---|---|---|---|---|---|
| local queue (`LocalQueue.cs`) | rows in an SQLite file | enqueue, dequeue, ack | called by the callbacks, backfill, drain, `/status`; one gate | survives crashes the rest does not | no accepted row disappears before it is committed |
| drain (`QueueDrain.cs`) | the batch in hand | read, write, ack, retry | queue, writer | three awaits, each may fail or be the last | order kept, everything stored that no refused record holds up |
| ingest task (`Program.cs`, `UaConnection.cs`) | session, status, semaphore | connect, poll the phase, backfill, subscribe, supervise | plant's session events, queue, database | reconnects, old subscriptions that come back, restarts of either side, clocks that go on | every outage is closed or marked, but for what is named |
| backfill (`HistoryBackfill.cs`) | windows, page, continuation point | page, halve, release, report | plant's history, queue, ledger | a truncated page looks like a complete one | a run that reports success read everything |
| reconciliation (`Reconciler.cs`) | none | compare ledger and rows | database | duplicates that are no loss | it reports a loss exactly when there is one |
| writer (`PostgresWriter.cs`) | caches of ids and last states | one transaction per batch | database, drain | retries, rewinds, streams out of step | derived rows say what happened |
| subscriptions (`Subscriptions.cs`) | last instants per node, overflow count | start, data change, event | queue (not awaited) | overflow, order | a loss leaves a marker |
| topology, policy, decoding | the discovered address space | browse, upsert | session, database | a stream that vanished | nothing is skipped silently |
| line (`line.py`, `buffers.py`, `carriers.py`, `packml.py`) | cycle queue, buffers, pool, machines, parts | step, bring up, abort, restart, hold | stations, historian, alarms | coinciding instants, long sequences | carriers conserved, published edges legal and distinct |
| alarms (`alarms.py`) | open alarms, shutdowns, visits | observe, settle, acknowledge | line, panel | the button races the driver | every alarm is worked, in order |
| clock (`clock.py`) | boot instant | now, phase | everything | two timelines until catch-up ends | no seam at the horizon |
| server, historian (`server.py`, `historian.py`) | ledger, notification queues, database | generate, reconcile, go live | line, asyncua | queues that drop their oldest | it goes live on a whole history and on no other |
| panel (`hmi.py`) | recent parts | snapshot, acknowledge, inject | line, clock, injector | concurrent with the driver | shows and does what is true |
| faults, scenarios, ground truth | fault set, log file | inject, record, modify | stations, panel | one of two halves failing | log and faults agree at every part |
| stations, curve, noise, identities | draws, lots per lane, serials | run a cycle | line | two lanes, one sequence of lots | a part's genealogy is what it was built from |
| inspection service and client | truth per serial | declare, inspect | station 3, over HTTP | outlives the plant | a verdict is on the part's own truth |
| analysis (`propagation.py`, `stops.py`, `containment.py`, `patterns.py`, ...) | none, reads Postgres | derive, merge, count, test, resolve | database, agent | late rows, interval boundaries, daylight saving | what it says can be recomputed and opened |
| agent (`pipeline.py`, `sessions.py`, `citations.py`, ...) | sessions, messages, traces, feedback | ask, route, call tools, verify, store | analysis, model provider, database | budgets, retries, concurrent questions | every question has its answer and its trace, and no unsound claim |
| knowledge (`documents.py`) | an index of files | load, reload | agent | | a document is what its front-matter says |
| auth, issuer, MCP, user interfaces | keys; none | verify, issue, relay, render | | no state that changes | |

## The modules

| module | models | composed with |
|---|---|---|
| `DurableIngest` | the promise: three marks, accepted >= stored >= forgotten, none moving back | implemented by `IngestQueue` |
| `IngestQueue` | `LocalQueue`, `QueueDrain`, the transaction of `WriteBatchAsync`; crash and restart | refines `DurableIngest` |
| `IngestQueueProofs` | the theorems about it | extends `IngestQueue`, `TLAPS` |
| `Gateway` | the ingest task, its supervisor, the session, the plant's clock and history | uses the queue as the durable sequence `IngestQueue` provides: what it accepted, and the order in which that moves the end of storage |
| `GatewayProofs` | the theorems about it | extends `Gateway`, `TLAPS` |
| `HistoryPaging` | one stream of `HistoryBackfill.RunAsync` against a paging historian | the step `ReadWindow` of `Gateway` in detail |
| `HistoryPagingProofs` | the theorems about it | extends `HistoryPaging`, `TLAPS` |
| `DerivedRows` | what `WriteBatchAsync` derives: state changes, alarms, lots, and the caches | the consumer of the queue's order, with its repeats |
| `DerivedRowsProofs` | the theorems about it | extends `DerivedRows`, `TLAPS` |
| `PackML` | `packml.py`'s tables | extended by `Line` |
| `Line` | `Line.step` with buffers, pool, cycle queue, alarms, operator, button | the driver of `Plant` in detail |
| `LineProofs` | the theorems about it | extends `Line`, `TLAPS` |
| `Faults` | kinds of fault, scenarios, press curve, defect draws | extended by `Plant` |
| `Plant` | the plant's process and the inspection service: boot, catch-up, reconciliation, live, injections, ground truth, lots | `MCPlant` is its instance |
| `PlantProofs` | the theorems about its ground truth, verdicts, lots and history | extends `Plant`, `TLAPS` |
| `Calendar` | windows and time expressions, two clock changes | extended by `Stops` |
| `Propagation` | the chain of causes of a stop | extended by `Stops` |
| `Stops` | coverage, stops, alarms, signals, line status: the queries and routes about time | extended by `Parts` |
| `Parts` | containment, statistics, significance, patterns | extended by `Analysis` |
| `Analysis` | the service over a database whose rows arrive late, and its clock | `MCAnalysis` is its instance |
| `AnalysisProofs` | the theorems about its phrases, buckets, scopes, chains, coverage, stop ids and patterns | extends `Analysis`, `TLAPS` |
| `Routing` | documents, index, and which of them a question gets | extended by `Answers` |
| `Answers` | classification, citations, composition, the scripted provider | extended by `Agent` |
| `Agent` | concurrent questions: session tables, pipeline, trace, feedback | `MCAgent` is its instance |
| `AgentProofs` | the theorems about it | extends `Agent`, `TLAPS` |

### IngestQueue

`inserted` is every record in id order (AUTOINCREMENT never reuses an id), `rows` the ids
in the table, `batch` and `drain` the drain's memory and program counter, `committed` the
ids in the database. A step ends at each await. `WriteFails` is an `NpgsqlException`
before the commit, `WriteCommitsUnreported` one after it, `WriteRefuses` any other
exception (only `NpgsqlException` is caught, so the drain ends: `drain` is `"refused"`),
`QueueFileFails` an SQLite error (`"faulted"`). The semaphore around the queue's connection
makes each of its operations one step.

A record the writer refuses is read again at every start, in front of everything behind it
and in a batch with at most `DrainBatchSize - 1` records before it: those are `HeldUp`, for
ever, and no others. `EveryRecordSettles` says so: a record is committed, or held up, or
the drain has stopped for good for a reason that is no record.

### Gateway

Data is reduced to samples `<<stream, tick>>`. `step` is where the ingest task is: phase
poll, opening the backfill's window, reading, subscribing, claiming live, live, tearing down,
or dead (its supervisor faulted). `booting` tells the boot's pass from the supervisor's,
whose exceptions have different consequences.

Every step may be interrupted: time passes, the session drops, the plant restarts (its
subscriptions forgotten, its history rebuilt as far back as it now reaches, its clock in
catch-up), the task fails and the process is killed at each of them, in the middle of a read
too (`PartlyRead`).

The subscription outlives the session (`Drop` leaves it and the server goes on queueing for
it). What the SDK does with it on the way back is its choice (`Restore`: kept, opened again
with a time of its own, or not there), so that the teardown is what takes it away
(`TakeDown`). `Publish` brings everything the server holds and starts an enqueue for each
that nobody awaits; they enter the queue in any order, fail, or die with the process
(`EnqueueEnds`, `EnqueueFails`, `ProcessEnds`).

Of the queue only what the resume point needs is kept: what it has accepted, which
`IngestQueue` shows is or will be stored, and the instants at which those still queued will
move `max(source_ts)` (`rising`); the drain may lag by any number of them. A gap marker is in
the queue as well and moves nothing.

Under all this the code does lose rows, and `exposed` follows which: a sample goes in where
the code lets go of it and comes out when a later read or callback stores it after all.
`OnlyNamedGapsStayOpen` is that nothing else is missing, once the gateway is settled again.
The places are six:

1. what was produced behind a backfill's reads and before its subscription (the seam,
   `gateway_seam`);
2. the rest of a window whose backfill ended, or whose plant restarted, between two
   streams: the resume point is one maximum over all streams (`PostgresWriter.cs:201`);
3. what a plant that restarted since the marker was decided on keeps no more;
4. what lay before a subscription that the SDK opened again, if it published before the
   supervisor took it down;
5. a notification whose enqueue failed unobserved or died with the process, while later
   ones got in (`Subscriptions.cs:302`, `:319`);
6. what history held before the first backfill into an empty database began.

The plant is live when the gateway first meets it; a gateway that boots into a catch-up is
one whose plant restarted while it was down. A row is one sample however often it is stored,
and a drain that ends is a disturbance like any other (`DrainFaults`), one that outlives the
supervisor excepted, which may end in any case.

### HistoryPaging

`history` is fixed for a run and chosen arbitrarily; rows may share an instant. `work` is
the stack of windows that remain (`RunAsync`'s loop and `ReadWindowAsync`'s recursion
together). The historian is external: both ends of a read are included, a page is bounded
by what was asked, by a server cap that alone yields a continuation point, and by a
silent ceiling; a point is a timestamp, of the last row given or the first one withheld.
A page must be able to hold the rows of one instant (`PagingAssumption`: cap and ceiling
are greater than `MaxPerInstant`), otherwise the server could never advance. `open` is the
set of points the server holds, by the page that carried them. A page is decoded before its
point is assigned (`HistoryBackfill.cs:470-473`), so the point of a page whose decoding
throws is one the client never knew: `OnlyUndecodedPointsLeak` says that one and no other is
left behind, which is not what the comment at `:506` says ("Released on every exit path").

### DerivedRows

One station, one alarm, one lot. `truth` is what the plant did; any record of it may be
delivered at any time, any number of times: the `State` stream goes on, goes back to a row
it is read again from (truncated windows, page boundaries), or skips some (an outage longer
than the history, a full notification queue). `txn` is the open transaction: what it sees of
the tables and the batch's own dictionaries, changed by one record at a time (`ApplyNext`)
while others enter the queue. A commit promotes them; a failure, after however many records,
drops everything but the lot table's sequence, and so does a process that stops, at any
moment.

The memory of the last state (`_lastStates`) is cleared by a new process and by nothing
else, whereas `PostgresWriter.cs:46-47` and `:990` have it empty "after a connect". So a
`from_state` is what `FromStateIsTrue` says: the state of the `State` that came into the
queue right before, if that one is earlier. Where the stream skipped within one process's
life that is a stale one; where it did not, it is the state the station came from
(`FromStatesAreTrueUnlessSkipped`).

### PackML and Line

The machine of each station passes through an acting state inside one `_drive` call, so
between two drives it waits; `Reaches` is the state a command leaves it in. `Line` keeps
instants relative to the cycle last popped. A tick is the time one command takes to
publish its two states (two transition intervals), a bring-up three ticks; `busy` is
`_published_until`. `step` is the driver's place within `Line.step`, which has an await at
each published state, so that `Acknowledge` (the screen's button, another coroutine) may
come in between, by a clock that trails the line (catch-up) or leads it past the cycles to
come (the live backlog). Where the feeder or the outfeed cannot serve one more part is a free
choice, and so is whether a press reads in or out of tolerance.

Left out: the text of suspend reasons (that the latched one may be older than the
condition is documented in the code), buffer-level publications, part data other than
which stations worked it. `hold` and `unhold` act between two steps.

### Faults and Plant

A fault is a record of its kind, window, magnitude, scope and ramp; `Specs` is the table
of `faults.py`, `Builders` the eight scenarios, magnitudes are fractions so that a ramp
is exact. `TruthByLane` draws each defect of a part under its threshold: the draw is a
constant function of part, lane and class, as the seeded streams are. The exponent of the
gap model is a setting.

`Plant` is one event loop. `driver.pc` is where the driver is: `step` inside a cycle,
`await` on the inspection service, `pause` after a batch, `reconcile`, `waiting` for the
clock, `sleep` between live cycles, `down` after an exception ended the task group, and
`refused` when reconciliation did. `Stores` (the historian) and `Injects` (the panel) are
enabled only where the driver yields, which is what one event loop means; a cycle
without an await is one step. The inspection service is another process: `service`
survives `Boot`. Serial numbers start at zero at every boot, so the service knows parts of
the same serials. `Fails` is any failure of either request, which may have got through.
`log` is the ground-truth file, unlinked and rewritten at a boot; `ledger`, `queue` and
`rows` are the plant's own count, the server's bounded queue and the history database,
for one stream of values and one of events. A line that suspends, and what it does with
carriers, alarms and PackML states, is `Line`; here stations are in a row, due at every
takt, and a cycle runs or is suspended.

Not modelled: process values, measurement noise and images other than whether a frame can
be drawn; jitter; the classifier's confidences.

### Calendar, Propagation, Stops, Parts, Analysis

The service has no state of its own. `scenario.db` holds the rows there will be,
`missing` the facts not visible yet, `View` what the queries see; `Store` makes one more
visible in any order, as a backfill does, and `Tick` moves the clock between requests (a
request reads it once). A route leaves its answer, and the properties compare that with the
database. The connection is READ COMMITTED (`db.py:46` sets nothing), so a request whose
statements must agree is two actions with stores in between: its first statement, which is
remembered by what it could not see (`request`, `FirstView`), and `Conclude` with the rest.
These are the list of stops (its outputs, then its anchor, `routes_stops.py:111` and `:128`),
one stop (its anchor, then what followed), the statistics (totals, then classes and buckets)
and `/parts/affected` (the scope, then what it cannot place). The others are one snapshot.
Local time has two changes of the clocks;
hours are the unit. `Propagation` follows `derive_chain` link by link, with its four ways
to end; `Parts` computes Fisher's test over whole numbers and keeps p-values as
fractions.

Not modelled: the formats of ids and their 422s, response bodies, the images route, the
rounding of the log-gamma terms.

### Routing, Answers, Agent

`Routing` and `Answers` are pure: which documents a question gets within the retrieval
budget, which citations resolve, what a failed one takes with it, how findings collapse
and are summarised, what the scripted provider asks for next. `Agent` runs several
questions at once. `at[a]` is the await a question is at. `Snapshot` is what an
`INSERT ... SELECT MAX(seq) + 1` computes, the commit a later step that the primary key
may refuse: two questions in one session do get the same number, and one of them fails.
A client may name any session id (`app.py:68`), one nobody has opened too. The check
(`MayAsk`, `subject_of`) and the insert (`Remember`, ON CONFLICT DO NOTHING) are two
transactions, so two callers may both pass the check for one id.
An external model is any choice of tools (`Turns`) and of claims (`Finals`), with
citations that open, that do not, that the run did not load, and of failed calls. `Break`
is any exception or a client that goes away. What a tool returns is whether it failed.

### Types

The shape of every variable is documented where it is declared. `TypeOK` is checked in
`IngestQueue` and `Line`; in the other modules it follows from the safety properties'
reading of the variables or would restate the assignments.

## Runs

| run | asks | bounds |
|---|---|---|
| `ingest_queue` | is anything lost, reordered or stuck; does the queue refine its promise | 3 records one of which is refused, 4 ids, batches of 2: a full batch, a partial one, a batch before and after a retry |
| `gateway` | what stays open after an outage; is a subscription open in a catch-up; is a reconnect answered | 2 streams (one with a current value, one of events), the plant's clock at 3 and one more tick, storage empty or up to 1, history depth 1, window 1, 2 disturbances at any step: an outage shorter and longer than the depth, a second one during its repair, an old subscription that is kept, opened again or lost, a crash between the two streams of the window (one window a backfill: that several follow each other, and resume, is proved and not run) |
| `gateway_seam` (violated) | is every outage closed or marked | a first boot and 3 ticks, no disturbance at all |
| `gateway_fault` (violated) | does a fault stop the gateway | 2 disturbances at any step |
| `history_paging` | is a successful run complete, does its ledger tile it, which points are not released, does it end | span 6 in windows of 4, up to 5 rows, 2 per instant, page 2 or 5, cap 3 or 6, ceiling 4: every combination of which limit cuts a page, halving twice down to the floor |
| `derived_rows` | do the rows say what happened | 3 transitions, 3 states, 4 deliveries, batches of 2, 2 lot ids: a state before and after its reason, in one batch and in two, rewound, skipped and retried |
| `line` | movement, alarms and publishing instants | 3 stations (a head, a monitored middle, a tail), capacity 1, 2 carriers, takts 4 or 6, a run of 2 bad parts, an operator after 6 ticks or at the button, the panel's clock 2 behind or 7 ahead, past every next cycle: starved, blocked, Held, Aborted, and two alarms in a row |
| `line_acknowledge` (violated) | is an alarm acknowledged after it is raised | the same without holds |
| `plant` | truth against log and service, lots against reads, history against reconciliation; does catch-up end | 4 takts of history at three times the speed, pauses after 5 cycles, queues of 2, buffers of 1, quiet after 2 polls, at most 4; scenario 7 (a bad lot); one of five requests injected; 2 boots; live up to instant 5: a queue that overflows, a press that cannot close, a frame that cannot be drawn, a service that fails or remembers another boot's part, a lot that changes on each lane |
| `analysis` | do listed stops open, chains carry evidence, coverage, buckets, containment, patterns and calendar add up | one scenario per kind of question: a line that stops and restarts with one output late (between a request's statements too) and overlapping gaps; every combination of how four stations were found, with two buffer histories, a late state and a late reason; four parts of two lots and two carriers, half known, under sixteen selections; seven verdicts for the tests (minimum sample 2, alpha 1/3); every hour from 50 before to 50 after both clock changes. Limits of 1 and 2, so that lists are truncated |
| `stops_phantom` (violated) | does every id of a list open | the same |
| `agent` | does an exchange keep its address, does only what resolves ship, are failures counted in a row, does every question end | two questions, one investigated and one declined, of one caller or two, in an old session or under an id that nobody, or the other, has opened; both providers; a budget of 2 turns, 2 failures in a row, one retry; two documents and 4 characters of retrieval out of five documents |

`Horizon` bounds how far back `Line` tells instants apart: while an alarm is open
an older instant is rounded up to it, otherwise to one tick, because nothing then looks
at an earlier one. It exceeds a takt, a visit and two bring-ups together, and the panel's
lead. `MaxPresses`
and `Holdable` bound the other callers; `MaxIds`, `MaxDeliveries`, `MaxTime`,
`MaxDisturbances`, `MaxWall`, `MaxInstant`, `MaxInjections`, `MaxBoots` and `MaxFeedback`
bound runs of the others. In `Plant` the clock stops at `MaxWall`, the first instant past
catch-up, which is enough for the button of the panel to be pressed on either side of the
seam. Every property of a passing run has a mutant in `PROJECT.json`: a plausible bug in
one mapped definition under which TLC finds it violated. Deadlock is checked for
`IngestQueue` and `Line`; the others may really stop (a run that is done, time at its
bound, every question answered).

### Fairness

* `IngestQueue`: the drain's read, write and ack, if they can happen again and again, happen
  (strong, since an outage, a crash or an SQLite error may interrupt any number of times).
  Nothing starts a process again: `compose.yml` sets no restart policy, so it may stay down,
  and the property says what follows then.
* `Gateway`: the ingest task, the SDK's reconnect handler (which retries for ever), the
  plant's catch-up and the shutdown proceed. Nothing makes time pass, a step fail, or an
  ended process start again: `compose.yml` sets no restart policy.
* `HistoryPaging`: calls return or throw.
* `Line`: the driver is one task that never waits longer than for the next cycle.
* `Plant`: the driver and the wall clock go on. The historian need not: `CatchupEnds`
  holds even if it never stores another row, because of the ceiling of `reconcile`.
* `Agent`: every stream that has opened goes on, its calls having timeouts. Nothing makes
  a tool answer or a provider cite what opens.
* `Analysis` states none: each request is one or two steps, and no property is about its end.

### Findings

Four runs are violated, each refuting a sentence of a comment, the design or a test;
`PROJECT.json` quotes them. In short: the backfill's window ends before the subscription
begins, so event data in between is in neither (until a later backfill happens to start
before it); a fault in the supervisor does not stop the gateway because `Task.WhenAll`
also waits for the drain; a button pressed during catch-up acknowledges an alarm before it
was raised; a list of stops over a window that is not over yet measures an open silence to
the window's end, so it names stops that have not happened and whose ids do not open.

Seen while modelling, and not runs of their own:

* An interruption inside a backfill leaves the resume point past rows that were never read,
  and a subscription the SDK opened again, a failed enqueue and a plant that restarts twice
  leave others that no marker names: the places of `OnlyNamedGapsStayOpen` (see Gateway
  above). That property passes because it names them, and says that there are no others.
* The continuation point of a page that could not be decoded is never released
  (`HistoryBackfill.cs:470-473` assigns it after the decode), against "Released on every exit
  path, cancellation included" (`:506`). `OnlyUndecodedPointsLeak` is what holds.
* `_lastStates` is not empty after a reconnect, only after a start, against
  `PostgresWriter.cs:46-47` and `:990`: when the stream skipped a `State` in between (an outage
  longer than the history, an overflow), the next row's `from_state` is one the station did not
  come from. `FromStateIsTrue` says which state it is.
* A session's owner "cannot go stale" between check and use (`sessions.py:100-101`), but an id
  that is not open yet has none to check: two callers who name one both pass, the loser's
  question is answered in the other's session, and its own trace answers 403.
  `ExchangeKeepsItsAddress` is stated so.
* The groups of `/inspection/stats` by defect class take their parts from one statement and
  their counts from a later one (`routes_inspection.py:59`, `:60`), so a row committed in
  between makes a share above 1 possible; by the same token buckets may add up to more than
  the totals, by just what was stored in between (`BucketsAddUp`).
* A row on the seam of two backfill windows is returned by both and stored once, and
  `Reconciler.Lost` counts it (`Reconciler.cs:26`); a page boundary that re-reads nothing
  is subtracted all the same and can hide a row that was lost.
* `Window.is_closed` explains that a closed window's result "can never change"
  (`analysis/windows.py:46-52`); a backfill writes rows into windows long closed, which
  `Store` does in the model.
* Which instant places a part for a station depends on whether any verdict has been
  stored at all (`queries_traceability.py`; `StationAnchor`): before the first one,
  the inspecting station has none.
* An injection is stamped with the panel's `clock.now()` (`hmi.py:537`), which lies in
  the line's past while catch-up runs ahead of the clock and a little in its future
  afterwards; `ground_truth.py:283-284` presents it as the simulated instant. The truth
  of every part is still the log's (`TruthFollowsTheLog`).
* With `alarm_consecutive_parts` at 1, which nothing excludes (`config.py:237`; the plant
  runs with 3), TLC finds `ClearedBeforeRaisedAgain` violated: the restart's rows lie ahead
  of the station's next cycle, and one reading out of its band there raises the next alarm
  before the last is cleared. `test_alarms.py:247-249` states the property under the
  default settings; from two on it is proved (`AlarmsDoNotOverlap`).
* An injection the checks accept can raise in the driver at the next part: a clarity above
  1, a press whose clamp is never reached. The task group ends and the plant with it, and
  nothing starts it again (`plant/compose.yml` sets no restart policy).

## Proofs

`IngestQueueProofs` proves, for every set of records, batch size and bound:

* `IngestCorrect`: `Spec => []IngestInv`, the inductive invariant;
* `IngestTypeCorrect`, `NothingAcceptedIsLost`, `DatabaseHoldsAPrefix`: the type
  invariant and the two safety invariants of the run;
* `QueueRefinesDurableIngest`: the queue implements `DurableIngest`.

`AckedIsCommitted` and `CommittedIsPrefix` are not inductive: whether an ack is harmless
depends on what the drain holds. `IngestInv` adds that the batch is a head of the table
(`BatchIsHead`) and that, while the drain waits to ack, the batch is committed and still
in the table (`AckDeletesOnlyCommitted`). The refinement maps the marks to the number of
ids handed out, the number committed, and the number no longer in the table; its step
lemma needs that a committed prefix and the deleted prefix are initial segments, so that
their sizes are their ends. The proofs assume `IngestAssumption` (the refused records are
records, the batch size is positive, the bound is a natural number) and nothing else.

`GatewayProofs` proves, for every set of streams, depth of history, width of a window, length
of a run and number of disturbances, wherever they fall:

* `GapsAreNamed`: `Spec => []OnlyNamedGapsStayOpen`. A sample is owed (`Owed`) when it is
  neither accepted nor on its way, nor let go of in one of the six places, nor within a gap
  marker. What makes the property inductive is `ResumeSafe`: nothing owed is as old as
  anything accepted or on its way, but for the window that is being read. So the one maximum
  is a safe place to resume, however far the drain is behind (`QueueOK`: it is the instant of
  some accepted row). A read destroys that, its streams coming one after the other, and
  carries `ReadSafe` instead: what is owed lies where the backfill still comes to. That gives
  nothing owed at its end (`SubscribeSafe`), and from then on what is owed is on the wire of
  the task's own subscription (`LiveSafe`). A read that ends early lets go of what would break
  `ResumeSafe` and of nothing else (`AbandonedSafe`).
* `SubscriptionsWait`: `Spec => []SubscribedOnlyPastCatchUp`, from the same invariant: from the
  poll to the subscription none is open but what a reconnect brought back, and then its signal
  is pending (`SessionOK`).

They assume `GatewayAssumption`: finitely many streams, and a depth and a window of a tick or
more.

`HistoryPagingProofs` proves, for every history, page size, server cap, ceiling and width of
a window:

* `NothingIsLeftUnread`: `Spec => []DoneIsComplete`. About the historian it proves that what
  precedes a row of a page is on the page too (`OldestIsClosed`) and that a page shorter
  than its limit is everything (`FewerAreAll`), whence the pager's two facts: a last page
  that is believed is complete (`ShortPageIsAll`), and every row before a continuation point
  has been given (`PointCovers`). The inductive `IInv` says what is handed over at any
  moment: all the ledger covers (`Covered`), and of the window being read all before the
  next page (`Reading`).
* `LedgerIsGapless`: `Spec => []LedgerTilesTheRun`. The property looks at the first window
  to be read; the invariant needs all of them (`Tiled`: from the ledger's end to the end of
  the run, each from where the one before ends), which the run's own windows satisfy
  (`RunIsTiled`), which reading one leaves (`RestIsTiled`) and which halving one restores
  (`HalvesAreTiled`).
* `PointsAreReleased`: `Spec => []OnlyUndecodedPointsLeak`. `PointHeld` says that while the
  client pages or releases, the server holds the one point it knows, and otherwise none but
  that of the page that could not be decoded.

They assume `PagingAssumption`, of which two parts are about the plant: its cap and the
ceiling are above the number of rows of one instant.

`PlantProofs` proves, for every scenario, setting, draw, request and bound:

* `TruthIsOnRecord`: `Spec => []TruthFollowsTheLog`. The property speaks of the parts on
  record only; the inductive `LogInv` adds that what is in force is exactly what is
  logged, so that the next part's truth, computed from the faults, is the one the log
  implies. Appending to the fault set and to the log leaves the witness of every older
  part in place, and a boot replaces both. Nothing is assumed of `TruthByLane`: both sides
  apply it.
* `VerdictsAreOnRecord`: `Spec => []VerdictIsOnItsOwnTruth`. The inductive
  `VerdictInv` follows the part in the station's hand: its truth is on record, once the
  first request is done the service holds that truth under its serial, and once the second
  is done the verdict was read from it. Nothing else writes under that serial in between,
  whatever an earlier boot left there.
* `LotsAreTraceable`: `Spec => []ReadsAgreeWithTheSchedule`. The inductive `LotsInv` adds
  that a lane's lots follow each other without overlap and only the last is open
  (`Chained`), and that every read lies before the driver's instant: so closing a lot at
  this instant takes it from no earlier read (`NextLotFollows`), and at most one lot can be
  the answer to a lookup (`OneLotSupplies`).
* `HistoryIsRightlyJudged`: `Spec => []ReconcileIsRight`. Reconciliation only counts rows,
  while a full queue drops notifications from the middle of a stream. Counts are enough
  because each stream publishes 0, 1, 2, ... once: `InOrder` bounds the value of every
  stored row and every held notification by what lies on either side of it, storing and
  dropping keep the bounds (`StoredKeepsOrder`, `QueuedKeepsOrder`), and with as many rows
  as publications the bounds meet (`EnoughIsWhole`). That the streams do count on by one is
  the rest of `HistoryInv`: rejects are published as they are counted (`RejectsInv`), and
  the parts between S1 and S3 carry the next serials in their order, the one in the
  station's hand first (`PartsInv`).

The proofs about `Plant` assume `PlantAssumption`, of which only the history's needs a
part: the notification queue has a place.

`DerivedRowsProofs` proves, for every history of the station, order of deliveries and batch
size and any number of failures and restarts, from one invariant (`DerivedInv`):

* `FromStatesAreRight`: `Spec => []FromStateIsRight`. The invariant says what a memory that
  has followed the first n records of the queue knows (`Remembers`: the last `State` among
  those this process applied, nothing before the first). So a memory that is earlier than the
  row at hand is the `State` before it in the order of the queue (`Preceded`), and after a
  rewind it names nothing (`PreviousIsTrue`), whatever the stream skips and whoever restarts
  when.
* `FromStatesAreTrueUnlessSkipped`: as long as the stream, from one `State` to the next,
  goes on by one or back (`NothingSkipped`), each `from_state` is the state the station came
  from. That is the comments' claim with the condition it needs.
* `WhatIsAckedIsDerived`, `NothingInTablesIsInvented`: `AckedIsDerived` and
  `NothingIsInvented`. No record's upserts take away what another's left (`Keeps`), so what
  n records are owed stays (`OneMore`); the same is kept of the committed tables and of the
  open transaction, and a commit nobody reported only runs ahead of what is acknowledged.
* `CachedIdsAreCommitted`: `CachedIdIsCommitted`. It needs that the transaction sees the
  committed lot's id: a rolled-back insert moves the sequence on, and what the shared cache
  holds came with a commit.

They assume `DerivedAssumption` and nothing else.

`LineProofs` proves, for every number of stations, carriers and buffer places, every takt
longer than a bring-up and every fate of a part:

* `NoCarrierIsLost`, `PartsAreWorkedInOrder`, `OneStationAnInstant`:
  `CarriersConserved`, `PartsWorkedInOrder`, `OneStationPerInstant`, from `LoadedInv`.
  `CarriersInv` says where carriers are without counting (`Places` is then one);
  `PartsInv` that a buffer's number tells what its carriers went through; `MovedInv`
  that what moved at this instant is in a buffer below which no station is due before
  time passes, since the driver works the line from its end; `RoomInv` that a station at
  work has room below it.
* `NothingIsRefused`: `Spec => []NothingRaises`, from `DriverInv`. `ScriptInv` says that the
  rest of a run of commands fits the state the machine is in at each await, and `AlarmInv`
  what an alarm's flags say of its machine: a station shut down stays aborted until its
  restart, whatever is acknowledged meanwhile.
* `AlarmsDoNotOverlap`: `Needed >= 2 /\ OnePress => (Spec =>
  []ClearedBeforeRaisedAgain)`, from `InstantsInv`. Events are published at instants the
  driver computes ahead of its clock, so the invariant bounds how far: a station's rows
  at most five ticks ahead of its next cycle (`StationInstants`), a clear at most three
  ahead of it while all is well (`Resting`), and none ahead of a reading that counts
  towards the next alarm (`Counting`). Both hypotheses are needed: for the first see the
  findings; with `OnePress` (one station has a press: `s2_joining.py:128` alone observes
  a force) no button in the live backlog sends the operator to a second station ahead of
  the line while he is at the first.
* `StatesKeepToTheLine`: `Needed >= 2 /\ OnePress => (Spec => []PublishedNearTheLine)`, from the
  same invariant: `_published_until` moves a row's instant to a tick past the last one each
  time, and it catches up with the line again, however the operator presses and however far
  the panel's clock leads or trails.

They assume `LineAssumption`: besides positive numbers, a takt longer than a bring-up, which
`run_catchup` checks.

`AgentProofs` proves, for every set of questions, sessions and replies, every budget and limit:

* `AddressesAreGood`: `Spec => []ExchangeKeepsItsAddress`. A number is computed in one step
  and inserted in another, and may be taken in between; then the insert is refused and the
  question fails. `AddressInv` says what a stale number still tells: every smaller one is
  taken (`ExchangeInv`), so an insert that succeeds leaves the session's numbers without a
  gap (`RowKeepsTheTable`); a trace hangs off its own question's row and is that run's
  (`TracesInv`). `OwnersInv` says whose a session is: of one that was open, its owner's, and
  nobody else's question gets into it; of any other, of the asker whose question opened it,
  which is the one exception the property makes for the other's trace.
* `GivesUpOnARow`: `Spec => []AbortsOnConsecutiveFailures`. `FailuresInv`: the counter is the
  length of the failing tail of the calls, and no earlier row was long enough
  (`CallCounts`).
* `ShippedClaimsAreBacked`: `Spec => []ShippedClaimsResolve`. `ShippedInv`: what a run states
  is made of findings, and no answer is one of the verified ones before its run has left the
  loop, so that nothing it rests on (the calls, the documents) changes afterwards.
  `ComposedCites` is the composing itself: whatever is collapsed, put first or summarised,
  each citation that ships is one of a finding that was kept; `VerifiedIsBacked` that a
  finding that is not kept had a citation that failed, which is the caveat.

They assume `AgentAssumption`: positive limits, and that what a model answers with has the
shape of findings: each is validated before anything reads it (`pipeline.py:344`).

`AnalysisProofs` proves, for every scenario, lateness of rows and clock, seven theorems from
`AnalysisInv`: each request under way was begun over a view that the database has grown from
(`RequestRight`), and each answer is the route's over that first view and the one of this
instant (`AnswerRight`).

* `TimeIsTiled`: `Spec => []CalendarTiles`. The heart is that the wall clock has an
  inverse (`LocalClock`): `Local` gives the first instant that shows a time, and every
  earlier instant shows an earlier one, though an hour is skipped in spring and repeated
  in autumn. Shifts, days and weeks then meet because both ends are the same `Local`, a
  shift lasts 7 to 9 hours (`ShiftsAreShifts`), and "last night" looks back at most one
  day (`LastNightLooksBack`, which unrolls the recursive function as far as it is used).
* `BucketsAreRight`: `Spec => []BucketsAddUp`. Every instant has one bucket
  (`BucketOf`, `BucketsTile`), two windows cut the clock the same way wherever a bucket lies
  in both (`BucketsAgree`), and what disjoint buckets count adds up (`BucketsSum`), to the
  totals and to what was stored after them.
* `ScopesAreComplete`: `Spec => []ContainmentIsComplete`. The two statements of the request
  see two views, and an anchor is one instant or none in any view (`OnePlace`): so a part
  both views show alike is selected, outside or unplaceable, and only one of these
  (`OneOfThree`).
* `ChainsAreEvidence`: `Spec => []ChainIsEvidence`. `WalkInv` says of the walk after n steps
  that its links lead to one another (`Leads`), that no episode is used twice, that the last
  link leads to where the walk is, and that n episodes have been used: since there are only
  so many, the walk is over when the recursion is cut off (`WalkIsOver`). On one line an end
  of the line is the head or the tail (`EdgesAreEnds`).
* `CoverageIsTheUnion`: `Spec => []CoverageMeasuresTheUnion`. A finite set can be put in order
  (`OrderExists`), and along it `SweepInv` holds: the sweep has spent as many hours as the
  intervals so far cover, its span is the last stretch of them, and nothing covered is
  later. So a next interval, which begins no earlier than the span, adds what is new
  (`GrowKeeps`), and the sum is the size of the union (`MergedIsUnion`).
* `IdentifiersResolve`: `Spec => []ListedStopResolves`. Both ways of naming a stop give
  the last part out at or before its beginning, and none came out while it lasted
  (`Silent`, `ListedAreSilent`), in the view that listed it: outputs are only added
  afterwards, so the rest is of stops that are silences still. So what opens by that
  name goes on at least as long (`SilentOpens`), two stops of a window follow different
  parts (`NamesDiffer`), and overlapping silences of any two windows follow the same one
  (`NamesAgree`).
* `PatternsAreRight`: `Correction = "benjamini_hochberg" => (Spec =>
  []PatternsAreCorrected)`, the correction the service is configured with
  (`config.py:98`); the others of `Adjust` do not step up, and their values are not the
  procedure's. Fractions compared crosswise are a linear order (`AtMostTotal`,
  `AtMostTrans`), so the tests that ran can be sorted (`RankedIs`, from `SortExists`).
  The recursion of the procedure has a solution (`StepUpExists`), and `Settled` holds of
  it from each position on: the adjusted value is at most every scaled one from there
  on, is one of them or 1, and never falls with the position. A significant value is at
  most alpha, hence below 1, hence some later test's scaled one; that test's own p is no
  greater, and neither is any p before it. The p-values are fractions because the ways
  to choose are positive numbers (`ChooseIs`); that they are those of Fisher's test is
  not said.

The sums are folds over finite sets. That one part at a time may be taken out of such a fold
(`OneSum`) and that disjoint sets add up (`TogetherSums`) is proved by the smallest
counterexample, through the library's theorem on minimal elements of a well-founded
relation, which takes no operator.

They assume `CalendarAssumption` and `ChangesAssumption` (one spring and one autumn change,
far enough apart, neither of them at midnight nor when a shift begins: Berlin's are at two
and three), `StopsAssumption`, and `ScenariosAssumption`: instants are integers, a clock has a
first one, there are finitely many rows and (`PartsAssumption`) classes, alpha lies between 0
and 1 (`significance.py:110`), a part has at most one verdict and one leaving (the
primary keys of those tables, `001_m1.sql:37` and `003_m2b.sql:108`), a buffer's code is unique
(`002_m2a.sql:7`), and the topology is one line, with no more than one station that nothing
feeds and one that feeds nothing. On a plant with two of these `LineTopology.head` has no
answer (`propagation.py:197`) and neither has the property.

Three things of the model were rewritten so that it could be reasoned about, and none
changes what it does: guards that overlapped and were tried in order are nested conditions,
as in the code; a sort is the choice of a sequence in that order (`InOrder`, `Ranked`), where ties,
which the code leaves as it finds them or breaks by the key, may come either way; and the findings of an answer
that are kept, lead and support are named by their positions (`Picked`), so that two equal
findings stay two.

Only model-checked: liveness (under fairness it is out of the prover's reach, as is
ENABLED), and `TypeOK` of `Line`, whose bounds are those of the run.

## Not modelled, and the plan

Out of reach or without behaviour to check: signal generation and noise (numerical),
images and the classifier's scores, rendering, wire formats and ids, external model
providers, the SQL text itself (its results are modelled). Without state that changes:
token checks (auth, issuer: the key set is read at start), the MCP server (a client of the
agent's stream), address space, PKI set-up, topology discovery, event decoding, the user
interfaces. Not modelled although it has state: the reload of the knowledge index
(`documents.py:350-362`), the plant's snapshot websocket, the gateway's overflow
markers, reconciliation's
count over a moving database.

What comes next, in this order:

1. the subscription's overflow markers (what a full server queue drops, and the marker that
   names it), composed with `Gateway`;
2. an abstract specification of the backfill (a set of samples owed, of which some are let go)
   that `Gateway` implements.
