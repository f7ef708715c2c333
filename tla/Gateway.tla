------------------------------- MODULE Gateway -------------------------------
(***************************************************************************)
(* The edge gateway's ingest task: the boot handshake, the backfill from   *)
(* where storage ends, the live subscription, and the supervisor that      *)
(* repeats all three after an outage (Program.cs, with UaConnection,       *)
(* HistoryBackfill.RunAsync, Subscriptions.StartAsync and the drain).      *)
(*                                                                         *)
(* Data is reduced to samples <<stream, time>>; the plant's history is the *)
(* reference for what ought to be stored. The queue and its drain appear   *)
(* as what IngestQueue shows of them: what the queue has accepted gets to  *)
(* the database, across the process's death, in the order of acceptance.   *)
(* Of that order only the rows later than every one before them matter,    *)
(* for they alone move the point a backfill resumes at.                    *)
(*                                                                         *)
(* The process may be killed, the session lost and the plant restarted at  *)
(* every step, and plant time passes at every step. The ghost "exposed"    *)
(* grows only where the code lets go of a sample no later backfill looks   *)
(* for; each place is named where it is.                                   *)
(***************************************************************************)
EXTENDS Naturals, FiniteSets

CONSTANTS
  Streams,        \* every stream the plant publishes
  EventStreams,   \* those with no current value: a new item on them reports nothing at once
  HistoryDepth,   \* GatewayOptions.HistoryDepth, in ticks
  Window,         \* GatewayOptions.BackfillWindow, in ticks
  Start,          \* the plant's clock when the gateway is first started
  Ends,           \* where storage may end by then; 0: it is empty
  MaxTime,        \* bound: where plant time ends
  MaxDisturbances \* bound: crashes, drops and failures together

ASSUME GatewayAssumption ==
  /\ EventStreams \subseteq Streams
  /\ IsFiniteSet(Streams) /\ Streams # {}
  /\ HistoryDepth \in Nat \ {0} /\ Window \in Nat \ {0}
  /\ Start \in Nat /\ MaxTime \in Nat /\ HistoryDepth <= Start /\ Start <= MaxTime
  /\ Ends \subseteq 0 .. Start /\ MaxDisturbances \in Nat

VARIABLES
  \* the plant
  now,        \* its clock; live, it is also the gateway's
  written,    \* its history holds the instants up to this one
  phase,      \* Clock.Phase: "catchup" while the history is being rebuilt, then "live"
  \* the session
  link,       \* "up"; "down"; "back": restored by the SDK, OnReconnectComplete still to run
  subscribed, \* "own": the subscription StartAsync opened; "stale": one the SDK opened again;
              \* "lost": the session names one the server has forgotten; "none"
  wire,       \* notifications the server holds for it, not yet published
  signals,    \* the semaphore Reconnected releases
  \* durable state of the diagnostics stack
  accepted,   \* samples the queue has taken: they are, or will be, in raw_events
  rising,     \* instants at which those still queued will move lastStored, in their order
  lastStored, \* SELECT max(source_ts) FROM raw_events, over every stream at once; 0: no row
  gaps,       \* instants inside the markers it has taken, which get to ingest_gaps
  \* the gateway process
  drain,      \* QueueDrain.RunAsync: "off", "running" or "faulted"
  step,       \* where the ingest task is
  booting,    \* the first pass, which the supervisor has not started behind
  pending,    \* enqueues the subscription's callbacks have started and nobody awaits
  bf,         \* the backfill: its end, the current window's start, its unread streams, and the
              \* instant from which the plant's history is known to reach
  \* ghosts
  exposed,    \* samples let go of behind the resume point, and not come by since
  disturbances

plant == <<now, written, phase>>
session == <<link, subscribed, wire, signals>>
queue == <<accepted, rising, gaps>>
task == <<step, booting, bf>>
vars == <<plant, session, queue, lastStored, drain, task, pending, exposed, disturbances>>

Times == 0 .. MaxTime
Samples == Streams \X (1 .. MaxTime)
NoBackfill == [to |-> 0, start |-> 0, unread |-> {}, kept |-> 0]

\* How far back the plant's history reaches.
Earliest == IF now > HistoryDepth THEN now - HistoryDepth ELSE 0

\* The plant's history is written; a gateway that meets it in its first catch-up is one before
\* whose boot it restarted. Storage is empty, or has what was published up to some instant.
Init ==
  /\ now = Start /\ written = now /\ phase = "live"
  /\ link = "up" /\ subscribed = "none" /\ wire = {} /\ signals = 0
  /\ lastStored \in Ends /\ accepted = Streams \X (1 .. lastStored)
  /\ rising = {} /\ gaps = {} /\ drain = "off"
  /\ step = "down" /\ booting = TRUE /\ pending = {} /\ bf = NoBackfill
  /\ exposed = {} /\ disturbances = 0

Lesser(a, b) == IF a < b THEN a ELSE b

\* EnqueueAsync, of rows in the order of their time. A row stored twice is one row.
Enqueue(samples) ==
  /\ accepted' = accepted \cup samples
  /\ rising' = rising \cup {t \in Times : /\ \E x \in samples \ accepted : x[2] = t
                                        /\ \A u \in rising \cup {lastStored} : u < t}

\* What a backfill that resumes at the latest of these samples does not look for.
Behind(samples) == {x \in Samples : \E y \in samples : x[2] <= y[2]}

------------------------------------------------------------------------------
\* The plant.

\* What the plant has published: the reference for what ought to be stored.
history == Streams \X (1 .. written)

\* A subscription the server knows.
Open == subscribed \in {"own", "stale"}

WindowEnd == Lesser(bf.start + Window, bf.to)

\* Rows of instant t that a backfill under way no longer comes to: past its end, or in a window
\* of which their stream is read.
Passed(t) ==
  {x \in Streams \X {t} :
     \/ step = "subscribe"
     \/ /\ step = "read"
        /\ \/ t > bf.to \/ t < bf.start
           \/ x[1] \notin bf.unread /\ t <= WindowEnd}

\* Every stream produces at instant t, the case in which an outage can lose most; an open
\* subscription queues what they did. Without one, a backfill that has fixed its end and not
\* yet subscribed lets go of it (the seam).
Produce(t) ==
  /\ written' = t
  /\ wire' = IF Open THEN wire \cup (Streams \X {t}) ELSE wire
  /\ exposed' = IF Open THEN exposed ELSE exposed \cup (Passed(t) \ (accepted \cup pending))

\* A tick of plant time; a line that has caught up with its clock produces at once.
Tick ==
  /\ now < MaxTime
  /\ now' = now + 1
  /\ IF written = now THEN Produce(now') ELSE UNCHANGED <<written, wire, exposed>>
  /\ UNCHANGED <<phase, link, subscribed, signals, queue, lastStored, drain, task, pending,
                 disturbances>>

\* A line behind its clock, in catch-up or in the backlog after it, produces the next instant.
Rebuild ==
  /\ written < now
  /\ Produce(written + 1)
  /\ UNCHANGED <<now, phase, link, subscribed, signals, queue, lastStored, drain, task, pending,
                 disturbances>>

\* The clock's catch-up window closes; what the line has not produced by then is its backlog.
CatchUpEnds ==
  /\ phase = "catchup"
  /\ phase' = "live"
  /\ UNCHANGED <<now, written, session, queue, lastStored, drain, task, pending, exposed,
                 disturbances>>

------------------------------------------------------------------------------
\* The session.

\* What a backfill interrupted within a window lets go of: the rows it has not come to, as far
\* as others lie at or after them.
Abandoned ==
  IF step = "read"
    THEN (bf.unread \X (bf.start .. WindowEnd)) \cap Behind(accepted' \cup pending')
    ELSE {}

\* The session dies, and OnKeepAlive starts the reconnect handler. The server goes on queueing
\* for a subscription it knows. The plant may have restarted: its subscriptions are forgotten,
\* and the reads left of a backfill find a history that is rebuilt as far back as it reaches now.
Drop ==
  /\ link # "down" /\ disturbances < MaxDisturbances
  /\ link' = "down" /\ disturbances' = disturbances + 1
  /\ UNCHANGED <<now, signals, queue, lastStored, drain, step, booting, pending>>
  /\ \/ UNCHANGED <<written, phase, subscribed, wire, bf, exposed>>
     \/ /\ written' = Lesser(written, Earliest) /\ phase' = "catchup" /\ wire' = {}
        /\ bf' = IF step = "read" THEN [bf EXCEPT !.kept = Earliest] ELSE bf
        /\ subscribed' = IF subscribed = "none" THEN "none" ELSE "lost"
        /\ exposed' = (exposed \cup Abandoned) \ accepted'

\* The current value of each data stream, which a new monitored item reports at once; one that
\* is accepted already changes nothing.
CurrentValues == (history \cap ((Streams \ EventStreams) \X {written})) \ accepted

\* The reconnect handler gets a session back. It may be the old one with its subscription, or a
\* new one, for which the SDK opens the subscription again, or fails to.
Restore ==
  /\ link = "down"
  /\ link' = "back"
  /\ \/ subscribed # "lost" /\ UNCHANGED <<subscribed, wire>>
     \/ subscribed # "none" /\ subscribed' = "stale" /\ wire' = CurrentValues
     \/ subscribed # "none" /\ subscribed' = "lost" /\ wire' = {}
  /\ UNCHANGED <<plant, signals, queue, lastStored, drain, task, pending, exposed, disturbances>>

\* reconnected.Release(): once per completed reconnect.
Released == signals + 1

\* OnReconnectComplete.
Reconnect ==
  /\ link = "back"
  /\ link' = "up"
  /\ signals' = IF step = "down" THEN 0 ELSE Released
  /\ UNCHANGED <<plant, subscribed, wire, queue, lastStored, drain, task, pending, exposed,
                 disturbances>>

------------------------------------------------------------------------------
\* The live path and the drain.

\* One publish response brings everything the server holds, of all items at once; each
\* callback starts an enqueue that nobody awaits. A subscription the SDK opened again begins
\* at its own time: once its rows are stored, what came before them is not looked for.
Publish ==
  /\ Open /\ link # "down" /\ wire # {}
  /\ pending' = pending \cup (wire \ accepted)
  /\ exposed' = IF subscribed = "stale"
                  THEN exposed \cup (Behind(wire \ accepted) \ (accepted \cup pending')) ELSE exposed
  /\ wire' = {}
  /\ UNCHANGED <<plant, link, subscribed, signals, queue, lastStored, drain, task, disturbances>>

\* One of them enters the queue, whichever the gate lets in next.
EnqueueEnds(x) ==
  /\ Enqueue({x})
  /\ pending' = pending \ {x}
  /\ exposed' = exposed \ {x}
  /\ UNCHANGED <<plant, session, gaps, lastStored, drain, task, disturbances>>

\* Or the queue file refuses it, which nobody observes: the row is let go of.
EnqueueFails(x) ==
  /\ disturbances < MaxDisturbances
  /\ pending' = pending \ {x}
  /\ exposed' = exposed \cup {x}
  /\ disturbances' = disturbances + 1
  /\ UNCHANGED <<plant, session, queue, lastStored, drain, task>>

\* The drain's transactions, up to the next one with a row later than all that are stored.
Drain ==
  /\ drain = "running"
  /\ \E t \in rising :
       /\ \A u \in rising : t <= u
       /\ lastStored' = t /\ rising' = rising \ {t}
  /\ UNCHANGED <<plant, session, accepted, gaps, drain, task, pending, exposed, disturbances>>

\* A record the writer refuses ends the drain, or a queue file that cannot be read. One that
\* outlives the supervisor may end so in any case.
DrainFaults ==
  /\ drain = "running"
  /\ step # "dead" => disturbances < MaxDisturbances
  /\ drain' = "faulted"
  /\ disturbances' = IF step = "dead" THEN disturbances ELSE disturbances + 1
  /\ UNCHANGED <<plant, session, queue, lastStored, task, pending, exposed>>

------------------------------------------------------------------------------
\* The ingest task.

\* The process starts and ConnectAsync succeeds.
Boot ==
  /\ step = "down" /\ link = "up"
  /\ step' = "phase" /\ booting' = TRUE
  /\ UNCHANGED <<plant, session, queue, lastStored, drain, bf, pending, exposed,
                 disturbances>>

\* What the poll's loop tests; the boot and the supervisor have a copy of it each.
CatchingUp == phase = "catchup"

\* The phase poll: wait out a catch-up, then start the drain if this is the boot.
PollPhase ==
  /\ step = "phase" /\ link # "down" /\ ~CatchingUp
  /\ step' = "window"
  /\ drain' = IF booting THEN "running" ELSE drain
  /\ UNCHANGED <<plant, session, queue, lastStored, booting, bf, pending, exposed,
                 disturbances>>

\* Mutant of GapMarker: an outage longer than the depth would leave no marker.
NoGapMarker(resume) == {}

\* What the plant no longer keeps goes in as a marker (PostgresWriter.GapRecord), whose own
\* timestamp is its start and so never moves the resume point.
GapMarker(resume) == resume .. (Earliest - 1)

\* What history held before an instant, and nothing has of it.
Older(from) == {x \in Samples : x[2] < from} \ (accepted \cup pending \cup wire)

\* BackfillFromStorageAsync up to the first read: its window ends now and starts where
\* storage ends, or where history begins with a gap marker for what lies before. When storage
\* is empty there is no marker, and what is older is let go of. The clock has moved on since
\* any stored instant, so there is always a window to read, were it one within a single tick.
OpenBackfill ==
  /\ step = "window"
  /\ LET resume == IF lastStored = 0 THEN Earliest ELSE lastStored
         from == IF resume < Earliest THEN Earliest ELSE resume
     IN /\ bf' = [to |-> now, start |-> from, unread |-> Streams, kept |-> Earliest]
        /\ gaps' = gaps \cup GapMarker(resume)
        /\ exposed' = IF lastStored = 0 THEN exposed \cup Older(from) ELSE exposed
  /\ step' = "read"
  /\ UNCHANGED <<plant, session, accepted, rising, lastStored, drain, booting, pending,
                 disturbances>>

\* What the plant keeps no more: it has restarted since the gap marker was decided on.
TooOld == {x \in history : x[2] < bf.kept}

\* What HistoryRead returns for one stream between two instants, both included.
ReadHistory(s, a, b) == {x \in history : x[1] = s /\ a <= x[2] /\ x[2] <= b} \ TooOld

\* The streams are read in the one order they have.
Reading == CHOOSE x \in bf.unread : TRUE

\* One stream of one window; then the next stream, the next window, and after the last the
\* subscription. What is too old comes back as no rows, and is let go of without a marker.
ReadWindow ==
  /\ step = "read" /\ link # "down"
  /\ LET rest == bf.unread \ {Reading}
         windowDone == rest = {}
         lastWindow == WindowEnd = bf.to
     IN /\ Enqueue(ReadHistory(Reading, bf.start, WindowEnd))
        /\ bf' = [bf EXCEPT !.unread = IF windowDone /\ ~lastWindow THEN Streams ELSE rest,
                            !.start = IF windowDone THEN WindowEnd ELSE @]
        /\ step' = IF windowDone /\ lastWindow THEN "subscribe" ELSE "read"
  /\ exposed' = (exposed \cup (TooOld \cap ({Reading} \X (bf.start .. WindowEnd)))) \ accepted'
  /\ UNCHANGED <<plant, session, gaps, lastStored, drain, booting, pending, disturbances>>

\* Subscriptions.StartAsync.
Subscribe ==
  /\ step = "subscribe" /\ link # "down"
  /\ subscribed' = "own" /\ wire' = CurrentValues
  /\ step' = "claim" /\ bf' = NoBackfill
  /\ UNCHANGED <<plant, link, signals, queue, lastStored, drain, booting, pending, exposed,
                 disturbances>>

\* Every item was accepted: state = "live", and from the boot's pass on, the supervisor is
\* behind it.
ClaimLive ==
  /\ step = "claim"
  /\ step' = "live" /\ booting' = FALSE
  /\ UNCHANGED <<plant, session, queue, lastStored, drain, bf, pending, exposed,
                 disturbances>>

\* Mutant of Woken: the extra signals would be drained before the wait instead of after it.
WokenByTheExtra == signals > 1

\* reconnected.WaitAsync returns.
Woken == signals > 0

\* The supervisor wakes and drops the extra signals.
CloseTheGap ==
  /\ step = "live" /\ Woken
  /\ signals' = 0
  /\ step' = "teardown"
  /\ UNCHANGED <<plant, link, subscribed, wire, queue, lastStored, drain, booting, bf,
                 pending, exposed, disturbances>>

\* Mutant of Removed: no subscription is taken down before the poll.
RemovedByNobody == [subscribed |-> subscribed, wire |-> wire]

\* What RemoveSubscriptionAsync over session.Subscriptions leaves.
Removed == [subscribed |-> "none", wire |-> {}]

\* It takes every subscription of the session down, and what the server held for them is gone.
TakeDown ==
  /\ step = "teardown" /\ link # "down"
  /\ subscribed' = Removed.subscribed /\ wire' = Removed.wire
  /\ step' = "phase"
  /\ UNCHANGED <<plant, link, signals, queue, lastStored, drain, booting, bf, pending,
                 exposed, disturbances>>

------------------------------------------------------------------------------
\* The end of the task, or of its process.

\* A read that ends where it is has enqueued some of its rows, oldest first.
PartlyRead ==
  IF step = "read"
    THEN \E h \in 0 .. WindowEnd : Enqueue(ReadHistory(Reading, bf.start, h))
    ELSE UNCHANGED <<accepted, rising>>

\* What ends with the process: its semaphore, its subscription as far as anyone answers to it,
\* and the enqueues it had started; those are let go of as far as later rows got in.
ProcessEnds ==
  /\ step' = "down" /\ drain' = "off" /\ signals' = 0
  /\ subscribed' = "none" /\ wire' = {}
  /\ pending' = {}
  /\ exposed' = (exposed \cup Abandoned \cup (pending \cap Behind(accepted'))) \ accepted'
  /\ link' = IF link = "back" THEN "up" ELSE link

\* A step throws: the session is gone, the database or the queue file refuses, a stream
\* vanished, a ceiling was reached, an item was refused by the server after the subscription
\* was created. In the boot's pass the exception is the ingest task's own and stops the
\* process; behind the supervisor it ends the supervising task only, which Task.WhenAll goes on
\* awaiting together with the drain.
TaskFails ==
  /\ step \in {"teardown", "phase", "window", "read", "subscribe", "claim"}
  /\ link # "down" => disturbances < MaxDisturbances
  /\ disturbances' = IF link = "down" THEN disturbances ELSE disturbances + 1
  /\ PartlyRead
  /\ bf' = NoBackfill
  /\ UNCHANGED <<plant, gaps, lastStored, booting>>
  /\ IF booting
       THEN ProcessEnds
       ELSE /\ step' = "dead"
            /\ UNCHANGED <<drain, session, pending>>
            /\ exposed' = (exposed \cup Abandoned) \ accepted'

\* WhenAll completes once both have ended, and the continuation stops the application.
ApplicationStops ==
  /\ step = "dead" /\ drain = "faulted"
  /\ UNCHANGED <<plant, queue, lastStored, booting, bf, disturbances>>
  /\ ProcessEnds

\* The process is killed, at any instant.
Crash ==
  /\ step # "down" /\ disturbances < MaxDisturbances
  /\ PartlyRead
  /\ bf' = NoBackfill
  /\ disturbances' = disturbances + 1
  /\ UNCHANGED <<plant, gaps, lastStored, booting>>
  /\ ProcessEnds

------------------------------------------------------------------------------
GatewayStep ==
  \/ PollPhase \/ OpenBackfill \/ ReadWindow \/ Subscribe \/ ClaimLive
  \/ CloseTheGap \/ TakeDown

Next ==
  \/ Tick \/ Rebuild \/ CatchUpEnds
  \/ Drop \/ Restore \/ Reconnect
  \/ Publish \/ (\E x \in pending : EnqueueEnds(x) \/ EnqueueFails(x)) \/ Drain \/ DrainFaults
  \/ Boot \/ GatewayStep \/ TaskFails \/ ApplicationStops \/ Crash

Spec == Init /\ [][Next]_vars

\* The task's loops, the shutdown and the SDK's reconnect handler (which retries for ever) run
\* by themselves, and the plant's clock ends its catch-up. Nothing obliges time to pass, a
\* session to drop, a step to throw, a record to be refused, a process to be killed, or one
\* that ended to be started again: no restart policy is set.
Fairness ==
  /\ WF_vars(GatewayStep)
  /\ WF_vars(ApplicationStops)
  /\ WF_vars(CatchUpEnds) /\ WF_vars(Restore) /\ WF_vars(Reconnect)

FairSpec == Spec /\ Fairness

------------------------------------------------------------------------------
\* The task is at its live step, with a session and no reconnect to answer.
Settled == step = "live" /\ link = "up" /\ signals = 0

\* Stored, queued, on its way to the queue, on the wire or inside a gap marker.
Covered(x) == x \in accepted \cup pending \cup wire \/ x[2] \in gaps

\* Whenever the gateway is settled, everything the plant produced is covered: "Backfill closes
\* exactly the gap" a boot, an outage of either side or a crash left (Program.cs:140-160,
\* PostgresWriter.LastStoredSourceTimestampAsync).
BackfillClosesTheGap == Settled => \A x \in history : Covered(x)

\* ... which the code keeps but in six places, and in no other: what was produced behind a
\* backfill's reads and before its subscription; the rest of a window that ended, or whose
\* plant restarted, between two streams; what such a plant keeps no more; what lay before a
\* subscription that the SDK opened again and the supervisor had not taken down yet; a
\* notification whose enqueue failed or died with the process while later ones got in; and
\* what history held before the first backfill into an empty database began.
OnlyNamedGapsStayOpen == Settled => \A x \in history : Covered(x) \/ x \in exposed

\* A subscription is open over a plant that is writing its history only from a reconnect to the
\* teardown that answers it, or where the supervisor has ended: the supervisor takes every
\* subscription down before it polls, and polls before it subscribes (CloseTheGapAsync).
SubscribedOnlyPastCatchUp ==
  Open /\ phase = "catchup" => link # "up" \/ signals > 0 \/ step \in {"teardown", "dead"}

\* A reconnect is answered by a pass of the supervisor, unless the task or its process has
\* ended by then: no signal is left in the semaphore for ever (Program.cs:230-252).
ReconnectIsAnswered == (signals > 0) ~> (signals = 0 \/ step = "dead")

\* A fault in the task that does all the work stops the application: the purpose the
\* continuation on the ingest task states (Program.cs:291-305).
FaultStopsTheGateway == (step = "dead") ~> (step = "down")
==============================================================================
