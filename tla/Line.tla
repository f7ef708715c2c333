-------------------------------- MODULE Line --------------------------------
(***************************************************************************)
(* The plant's line: stations in a row, a buffer between neighbours, a     *)
(* pool of circulating carriers, one queue of due cycles, and the alarm    *)
(* system that shuts a station down and lets an operator restart it        *)
(* (line.py, buffers.py, carriers.py, alarms.py, with packml.py's machine  *)
(* per station).                                                           *)
(*                                                                         *)
(* One driver steps the line; the acknowledge button of the plant's screen *)
(* is a coroutine of the same loop and runs wherever the driver awaits.    *)
(*                                                                         *)
(* Instants are kept relative to the instant of the cycle last popped. One *)
(* tick is the time a command takes to publish its two states, two         *)
(* transition intervals, so bring-up takes three.                          *)
(***************************************************************************)
EXTENDS Integers, Sequences, FiniteSets, SequencesExt, PackML

CONSTANTS
  N,            \* stations, 1 .. N in line order
  Capacity,     \* of every buffer
  Count,        \* carriers in the pool
  Takts,        \* ticks from one cycle of a station to its next
  Monitored,    \* the stations whose press has a ForceTolerance
  Needed,       \* alarm_consecutive_parts
  Delays,       \* ticks the operator takes to reach an alarm, acknowledge_delay_seconds
  Trails,       \* how far clock.now() trails the line when the button is pressed,
  Leads,        \* or leads it
  MaxPresses,   \* bound: presses per alarm
  Holdable,     \* bound: the stations anyone holds
  Horizon       \* bound: how many ticks back an instant is told apart

Stations == 1 .. N
Buffers == 1 .. N - 1      \* buffer b lies between stations b and b + 1
Carriers == 1 .. Count
NoCarrier == 0

ASSUME LineAssumption ==
  /\ N \in Nat /\ N >= 2 /\ Capacity \in Nat \ {0} /\ Count \in Nat \ {0}
  /\ Takts \subseteq Nat \ {0} /\ Monitored \cup Holdable \subseteq Stations /\ Needed \in Nat \ {0}
  /\ Delays \subseteq Nat /\ Trails \cup Leads \subseteq Nat
  /\ MaxPresses \in Nat /\ Horizon \in Nat \ {0}
  /\ \A takt \in Takts : Len(BringUp) < takt   \* run_catchup's window check

VARIABLES
  free,       \* the carrier pool
  buffer,     \* the carriers in each buffer
  part,       \* on each carrier, the stations that worked the part riding it
  machine,    \* each station's PackML state, between two drives a waiting one
  due,        \* ticks until each station's queued cycle
  busy,       \* _published_until: the tick of the station's latest two published states
  tolerance,  \* ForceTolerance._consecutive
  alarm,      \* each station's open alarm, if any
  cleared,    \* when its previous one was cleared
  step,       \* where the driver is in Line.step
  moved       \* ghost: carriers put into a buffer at this very instant

lineVars == <<free, buffer, part, due, moved>>
stationVars == <<machine, busy>>
alarmVars == <<tolerance, alarm, cleared>>
vars == <<lineVars, stationVars, alarmVars, step>>

\* The lists of AlarmSystem, per station: shutdown while its sequence is in _shutdowns, waiting
\* while it is in _due; due is acked_at once it no longer waits.
NoAlarm == [on |-> FALSE, shutdown |-> FALSE, waiting |-> FALSE, raised |-> 0, due |-> 0,
            presses |-> 0]
Idle == [pc |-> "idle", station |-> 1, hand |-> NoCarrier, script |-> <<>>, at |-> 0,
         visits |-> {}]

Ticks == -Horizon .. Horizon

TypeOK ==
  /\ free \in Seq(Carriers) /\ buffer \in [Buffers -> Seq(Carriers)]
  /\ part \in [Carriers -> Seq(Stations)]
  /\ machine \in [Stations -> Waiting]
  /\ due \in [Stations -> 0 .. Horizon] /\ busy \in [Stations -> Ticks]
  /\ tolerance \in [Monitored -> 0 .. Needed - 1]
  /\ alarm \in [Monitored -> [on : BOOLEAN, shutdown : BOOLEAN, waiting : BOOLEAN,
                              raised : Ticks, due : Ticks, presses : 0 .. MaxPresses]]
  /\ cleared \in [Monitored -> Ticks]
  /\ step.pc \in {"bringup", "idle", "work", "shutdowns", "visits", "restart", "reset"}
  /\ step.station \in Stations /\ step.hand \in Carriers \cup {NoCarrier}
  /\ step.script \in Seq(Commands) /\ step.at \in Ticks /\ step.visits \subseteq Monitored
  /\ moved \subseteq Carriers

\* Built, not yet brought up: every station Aborted, every first cycle seeded at one instant.
Init ==
  /\ free = [i \in Carriers |-> i] /\ buffer = [b \in Buffers |-> <<>>]
  /\ part = [c \in Carriers |-> <<>>]
  /\ machine = [s \in Stations |-> "Aborted"]
  /\ due = [s \in Stations |-> 0] /\ busy = [s \in Stations |-> -Horizon]
  /\ tolerance = [s \in Monitored |-> 0] /\ alarm = [s \in Monitored |-> NoAlarm]
  /\ cleared = [s \in Monitored |-> -Horizon]
  /\ step = [Idle EXCEPT !.pc = "bringup", !.script = BringUp, !.at = -Len(BringUp)]
  /\ moved = {}

------------------------------------------------------------------------------
\* Publishing.

\* Mutant of PublishedAt: a transition is put between the caller's instant and the states, too.
PublishedPastTheAsked(last, at) == IF at <= last THEN last + 1 ELSE at + 1

\* Never on top of a state this station already published.
PublishedAt(last, at) == IF at <= last THEN last + 1 ELSE at

\* _drive: apply one command at an instant, publish, settle, publish. seen is busy as of the
\* driver's present instant.
Drive(s, command, at, seen) ==
  /\ command \in Commands /\ machine[s] \in Accepts[command]
  /\ machine' = [machine EXCEPT ![s] = Reaches(command)]
  /\ busy' = [seen EXCEPT ![s] = PublishedAt(@, at)]

NoDrive(seen) == busy' = seen /\ UNCHANGED machine

\* The rest of a run of commands, each at the instant after the one before it.
DriveScript ==
  /\ step.pc \in {"bringup", "restart", "reset"} /\ step.script # <<>>
  /\ Drive(step.station, Head(step.script), step.at, busy)
  /\ step' = [step EXCEPT !.script = Tail(@), !.at = PublishedAt(busy[step.station], @) + 1]
  /\ UNCHANGED <<lineVars, alarmVars>>

\* bring_up: station after station through restart.
BringUpNext ==
  /\ step.pc = "bringup" /\ step.script = <<>>
  /\ step' = IF step.station = N THEN Idle
             ELSE [step EXCEPT !.station = @ + 1, !.script = BringUp, !.at = -Len(BringUp)]
  /\ UNCHANGED <<lineVars, stationVars, alarmVars>>

------------------------------------------------------------------------------
\* A cycle.

\* Mutant of Earlier: stations due together run upstream first.
EarlierUpstreamFirst(s, t) == due[s] < due[t] \/ (due[s] = due[t] /\ s < t)

\* The queue's order: time first, then downstream first.
Earlier(s, t) == due[s] < due[t] \/ (due[s] = due[t] /\ s > t)

\* Mutant of Downstream: a line wired past its next station.
DownstreamPastTheNext(s) == IF s + 1 < N THEN s + 1 ELSE s

\* _source_and_sink: a station's buffers follow from its place, at the ends there is none.
Downstream(s) == s
Upstream(s) == s - 1

IsFull(b) == Len(buffer[b]) >= Capacity

\* _suspend_reason, without its wording. outside: whether the feeder at the head, the outfeed
\* at the tail can serve one more part.
MustSuspend(s, outside) ==
  \/ s \in {1, N} /\ ~outside
  \/ s = 1 /\ free = <<>>
  \/ s > 1 /\ buffer[Upstream(s)] = <<>>
  \/ s < N /\ IsFull(Downstream(s))

\* An instant, d ticks later, told apart no further back than the floor.
Older(at, d, floor) == IF at - d < floor THEN floor ELSE at - d

\* While no alarm of a station is open, nothing looks back at its earlier instants.
Floor(s) == IF s \in Monitored /\ alarm[s].on THEN -Horizon ELSE -1

SeenAfter(d) == [s \in Stations |-> Older(busy[s], d, Floor(s))]

\* Pop the earliest cycle, move every instant on to it, and queue the station's next one
\* (_cycle queues it last, and nothing looks at the queue in between).
Pop(s) ==
  /\ step.pc = "idle" /\ \A t \in Stations \ {s} : Earlier(s, t)
  /\ \E takt \in Takts : due' = [t \in Stations |-> IF t = s THEN takt ELSE due[t] - due[s]]
  /\ alarm' = [m \in Monitored |->
                 IF alarm[m].on
                   THEN [alarm[m] EXCEPT !.raised = Older(@, due[s], -Horizon),
                                         !.due = Older(@, due[s], -Horizon)]
                   ELSE alarm[m]]
  /\ cleared' = [m \in Monitored |-> Older(cleared[m], due[s], Floor(m))]
  /\ UNCHANGED tolerance

MovedAt(d) == IF d > 0 THEN {} ELSE moved

\* Mutant of SettlesWhen: the alarms are settled after a cycle that produced.
SettlesAfterProducing(pc) == IF pc = "work" THEN "shutdowns" ELSE "idle"

\* Line.step settles the alarms whichever way _cycle returned.
SettlesWhen(pc) == "shutdowns"

\* A Held or Aborted station keeps its place in the queue and does nothing.
Stays(s) ==
  /\ machine[s] \in {"Held", "Aborted"} /\ Pop(s)
  /\ NoDrive(SeenAfter(due[s])) /\ moved' = MovedAt(due[s])
  /\ step' = [Idle EXCEPT !.pc = SettlesWhen("idle")]
  /\ UNCHANGED <<free, buffer, part>>

Suspends(s) ==
  /\ machine[s] \notin {"Held", "Aborted"} /\ Pop(s)
  /\ \E outside \in BOOLEAN : MustSuspend(s, outside)
  /\ IF machine[s] = "Execute" THEN Drive(s, "Suspend", 0, SeenAfter(due[s]))
                               ELSE NoDrive(SeenAfter(due[s]))
  /\ moved' = MovedAt(due[s])
  /\ step' = [Idle EXCEPT !.pc = SettlesWhen("idle")]
  /\ UNCHANGED <<free, buffer, part>>

\* Take a carrier from the pool or from the buffer above. The station is Execute again before.
Takes(s) ==
  /\ machine[s] \notin {"Held", "Aborted"} /\ Pop(s)
  /\ \E outside \in BOOLEAN : ~MustSuspend(s, outside)
  /\ IF machine[s] = "Suspended" THEN Drive(s, "Unsuspend", 0, SeenAfter(due[s]))
                                 ELSE NoDrive(SeenAfter(due[s]))
  /\ LET c == IF s = 1 THEN Head(free) ELSE Head(buffer[Upstream(s)])
     IN  /\ step' = [Idle EXCEPT !.pc = "work", !.station = s, !.hand = c]
         /\ part' = IF s = 1 THEN [part EXCEPT ![c] = <<>>] ELSE part
  /\ free' = IF s = 1 THEN Tail(free) ELSE free
  /\ buffer' = IF s = 1 THEN buffer ELSE [buffer EXCEPT ![Upstream(s)] = Tail(@)]
  /\ moved' = MovedAt(due[s])

\* Mutant of Counted: the part that latches leaves the count where it is.
CountedPastTheLatch(s, out) == IF out THEN tolerance[s] + 1 ELSE 0

\* ForceTolerance.observe: out of band in a row; the part that completes a run resets it.
Counted(s, out) == IF out /\ tolerance[s] + 1 < Needed THEN tolerance[s] + 1 ELSE 0

\* A monitored press reads in or out of its band; the reading that completes a run raises an
\* alarm unless one is open.
Observe(s, out) ==
  /\ tolerance' = [tolerance EXCEPT ![s] = Counted(s, out)]
  /\ IF out /\ tolerance[s] + 1 >= Needed /\ ~alarm[s].on
       THEN \E delay \in Delays :
              alarm' = [alarm EXCEPT ![s] = [NoAlarm EXCEPT !.on = TRUE, !.shutdown = TRUE,
                                                            !.waiting = TRUE, !.due = delay]]
       ELSE UNCHANGED alarm

\* Mutant of Released: a rejected part takes its carrier off the line.
ReleasedUnlessRejected(c, rejected) == IF rejected THEN free ELSE Append(free, c)

Released(c, rejected) == Append(free, c)

\* run_cycle, and the part goes on to the buffer below or off the line.
Works ==
  LET s == step.station
      c == step.hand
  IN  /\ step.pc = "work"
      /\ IF s \in Monitored THEN \E out \in BOOLEAN : Observe(s, out)
                            ELSE UNCHANGED <<tolerance, alarm>>
      /\ IF s < N
           THEN /\ ~IsFull(Downstream(s))
                /\ buffer' = [buffer EXCEPT ![Downstream(s)] = Append(@, c)]
                /\ part' = [part EXCEPT ![c] = Append(@, s)]
                /\ moved' = moved \cup {c}
                /\ UNCHANGED free
           ELSE /\ \E rejected \in BOOLEAN : free' = Released(c, rejected)
                /\ part' = [part EXCEPT ![c] = <<>>]
                /\ UNCHANGED <<buffer, moved>>
      /\ step' = [Idle EXCEPT !.pc = SettlesWhen("work")]
      /\ UNCHANGED <<due, cleared, stationVars>>

------------------------------------------------------------------------------
\* AlarmSystem.settle, at the instant of the cycle.

ShutDown(s) ==
  /\ step.pc = "shutdowns" /\ alarm[s].shutdown
  /\ Drive(s, "Abort", alarm[s].raised, busy)
  /\ alarm' = [alarm EXCEPT ![s].shutdown = FALSE]
  /\ UNCHANGED <<lineVars, tolerance, cleared, step>>

\* Mutant of ShutdownsLeft: the operator is served first.
VisitsFirst == FALSE

ShutdownsLeft == \E s \in Monitored : alarm[s].shutdown

Visits == {s \in Monitored : alarm[s].waiting /\ alarm[s].due <= 0}

\* The visits this step makes are fixed here; the alarms' own order is not kept.
VisitsFixed ==
  /\ step.pc = "shutdowns" /\ ~ShutdownsLeft
  /\ step' = IF Visits = {} THEN Idle ELSE [step EXCEPT !.pc = "visits", !.visits = Visits]
  /\ UNCHANGED <<lineVars, stationVars, alarmVars>>

\* _intervene: acknowledged, then restarted.
Intervene(s) ==
  /\ step.pc = "visits" /\ s \in step.visits
  /\ alarm' = [alarm EXCEPT ![s].waiting = FALSE]
  /\ step' = [step EXCEPT !.pc = "restart", !.station = s, !.script = BringUp,
                          !.at = alarm[s].due, !.visits = @ \ {s}]
  /\ UNCHANGED <<lineVars, stationVars, tolerance, cleared>>

\* Running again: the alarm is cleared, and the operator may reset the station for nothing.
Clear ==
  /\ step.pc = "restart" /\ step.script = <<>>
  /\ alarm' = [alarm EXCEPT ![step.station] = NoAlarm]
  /\ cleared' = [cleared EXCEPT ![step.station] = step.at]
  /\ step' \in {[Idle EXCEPT !.pc = "visits", !.visits = step.visits],
                [step EXCEPT !.pc = "reset", !.script = ResetInPlace]}
  /\ UNCHANGED <<lineVars, stationVars, tolerance>>

ResetDone ==
  /\ step.pc = "reset" /\ step.script = <<>>
  /\ step' = [Idle EXCEPT !.pc = "visits", !.visits = step.visits]
  /\ UNCHANGED <<lineVars, stationVars, alarmVars>>

StepEnds ==
  /\ step.pc = "visits" /\ step.visits = {}
  /\ step' = Idle
  /\ UNCHANGED <<lineVars, stationVars, alarmVars>>

------------------------------------------------------------------------------
\* The other callers.

\* The acknowledge button: the operator is there at the panel's own instant. During catch-up
\* that lies before the line's; in the live backlog it lies after it, past the next cycles too.
\* Between fixing the visits, or ending one, and the next the driver awaits nothing.
Acknowledge(s) ==
  /\ step.pc # "visits" /\ alarm[s].waiting /\ alarm[s].presses < MaxPresses
  /\ \E now \in {-d : d \in Trails} \cup Leads :
       alarm' = [alarm EXCEPT ![s].due = now, ![s].presses = @ + 1]
  /\ UNCHANGED <<lineVars, stationVars, tolerance, cleared, step>>

\* hold and unhold, between two steps. Bound: on a station whose rows are not ahead of the line.
HoldOrUnhold(s) ==
  /\ step.pc = "idle" /\ busy[s] <= 0
  /\ \E command \in {"Hold", "Unhold"} : Drive(s, command, 0, busy)
  /\ UNCHANGED <<lineVars, alarmVars, step>>

Driver ==
  \/ DriveScript \/ BringUpNext
  \/ \E s \in Stations : Stays(s) \/ Suspends(s) \/ Takes(s)
  \/ Works
  \/ \E s \in Monitored : ShutDown(s) \/ Intervene(s)
  \/ VisitsFixed \/ Clear \/ ResetDone \/ StepEnds

Next ==
  \/ Driver
  \/ \E s \in Monitored : Acknowledge(s)
  \/ \E s \in Holdable : HoldOrUnhold(s)

Spec == Init /\ [][Next]_vars

\* The driver is one task of a running loop and sleeps only until the next cycle is due.
FairSpec == Spec /\ WF_vars(Driver)

------------------------------------------------------------------------------
\* Properties.

Places(c) ==
  Cardinality({i \in DOMAIN free : free[i] = c}) + (IF step.hand = c THEN 1 ELSE 0)
    + Cardinality({p \in Buffers \X (1 .. Count) :
                     p[2] \in DOMAIN buffer[p[1]] /\ buffer[p[1]][p[2]] = c})

\* The pool circulates: at every await every carrier is in exactly one place, the pool, one
\* buffer or the hand of the station at work (carriers.py:37-40: the pool never grows; a
\* carrier lost on the way would starve the head for good).
CarriersConserved == \A c \in Carriers : Places(c) = 1

\* What rides a carrier in buffer b is a part stations 1 .. b have worked, in line order and
\* once each, whatever the carrier carried before (Line._parts is keyed by carrier alone).
PartsWorkedInOrder ==
  /\ \A b \in Buffers : \A i \in DOMAIN buffer[b] :
       part[buffer[b][i]] = [s \in 1 .. b |-> s]
  /\ step.pc = "work" => part[step.hand] = [s \in 1 .. step.station - 1 |-> s]

\* No part crosses two stations in one instant (line.py:194-199), whatever the takts and
\* however many cycles fall due together.
OneStationPerInstant == step.pc = "work" => step.hand \notin moved

\* The driver never runs into one of the exceptions that would end it: no command is refused
\* (in particular, an operator restarts only a station that is already Aborted, however early
\* the button was pressed), and no buffer is put beyond its capacity.
NothingRaises ==
  /\ step.script # <<>> => machine[step.station] \in Accepts[Head(step.script)]
  /\ step.pc = "work" /\ step.station < N => ~IsFull(Downstream(step.station))

\* Every state is put at least one transition after the station's last (line.py:370-377), and a
\* shutdown, a restart and a reset put six one after another: however these nudges meet, they
\* do not add up. The states a station has published lie at most five ticks past its next
\* cycle, a restart and a reset from an instant the line has reached.
PublishedNearTheLine == \A s \in Stations : busy[s] - due[s] <= 5

\* A station's alarm is cleared, on the simulated timeline, before the next one is raised
\* (test_alarms.py:247-249).
ClearedBeforeRaisedAgain == \A s \in Monitored : alarm[s].on => cleared[s] <= alarm[s].raised

\* Every alarm is acknowledged, its station restarted and the alarm cleared in the end, even
\* when no station has anything to do (alarms.py:227-230).
AlarmsAreWorked == \A s \in Monitored : alarm[s].on ~> ~alarm[s].on

\* An alarm is acknowledged no earlier than it was raised (test_alarms.py:220). Not so when the
\* button is pressed during catch-up: hmi.py stamps it with clock.now(), and production is
\* ahead of the clock until catch-up ends.
AcknowledgedAfterItIsRaised ==
  \A s \in Monitored : alarm[s].on /\ ~alarm[s].waiting => alarm[s].due >= alarm[s].raised
=============================================================================
