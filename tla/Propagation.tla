---------------------------- MODULE Propagation ----------------------------
(***************************************************************************)
(* The derivation of a stop's chain of causes, as pure operators           *)
(* (analysis/propagation.py).                                              *)
(*                                                                         *)
(* An episode is [station, state, from, to, reason, buffer]: to is Open    *)
(* while it lasts, reason is [direction, detail] as the plant recorded it  *)
(* and buffer the buffer of this line it was resolved to, or None.  A      *)
(* sample is [buffer, at, level]; a link of the topology [buffer, up,      *)
(* down, capacity].                                                        *)
(***************************************************************************)
EXTENDS Integers, FiniteSets, Sequences, SequencesExt

None == "none"
Open == 1000000            \* later than every instant
Unknown == -1000000        \* no instant
NoReason == [direction |-> None, detail |-> None]

CONSEQUENCE_STATE == "Suspended"
CAUSE_CANDIDATE_STATES == {"Held", "Aborted"}
EXECUTE_STATE == "Execute"
CARRIER_RETURN == "carrier-return"

EpisodeKind(e) == CASE e.state = CONSEQUENCE_STATE -> "consequence"
                    [] e.state \in CAUSE_CANDIDATE_STATES -> "cause_candidate"
                    [] OTHER -> "other"
Covers(e, moment) == e.from <= moment /\ moment < e.to
Overlaps(e, from, to) == e.from <= to /\ e.to > from

-----------------------------------------------------------------------------
(* The topology: a set of links, one per buffer.                             *)

Stations(topology) == {l.up : l \in topology} \cup {l.down : l \in topology}
UpstreamBuffersOf(topology, s) == {l \in topology : l.down = s}
DownstreamBuffersOf(topology, s) == {l \in topology : l.up = s}
Sole(S) == IF Cardinality(S) = 1 THEN CHOOSE s \in S : TRUE ELSE None
HeadOf(topology) == Sole({s \in Stations(topology) : UpstreamBuffersOf(topology, s) = {}})
TailOf(topology) == Sole({s \in Stations(topology) : DownstreamBuffersOf(topology, s) = {}})

\* The carriers come back from the tail to the head: a set of one link, or of none for a
\* topology with no single head and tail.
CarrierLoop(topology) ==
  LET head == HeadOf(topology)  tail == TailOf(topology) IN
  IF None \in {head, tail} \/ head = tail THEN {}
  ELSE {[buffer |-> CARRIER_RETURN, up |-> tail, down |-> head, capacity |-> 0]}

\* The links the chain may follow out of a consequence: one, or none.
ConnectingLinks(topology, e) ==
  IF e.buffer # None THEN {l \in topology : l.buffer = e.buffer}
  ELSE IF e.reason = [direction |-> "starved", detail |-> CARRIER_RETURN] THEN CarrierLoop(topology)
  ELSE {}

-----------------------------------------------------------------------------
(* What a step of the walk looks up.  Instants and sets of none or one.      *)

\* The members of a finite set one after the other, what began first first.
InOrder(S) == CHOOSE s \in [1 .. Cardinality(S) -> S] :
                IsInjective(s) /\ \A i, j \in DOMAIN s : i < j => s[i].from <= s[j].from

Latest(episodes) == {e \in episodes : \A f \in episodes : f.from <= e.from}

EpisodeCovering(timeline, station, moment) ==
  Latest({e \in timeline : e.station = station /\ Covers(e, moment)})

Satisfies(sample, link, direction) ==
  IF direction = "starved" THEN sample.level <= 0 ELSE sample.level >= link.capacity

\* Where the last run of samples that satisfy the condition began.
LastRun(samples, link, direction) ==
  LET good == {s.at : s \in {x \in samples : Satisfies(x, link, direction)}}
      bad == {s.at : s \in samples} \ good
  IN {at \in good : /\ \A n \in good : n > at => ~\E b \in bad : at < b /\ b < n
                    /\ \A n \in good : n < at => \E b \in bad : n < b /\ b < at}

\* Mutant of ConditionSince: samples later than the consequence would do as well.
ConditionSinceEver(samples, link, direction, before, leadIn) ==
  LastRun({s \in samples : s.buffer = link.buffer /\ before - leadIn <= s.at}, link, direction)

\* Since when the buffer is recorded at the condition, within the horizon.
ConditionSince(samples, link, direction, before, leadIn) ==
  LastRun({s \in samples : s.buffer = link.buffer /\ before - leadIn <= s.at /\ s.at <= before},
          link, direction)

\* The episode that accounts for a condition, and the other candidates of its station.
Overlapping(timeline, station, since, leadIn) ==
  {e \in timeline : e.station = station /\ e.state # EXECUTE_STATE /\ Overlaps(e, since - leadIn, since)}

ExplainingEpisode(timeline, station, since, leadIn) ==
  LET all == Overlapping(timeline, station, since, leadIn)
      covering == {e \in all : Covers(e, since)}
  IN Latest(IF covering # {} THEN covering ELSE all)

-----------------------------------------------------------------------------
(* The walk.  Its state is the chain so far, the episodes met that may be a  *)
(* cause, the steps taken, where it is, and how it ended: "walking",         *)
(* "cause_candidate", "line_edge" or "unexplained".                          *)

ChainLink(e, buffer, since) == [episode |-> e, buffer |-> buffer, since |-> since]

Ends(walk, link, termination, candidates) ==
  [walk EXCEPT !.links = @ \o link, !.termination = termination, !.candidates = @ \o candidates]
DeadEnd(walk, link, candidates) == Ends(walk, link, "unexplained", candidates)

\* At the head a starvation, and at the tail a blockage, is the answer, unless it is the
\* carriers that are missing.
OutsideTheLine(walk, e, topology) ==
  LET link == <<ChainLink(e, None, Unknown)>>
      carriers == e.reason = [direction |-> "starved", detail |-> CARRIER_RETURN]
      head == e.reason.direction = "starved" /\ UpstreamBuffersOf(topology, e.station) = {}
      tail == e.reason.direction = "blocked" /\ DownstreamBuffersOf(topology, e.station) = {}
  IN IF ~carriers /\ (head \/ tail) THEN Ends(walk, link, "line_edge", <<>>)
     ELSE DeadEnd(walk, link, <<>>)

\* Out of a consequence along the link its reason names.
Follow(walk, e, link, timeline, samples, leadIn) ==
  LET direction == e.reason.direction
      next == IF direction = "starved" THEN link.up ELSE link.down
      since == IF link.buffer = CARRIER_RETURN THEN {e.from}
               ELSE ConditionSince(samples, link, direction, e.from, leadIn)
  IN IF next = e.station \/ since = {} THEN DeadEnd(walk, <<ChainLink(e, link.buffer, Unknown)>>, <<>>)
     ELSE LET at == CHOOSE x \in since : TRUE
              explaining == ExplainingEpisode(timeline, next, at, leadIn)
              extra == InOrder({c \in Overlapping(timeline, next, at, leadIn) \ explaining :
                                  EpisodeKind(c) = "cause_candidate"})
              step == <<ChainLink(e, link.buffer, at)>>
          IN IF explaining = {} THEN DeadEnd(walk, step, extra)
             ELSE [Ends(walk, step, "walking", extra) EXCEPT !.current = CHOOSE x \in explaining : TRUE]

\* What an episode that has not been met before says.
Visit(walk, e, timeline, samples, topology, leadIn) ==
  LET links == ConnectingLinks(topology, e)
      link == <<ChainLink(e, None, Unknown)>>
  IN CASE EpisodeKind(e) = "cause_candidate" -> Ends(walk, link, "cause_candidate", <<e>>)
       [] EpisodeKind(e) = "other" -> DeadEnd(walk, link, <<>>)
       [] EpisodeKind(e) = "consequence" ->
            IF links = {} \/ e.reason.direction = None THEN OutsideTheLine(walk, e, topology)
            ELSE Follow(walk, e, CHOOSE l \in links : TRUE, timeline, samples, leadIn)

Step(walk, timeline, samples, topology, leadIn) ==
  LET e == walk.current
      met == <<e.station, e.from>>
  IN IF walk.termination # "walking" THEN walk
     ELSE IF met \in walk.seen THEN DeadEnd(walk, <<>>, <<>>)
     ELSE Visit([walk EXCEPT !.seen = @ \cup {met}], e, timeline, samples, topology, leadIn)

\* The walk from what the station was doing at that moment; every step of it uses another
\* episode, so it is over after as many as there are.
DeriveChain(station, moment, timeline, samples, topology, leadIn) ==
  LET seed == EpisodeCovering(timeline, station, moment)
      start == [links |-> <<>>, candidates |-> <<>>, seen |-> {}, termination |-> "walking",
                current |-> CHOOSE e \in seed : TRUE]
      walk[n \in 0 .. Cardinality(timeline) + 1] ==
        IF n = 0 THEN start ELSE Step(walk[n - 1], timeline, samples, topology, leadIn)
      done == walk[Cardinality(timeline) + 1]
  IN IF seed = {} THEN [links |-> <<>>, candidates |-> <<>>, termination |-> "unexplained"]
     ELSE [links |-> done.links, candidates |-> done.candidates, termination |-> done.termination]

\* A chain that could not be completed has no category; two causes are one too many; and at
\* an edge of the line the direction says which end.
CategoryOf(d) ==
  LET last == d.links[Len(d.links)].episode.reason.direction IN
  IF d.termination = "unexplained" \/ d.links = <<>> THEN None
  ELSE IF Len(d.candidates) > 1 THEN "ambiguous"
  ELSE IF d.termination = "cause_candidate" THEN "internal"
  ELSE CASE last = "starved" -> "external_upstream"
         [] last = "blocked" -> "external_downstream"
         [] OTHER -> None
=============================================================================
