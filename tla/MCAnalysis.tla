----------------------------- MODULE MCAnalysis -----------------------------
(* The instance of Analysis that TLC checks: the plant's four stations, and   *)
(* one scenario for each kind of question.                                    *)
EXTENDS Analysis

MCTopology == {[buffer |-> "B12", up |-> "S1", down |-> "S2", capacity |-> 2],
               [buffer |-> "B23", up |-> "S2", down |-> "S3", capacity |-> 2],
               [buffer |-> "B34", up |-> "S3", down |-> "S4", capacity |-> 2]}
Nothing == [parts |-> <<>>, components |-> {}, gaps |-> {}, topology |-> MCTopology, changes |-> {},
            levels |-> {}, signals |-> {}, alarms |-> {}, stations |-> {"S1", "S2", "S3", "S4"}]

Row(created, carrier, components, force, inspected, left) ==
  [created |-> created, carrier |-> carrier, components |-> components, force |-> force,
   inspected |-> inspected, left |-> left]
Out(t) == Row(t - 1, "c1", {}, "in", {}, {[at |-> t, disposition |-> "ship"]})
Seen(t, result, carrier, classes) == {[at |-> t, result |-> result, carrier |-> carrier, classes |-> classes]}

-----------------------------------------------------------------------------
(* A line that stops and starts again, one of its outputs arriving late, and  *)
(* outages that overlap.                                                      *)

Gap(from, to) == [from |-> from, to |-> to]
Stopping ==
  [db |-> [Nothing EXCEPT
             !.parts = <<Out(2), Out(3), Out(5), Out(9), Out(11)>>,
             !.gaps = {Gap(1, 4), Gap(3, 6), Gap(8, 9)},
             !.alarms = {[id |-> 1, station |-> "S1", raised |-> 4, acked |-> 5, cleared |-> 7],
                         [id |-> 2, station |-> "S3", raised |-> 9, acked |-> Open, cleared |-> Open]},
             !.signals = {[station |-> "S1", signal |-> "force", at |-> t, value |-> t] : t \in {2, 3, 5}}],
   late |-> {<<"left", 3>>, <<"left", 4>>, <<"gap", 3, 6>>},
   clock |-> 11 .. 15,
   windows |-> {Window(0, 3), Window(2, 7), Window(4, 12), Window(6, 14), Window(9, 9)},
   criteria |-> {}]

-----------------------------------------------------------------------------
(* Every way each station may have been found when the last one ran dry.      *)

Change(station, at, state, direction, detail, buffer) ==
  [station |-> station, at |-> at, state |-> state, reason |-> [direction |-> direction, detail |-> detail],
   buffer |-> buffer]
Starved(s, at, b) == Change(s, at, "Suspended", "starved", b, b)
Blocked(s, at, b) == Change(s, at, "Suspended", "blocked", b, b)
Stands(s, at, state) == Change(s, at, state, None, None, None)
Level(b, at, level) == [buffer |-> b, at |-> at, level |-> level]

Tails == {Starved("S4", 6, "B34"), Change("S4", 6, "Suspended", "blocked", "exit", None)}
Thirds == {Starved("S3", 5, "B23"), Stands("S3", 5, "Held"), Stands("S3", 2, "Execute"), Blocked("S3", 5, "B34")}
Seconds == {Starved("S2", 4, "B12"), Stands("S2", 4, "Aborted"), Blocked("S2", 4, "B23")}
Firsts == {Change("S1", 3, "Suspended", "starved", CARRIER_RETURN, None), Stands("S1", 3, "Held"),
           Change("S1", 3, "Suspended", "starved", "supply", None)}
Levels == {{Level("B34", 5, 0), Level("B23", 4, 0), Level("B12", 3, 0)},
           {Level("B34", 4, 0), Level("B34", 5, 0), Level("B34", 6, 2), Level("B34", 7, 0), Level("B23", 5, 0),
            Level("B12", 4, 2), Level("B12", 5, 0)}}

Chained ==
  {[db |-> [Nothing EXCEPT
              !.parts = <<Out(5)>>,
              !.changes = {Stands(s, 1, "Execute") : s \in Nothing.stations} \cup {Stands("S3", 4, "Held")} \cup c,
              !.levels = l],
    late |-> {<<"state", "S3", 4>>, <<"reason", "S4", 6>>},
    clock |-> {9},
    windows |-> {Window(3, 9)},
    criteria |-> {}] : c \in {{d[1], d[2], d[3], d[4]} : d \in Tails \X Thirds \X Seconds \X Firsts}, l \in Levels}

-----------------------------------------------------------------------------
(* Parts of two lots and two carriers, some of them half known.               *)

Component(serial, lot) == [serial |-> serial, lot |-> lot, lane |-> lot, at |-> 1]
Contained ==
  [db |-> [Nothing EXCEPT
             !.parts = <<Row(2, "c1", {"k1", "k2"}, "out", Seen(4, "reject", "c1", {"scratch"}),
                             {[at |-> 5, disposition |-> "reject"]}),
                         Row(3, "c2", {"k3"}, "in", Seen(5, "pass", "c2", {}), {[at |-> 6, disposition |-> "ship"]}),
                         Row(Unknown, None, {}, "in", Seen(6, "reject", "c1", {"scratch"}), {}),
                         Row(5, "c1", {"k4"}, None, {}, {})>>,
             !.components = {Component("k1", "L1"), Component("k2", "L2"), Component("k3", "L1"),
                             Component("k4", "L2")}],
   late |-> {<<"created", 1>>, <<"inspected", 2>>, <<"left", 2>>, <<"component", "k3">>},
   clock |-> {8},
   windows |-> {Window(2, 4), Window(4, 6)},
   criteria |-> {[Anything EXCEPT !.carrier = c, !.lot = l, !.class = d, !.force = f] :
                   c \in {None, "c1"}, l \in {None, "L1"}, d \in {None, "scratch"}, f \in {None, "out"}}]

(* Verdicts that lean on a carrier, a lot and a class.                        *)

Judged ==
  [db |-> [Nothing EXCEPT
             !.parts = [p \in 1 .. 7 |->
                Row(p - 1, IF p % 2 = 0 THEN "c1" ELSE "c2",
                    IF p = 7 THEN {} ELSE IF p <= 3 THEN {"k1"} ELSE {"k2"}, "in",
                    Seen(p, IF p % 2 = 0 \/ p = 7 THEN "reject" ELSE "pass",
                         IF p = 7 THEN None ELSE IF p % 2 = 0 THEN "c1" ELSE "c2",
                         IF p \in {2, 4} THEN {"scratch"} ELSE IF p = 5 THEN Classes ELSE {}),
                    {})],
             !.components = {Component("k1", "L1"), Component("k2", "L2")}],
   late |-> {<<"inspected", 4>>, <<"inspected", 5>>, <<"component", "k2">>},
   clock |-> {9},
   windows |-> {Window(1, 8), Window(2, 7), Window(1, 5)},
   criteria |-> {}]

(* The days round the two changes of the clocks.                              *)

Dated == {[db |-> Nothing, late |-> {}, clock |-> c, windows |-> {}, criteria |-> {}] :
            c \in {(Spring - 50) .. (Spring + 50), (Autumn - 50) .. (Autumn + 50)}}

MCScenarios == {Stopping, Contained, Judged} \cup Chained \cup Dated
MCAlpha == [num |-> 1, den |-> 3]
=============================================================================
