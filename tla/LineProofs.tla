----------------------------- MODULE LineProofs -----------------------------
(***************************************************************************)
(* What holds of Line for every number of stations, carriers and places in *)
(* a buffer, every takt and every habit of the operator.                   *)
(***************************************************************************)
EXTENDS Line, FiniteSetTheorems, SequenceTheorems, TLAPS

-----------------------------------------------------------------------------
(* Types, without the bounds of a run.                                       *)

Pcs == {"bringup", "idle", "work", "shutdowns", "visits", "restart", "reset"}
Alarms == [on : BOOLEAN, shutdown : BOOLEAN, waiting : BOOLEAN, raised : Int, due : Int,
           presses : 0 .. MaxPresses]

LineTyped ==
  /\ free \in Seq(Carriers) /\ buffer \in [Buffers -> Seq(Carriers)]
  /\ part \in [Carriers -> Seq(Stations)]
  /\ machine \in [Stations -> Waiting]
  /\ due \in [Stations -> Nat] /\ busy \in [Stations -> Int]
  /\ tolerance \in [Monitored -> 0 .. Needed - 1]
  /\ alarm \in [Monitored -> Alarms] /\ cleared \in [Monitored -> Int]
  /\ step \in [pc : Pcs, station : Stations, hand : Carriers \cup {NoCarrier},
               script : Seq(Commands), at : Int, visits : SUBSET Monitored]
  /\ moved \subseteq Carriers

-----------------------------------------------------------------------------
(* Carriers and the parts on them.                                           *)

Once(s) == \A i, j \in DOMAIN s : s[i] = s[j] => i = j

\* Every carrier is in the pool, in one buffer or in the hand, in one place there.
CarriersInv ==
  /\ Once(free) /\ \A b \in Buffers : Once(buffer[b])
  /\ \A b \in Buffers : Range(free) \cap Range(buffer[b]) = {}
  /\ \A b, d \in Buffers : b # d => Range(buffer[b]) \cap Range(buffer[d]) = {}
  /\ step.hand \notin Range(free) /\ \A b \in Buffers : step.hand \notin Range(buffer[b])
  /\ \A c \in Carriers : \/ c = step.hand \/ c \in Range(free)
                         \/ \E b \in Buffers : c \in Range(buffer[b])
  /\ step.pc = "work" <=> step.hand # NoCarrier

\* The stations 1 .. n, in line order.
Through(n) == [s \in 1 .. n |-> s]

PartsInv ==
  /\ \A b \in Buffers : \A c \in Range(buffer[b]) : part[c] = Through(b)
  /\ step.pc = "work" => part[step.hand] = Through(step.station - 1)

\* What was put into a buffer at this instant is still there, and no station below the buffer
\* is due before time passes.
MovedInv ==
  /\ \A c \in moved : \E b \in Buffers :
       c \in Range(buffer[b]) /\ \A t \in Stations : t > b => due[t] > 0
  /\ step.pc = "work" => \A t \in Stations : t >= step.station => due[t] > 0

\* There is room below a station at work.
RoomInv == step.pc = "work" /\ step.station < N => Len(buffer[step.station]) < Capacity

-----------------------------------------------------------------------------
(* Commands.                                                                 *)

\* What is left of a run of commands, and the state it finds the machine in.
Fits(script, state) ==
  \/ script = BringUp /\ state = "Aborted"
  \/ script = <<"Reset", "Start">> /\ state = "Stopped"
  \/ script = <<"Start">> /\ state = "Idle"
  \/ script = <<>> /\ state = "Execute"
  \/ script = ResetInPlace /\ state = "Execute"

Scripted == step.pc \in {"bringup", "restart", "reset"}

ScriptInv ==
  /\ IF Scripted THEN Fits(step.script, machine[step.station]) ELSE step.script = <<>>
  /\ step.pc = "bringup" =>
       /\ \A t \in Stations : t > step.station => machine[t] = "Aborted"
       /\ \A m \in Monitored : alarm[m] = NoAlarm
  /\ step.pc \in {"restart", "reset"} =>
       step.station \in Monitored /\ ~alarm[step.station].waiting

VisitsInv ==
  /\ step.visits # {} => step.pc \in {"visits", "restart", "reset"}
  /\ \A m \in step.visits : alarm[m].waiting /\ ~alarm[m].shutdown

\* A station whose alarm waits for the operator stays down until he restarts it.
AlarmInv(m) ==
  /\ ~alarm[m].on => alarm[m] = NoAlarm
  /\ alarm[m].waiting /\ ~alarm[m].shutdown => machine[m] = "Aborted"
  /\ alarm[m].shutdown => alarm[m].waiting /\ step.pc = "shutdowns"
  /\ alarm[m].on /\ ~alarm[m].waiting => step.pc = "restart" /\ step.station = m

DrivenInv == ScriptInv /\ VisitsInv /\ \A m \in Monitored : AlarmInv(m)

-----------------------------------------------------------------------------
(* Instants.                                                                 *)

Left == Len(step.script)

\* How far a station's published states run ahead of its next cycle.
Ahead(s) == busy[s] - due[s]

StationInstants(s) ==
  /\ Ahead(s) <= 5
  /\ step.pc = "bringup" =>
       /\ due[s] = 0
       /\ s = step.station => Ahead(s) <= 2 - Left /\ step.at <= due[s] + 3 - Left
       /\ s > step.station => Ahead(s) <= -1
  /\ step.pc = "restart" /\ s = step.station =>
       Ahead(s) <= 2 - Left /\ step.at <= due[s] + 3 - Left
  /\ step.pc = "reset" /\ s = step.station =>
       Ahead(s) <= 5 - Left /\ step.at <= due[s] + 6 - Left

\* A monitored station whose readings are in its band and no alarm is open.
Resting(m) ==
  ~alarm[m].on /\ tolerance[m] = 0 =>
    /\ cleared[m] - due[m] <= 3
    /\ machine[m] = "Suspended" => Ahead(m) <= 4

\* Out of band once or more: the last alarm was cleared before that reading was taken.
Counting(m) == tolerance[m] > 0 => ~alarm[m].on /\ Ahead(m) <= 1 /\ cleared[m] <= due[m]

Raised(m) ==
  /\ alarm[m].on => cleared[m] <= alarm[m].raised /\ alarm[m].raised <= 0
  /\ alarm[m].shutdown => Ahead(m) <= -2 /\ due[m] > 0
  /\ alarm[m].waiting /\ ~alarm[m].shutdown => Ahead(m) <= -1
  /\ m \in step.visits => alarm[m].due <= due[m]

Working(m) ==
  step.pc = "work" /\ m = step.station =>
    /\ due[m] > Len(BringUp) /\ ~alarm[m].on /\ Ahead(m) <= 1 /\ cleared[m] <= 3
    /\ tolerance[m] > 0 => Ahead(m) <= -2 /\ cleared[m] <= 0

Recovering(m) ==
  /\ step.pc = "bringup" => tolerance[m] = 0
  /\ step.pc = "restart" /\ m = step.station => alarm[m].on
  /\ step.pc = "reset" /\ m = step.station => tolerance[m] = 0

AlarmInstants(m) == Resting(m) /\ Counting(m) /\ Raised(m) /\ Working(m) /\ Recovering(m)

\* One station has a press with a force tolerance (s2_joining.py:128 is the only caller). With a
\* second, the button may put the visit to it ahead of the line while the operator is at the
\* first, in the live backlog.
OnePress == \A m, n \in Monitored : m = n

InstantsInv ==
  /\ \A s \in Stations : StationInstants(s)
  /\ \A m \in Monitored : AlarmInstants(m)

-----------------------------------------------------------------------------
(* Sequences, and one command.                                               *)

LEMMA HeadIsTaken ==
  ASSUME NEW S, NEW q \in Seq(S), q # <<>>, Once(q)
  PROVE  /\ Head(q) \in S /\ Tail(q) \in Seq(S) /\ Once(Tail(q))
         /\ Range(q) = {Head(q)} \cup Range(Tail(q)) /\ Head(q) \notin Range(Tail(q))
<1>1. /\ Head(q) \in S /\ Tail(q) \in Seq(S) /\ Len(q) \in Nat \ {0} /\ Len(Tail(q)) = Len(q) - 1
      /\ Head(q) = q[1] /\ \A i \in 1 .. Len(Tail(q)) : Tail(q)[i] = q[i + 1]
      /\ DOMAIN q = 1 .. Len(q) /\ DOMAIN Tail(q) = 1 .. Len(Tail(q))
  BY HeadTailProperties, LenProperties, EmptySeq
<1>2. Once(Tail(q))  BY <1>1 DEF Once
<1>3. Head(q) \notin Range(Tail(q))  BY <1>1 DEF Once, Range
<1>4. ASSUME NEW c \in Range(q) PROVE c \in {Head(q)} \cup Range(Tail(q))
  <2>1. PICK i \in 1 .. Len(q) : q[i] = c  BY <1>1 DEF Range
  <2>2. CASE i = 1  BY <2>1, <2>2, <1>1
  <2>3. CASE i # 1
    <3>1. i - 1 \in 1 .. Len(Tail(q)) /\ Tail(q)[i - 1] = c  BY <2>1, <2>3, <1>1
    <3> QED BY <3>1, <1>1 DEF Range
  <2> QED BY <2>2, <2>3
<1>5. Head(q) \in Range(q)  BY <1>1 DEF Range
<1>6. \A c \in Range(Tail(q)) : c \in Range(q)  BY <1>1 DEF Range
<1> QED BY <1>1, <1>2, <1>3, <1>4, <1>5, <1>6

LEMMA LastIsPut ==
  ASSUME NEW S, NEW q \in Seq(S), NEW e \in S, Once(q), e \notin Range(q)
  PROVE  /\ Append(q, e) \in Seq(S) /\ Once(Append(q, e))
         /\ Range(Append(q, e)) = Range(q) \cup {e}
<1>1. /\ Append(q, e) \in Seq(S) /\ Len(Append(q, e)) = Len(q) + 1 /\ Len(q) \in Nat
      /\ DOMAIN q = 1 .. Len(q) /\ DOMAIN Append(q, e) = 1 .. (Len(q) + 1)
      /\ \A i \in 1 .. Len(q) : Append(q, e)[i] = q[i]
      /\ Append(q, e)[Len(q) + 1] = e
  BY AppendProperties, LenProperties
<1>2. Once(Append(q, e))
  <2> SUFFICES ASSUME NEW i \in 1 .. (Len(q) + 1), NEW j \in 1 .. (Len(q) + 1),
                      Append(q, e)[i] = Append(q, e)[j]
               PROVE  i = j
    BY <1>1 DEF Once
  <2>1. CASE i \in 1 .. Len(q) /\ j \in 1 .. Len(q)  BY <2>1, <1>1 DEF Once
  <2>2. CASE i = Len(q) + 1 /\ j \in 1 .. Len(q)  BY <2>2, <1>1 DEF Range
  <2>3. CASE j = Len(q) + 1 /\ i \in 1 .. Len(q)  BY <2>3, <1>1 DEF Range
  <2>4. CASE i = Len(q) + 1 /\ j = Len(q) + 1  BY <2>4
  <2> QED BY <2>1, <2>2, <2>3, <2>4, <1>1
<1>3. \A c \in Range(Append(q, e)) : c \in Range(q) \cup {e}
  <2> SUFFICES ASSUME NEW i \in 1 .. (Len(q) + 1) PROVE Append(q, e)[i] \in Range(q) \cup {e}
    BY <1>1 DEF Range
  <2>1. CASE i \in 1 .. Len(q)  BY <2>1, <1>1 DEF Range
  <2>2. CASE i = Len(q) + 1  BY <2>2, <1>1
  <2> QED BY <2>1, <2>2, <1>1
<1>4. \A c \in Range(q) \cup {e} : c \in Range(Append(q, e))
  <2>1. e \in Range(Append(q, e))
    <3>1. Len(q) + 1 \in DOMAIN Append(q, e)  BY <1>1
    <3> QED BY <3>1, <1>1 DEF Range
  <2>2. \A c \in Range(q) : c \in Range(Append(q, e))
    <3> SUFFICES ASSUME NEW i \in 1 .. Len(q) PROVE q[i] \in Range(Append(q, e))
      BY <1>1 DEF Range
    <3>1. i \in DOMAIN Append(q, e)  BY <1>1
    <3> QED BY <3>1, <1>1 DEF Range
  <2> QED BY <2>1, <2>2
<1> QED BY <1>1, <1>2, <1>3, <1>4

LEMMA WaitingAfterACommand ==
  /\ \A command \in Commands : Reaches(command) \in Waiting
  /\ BringUp \in Seq(Commands) /\ ResetInPlace \in Seq(Commands) /\ <<>> \in Seq(Commands)
  /\ Len(BringUp) = 3
BY DEF Commands, Enters, Reaches, SettlesTo, Waiting, BringUp, ResetInPlace

LEMMA Published ==
  ASSUME NEW last \in Int, NEW at \in Int
  PROVE  /\ PublishedAt(last, at) \in Int /\ PublishedAt(last, at) > last
         /\ PublishedAt(last, at) >= at
         /\ \A n \in Int : last < n /\ at <= n => PublishedAt(last, at) <= n
BY DEF PublishedAt

\* A command moves one machine and one published instant, past every earlier one.
LEMMA DriveOK ==
  ASSUME LineTyped, NEW s \in Stations, NEW command, NEW at \in Int,
         NEW seen \in [Stations -> Int], Drive(s, command, at, seen)
  PROVE  /\ command \in Commands /\ machine[s] \in Accepts[command]
         /\ machine' \in [Stations -> Waiting] /\ machine'[s] = Reaches(command)
         /\ \A t \in Stations \ {s} : machine'[t] = machine[t]
         /\ busy' \in [Stations -> Int] /\ busy'[s] = PublishedAt(seen[s], at)
         /\ \A t \in Stations \ {s} : busy'[t] = seen[t]
<1>1. PublishedAt(seen[s], at) \in Int
  BY Published
<1>2. Reaches(command) \in Waiting  BY WaitingAfterACommand DEF Drive
<1> QED BY <1>1, <1>2 DEF Drive, LineTyped

LEMMA NoDriveOK ==
  ASSUME LineTyped, NEW seen \in [Stations -> Int], NoDrive(seen)
  PROVE  machine' = machine /\ busy' = seen
BY DEF NoDrive, LineTyped

\* Time moves on to the earliest cycle; of coinciding ones the furthest down the line.
LEMMA PopOK ==
  ASSUME LineTyped, NEW s \in Stations, Pop(s)
  PROVE  /\ step.pc = "idle" /\ tolerance' = tolerance
         /\ \A t \in Stations \ {s} : due[s] <= due[t] /\ (t > s => due[s] < due[t])
         /\ due' \in [Stations -> Nat] /\ due'[s] > Len(BringUp) /\ due'[s] \in Takts
         /\ \A t \in Stations \ {s} : due'[t] = due[t] - due[s]
         /\ alarm' \in [Monitored -> Alarms] /\ cleared' \in [Monitored -> Int]
         /\ \A m \in Monitored :
              /\ alarm'[m].on = alarm[m].on /\ alarm'[m].shutdown = alarm[m].shutdown
              /\ alarm'[m].waiting = alarm[m].waiting /\ alarm'[m].presses = alarm[m].presses
              /\ ~alarm[m].on => alarm'[m] = alarm[m]
              /\ alarm[m].on => alarm'[m].raised = Older(alarm[m].raised, due[s], -Horizon)
              /\ alarm[m].on => alarm'[m].due = Older(alarm[m].due, due[s], -Horizon)
              /\ cleared'[m] = Older(cleared[m], due[s], Floor(m))
         /\ SeenAfter(due[s]) \in [Stations -> Int]
         /\ \A t \in Stations : SeenAfter(due[s])[t] = Older(busy[t], due[s], Floor(t))
<1> USE DEF LineTyped
<1>1. \A t \in Stations \ {s} : due[s] <= due[t] /\ (t > s => due[s] < due[t])
  <2> SUFFICES ASSUME NEW t \in Stations \ {s}
               PROVE  due[s] <= due[t] /\ (t > s => due[s] < due[t])
    OBVIOUS
  <2>1. Earlier(s, t)  BY DEF Pop
  <2>2. s \in Int /\ t \in Int /\ due[s] \in Nat /\ due[t] \in Nat  BY LineAssumption DEF Stations
  <2> QED BY <2>1, <2>2 DEF Earlier
<1>2. PICK takt \in Takts : due' = [t \in Stations |-> IF t = s THEN takt ELSE due[t] - due[s]]
  BY DEF Pop
<1>3. takt \in Nat /\ Len(BringUp) < takt  BY LineAssumption
<1>4. due' \in [Stations -> Nat]
  <2>1. \A t \in Stations \ {s} : due[t] - due[s] \in Nat  BY <1>1
  <2> QED BY <1>2, <1>3, <2>1
<1>5. Horizon \in Nat /\ \A t \in Stations : Floor(t) \in Int  BY LineAssumption DEF Floor
<1>6. \A x \in Int, f \in Int : Older(x, due[s], f) \in Int  BY DEF Older
<1>7. SeenAfter(due[s]) \in [Stations -> Int]  BY <1>5, <1>6 DEF SeenAfter
<1>8. Monitored \subseteq Stations  BY LineAssumption
<1>9. cleared' \in [Monitored -> Int]  BY <1>5, <1>6, <1>8 DEF Pop
<1>10. -Horizon \in Int  BY <1>5
<1>11. ASSUME NEW m \in Monitored
       PROVE  /\ alarm'[m] \in Alarms
              /\ alarm'[m].on = alarm[m].on /\ alarm'[m].shutdown = alarm[m].shutdown
              /\ alarm'[m].waiting = alarm[m].waiting /\ alarm'[m].presses = alarm[m].presses
              /\ ~alarm[m].on => alarm'[m] = alarm[m]
              /\ alarm[m].on => alarm'[m].raised = Older(alarm[m].raised, due[s], -Horizon)
              /\ alarm[m].on => alarm'[m].due = Older(alarm[m].due, due[s], -Horizon)
  <2>1. alarm'[m] = IF alarm[m].on
                      THEN [alarm[m] EXCEPT !.raised = Older(@, due[s], -Horizon),
                                            !.due = Older(@, due[s], -Horizon)]
                      ELSE alarm[m]
    BY DEF Pop
  <2>2. alarm[m] \in Alarms  OBVIOUS
  <2>3. alarm[m].raised \in Int /\ alarm[m].due \in Int  BY <2>2 DEF Alarms
  <2>4. Older(alarm[m].raised, due[s], -Horizon) \in Int /\ Older(alarm[m].due, due[s], -Horizon) \in Int
    BY <2>3, <1>6, <1>10
  <2> HIDE DEF LineTyped
  <2> QED BY <2>1, <2>2, <2>4 DEF Alarms
<1>12. alarm' = [m \in Monitored |-> alarm'[m]]  BY DEF Pop
<1>13. alarm' \in [Monitored -> Alarms]
  <2> HIDE DEF LineTyped
  <2> QED BY <1>11, <1>12
<1>14. step.pc = "idle" /\ tolerance' = tolerance  BY DEF Pop
<1>15. /\ \A m \in Monitored : cleared'[m] = Older(cleared[m], due[s], Floor(m))
       /\ \A t \in Stations : SeenAfter(due[s])[t] = Older(busy[t], due[s], Floor(t))
  BY DEF Pop, SeenAfter
<1> HIDE DEF LineTyped
<1> QED BY <1>1, <1>2, <1>3, <1>4, <1>7, <1>9, <1>11, <1>13, <1>14, <1>15

\* What the three cycles have in common.
LEMMA CycleOK ==
  ASSUME LineTyped, NEW s \in Stations, Stays(s) \/ Suspends(s) \/ Takes(s)
  PROVE  /\ Pop(s)
         /\ machine' \in [Stations -> Waiting] /\ busy' \in [Stations -> Int]
         /\ \A t \in Stations \ {s} : machine'[t] = machine[t] /\ busy'[t] = SeenAfter(due[s])[t]
         /\ \/ machine'[s] = machine[s] /\ busy'[s] = SeenAfter(due[s])[s]
            \/ /\ busy'[s] = PublishedAt(SeenAfter(due[s])[s], 0)
               /\ machine'[s] # machine[s]
               /\ \/ Suspends(s) /\ machine[s] = "Execute" /\ machine'[s] = "Suspended"
                  \/ Takes(s) /\ machine[s] = "Suspended" /\ machine'[s] = "Execute"
<1>1. Pop(s)  BY DEF Stays, Suspends, Takes
<1>2. SeenAfter(due[s]) \in [Stations -> Int] /\ 0 \in Int  BY <1>1, PopOK
<1>3. Reaches("Suspend") = "Suspended" /\ Reaches("Unsuspend") = "Execute"
  BY DEF Reaches, Enters, SettlesTo
<1>4. CASE NoDrive(SeenAfter(due[s]))
  BY <1>1, <1>2, <1>4, NoDriveOK DEF LineTyped
<1>5. CASE Suspends(s) /\ machine[s] = "Execute" /\ Drive(s, "Suspend", 0, SeenAfter(due[s]))
  BY <1>1, <1>2, <1>3, <1>5, DriveOK
<1>6. CASE Takes(s) /\ machine[s] = "Suspended" /\ Drive(s, "Unsuspend", 0, SeenAfter(due[s]))
  BY <1>1, <1>2, <1>3, <1>6, DriveOK
<1> QED BY <1>4, <1>5, <1>6 DEF Stays, Suspends, Takes

-----------------------------------------------------------------------------
(* Type correctness, step by step.                                           *)

LEMMA StationsAndBuffers ==
  /\ N \in Nat /\ N >= 2 /\ Monitored \subseteq Stations
  /\ \A s \in Stations : s \in Nat /\ s >= 1 /\ s <= N
  /\ \A s \in Stations : s < N => s \in Buffers
  /\ \A s \in Stations : s # 1 => s - 1 \in Buffers
  /\ \A b \in Buffers : b \in Nat /\ b \in Stations /\ b + 1 \in Stations
BY LineAssumption DEF Stations, Buffers

LEMMA InitTyped == Init => LineTyped
<1> SUFFICES ASSUME Init PROVE LineTyped  OBVIOUS
<1>1. Count \in Nat /\ Horizon \in Nat /\ Needed \in Nat \ {0} /\ MaxPresses \in Nat
  BY LineAssumption
<1>2. free \in Seq(Carriers)
  <2>1. free = [i \in 1 .. Count |-> i]  BY DEF Init, Carriers
  <2>2. \A i \in 1 .. Count : i \in Carriers  BY DEF Carriers
  <2> QED BY <2>1, <2>2, <1>1, IsASeq
<1>3. buffer \in [Buffers -> Seq(Carriers)] /\ part \in [Carriers -> Seq(Stations)]
  BY EmptySeq DEF Init
<1>4. machine \in [Stations -> Waiting] /\ due \in [Stations -> Nat] /\ busy \in [Stations -> Int]
  BY <1>1 DEF Init, Waiting
<1>5. tolerance \in [Monitored -> 0 .. Needed - 1] /\ cleared \in [Monitored -> Int]
  BY <1>1 DEF Init
<1>6. alarm \in [Monitored -> Alarms]  BY <1>1 DEF Init, NoAlarm, Alarms
<1>7. step \in [pc : Pcs, station : Stations, hand : Carriers \cup {NoCarrier},
                script : Seq(Commands), at : Int, visits : SUBSET Monitored]
  <2>1. 1 \in Stations  BY StationsAndBuffers DEF Stations
  <2>2. "bringup" \in Pcs  BY DEF Pcs
  <2>3. step = [pc |-> "bringup", station |-> 1, hand |-> NoCarrier, script |-> BringUp,
                at |-> -Len(BringUp), visits |-> {}]
    BY DEF Init, Idle
  <2> QED BY <2>1, <2>2, <2>3, WaitingAfterACommand
<1> QED BY <1>2, <1>3, <1>4, <1>5, <1>6, <1>7 DEF Init, LineTyped

\* Back where the driver awaits no published state.
LEMMA IdleTyped ==
  ASSUME NEW pc \in Pcs, NEW visits \in SUBSET Monitored
  PROVE  [pc |-> pc, station |-> 1, hand |-> NoCarrier, script |-> <<>>, at |-> 0, visits |-> visits]
           \in [pc : Pcs, station : Stations, hand : Carriers \cup {NoCarrier},
                script : Seq(Commands), at : Int, visits : SUBSET Monitored]
<1>1. 1 \in Stations  BY StationsAndBuffers DEF Stations
<1> QED BY <1>1, WaitingAfterACommand

LEMMA CycleTyped ==
  ASSUME LineTyped, NEW s \in Stations, Stays(s) \/ Suspends(s) \/ Takes(s)
  PROVE  LineTyped'
<1> USE StationsAndBuffers
<1>1. Pop(s)  BY CycleOK
<1>2. MovedAt(due[s]) \subseteq Carriers  BY DEF MovedAt, LineTyped
<1>5. /\ due' \in [Stations -> Nat] /\ tolerance' = tolerance
      /\ alarm' \in [Monitored -> Alarms] /\ cleared' \in [Monitored -> Int]
  BY <1>1, PopOK
<1>6. machine' \in [Stations -> Waiting] /\ busy' \in [Stations -> Int]
  BY CycleOK
<1>3. CASE Stays(s) \/ Suspends(s)
  <2>1. /\ UNCHANGED <<free, buffer, part>> /\ moved' = MovedAt(due[s])
        /\ step' = [Idle EXCEPT !.pc = "shutdowns"]
    BY <1>3 DEF Stays, Suspends, SettlesWhen
  <2>2. step' = [pc |-> "shutdowns", station |-> 1, hand |-> NoCarrier, script |-> <<>>, at |-> 0,
                 visits |-> {}]
    BY <2>1 DEF Idle
  <2>3. "shutdowns" \in Pcs  BY DEF Pcs
  <2>4. step' \in [pc : Pcs, station : Stations, hand : Carriers \cup {NoCarrier},
                   script : Seq(Commands), at : Int, visits : SUBSET Monitored]
    BY <2>2, <2>3, IdleTyped
  <2> QED BY <1>2, <1>5, <1>6, <2>1, <2>4 DEF LineTyped
<1>4. CASE Takes(s)
  <2> DEFINE c == IF s = 1 THEN Head(free) ELSE Head(buffer[Upstream(s)])
  <2>1. ~MustSuspend(s, TRUE)  BY <1>4 DEF Takes, MustSuspend
  <2>2. /\ step' = [Idle EXCEPT !.pc = "work", !.station = s, !.hand = c]
        /\ part' = IF s = 1 THEN [part EXCEPT ![c] = <<>>] ELSE part
        /\ free' = IF s = 1 THEN Tail(free) ELSE free
        /\ buffer' = IF s = 1 THEN buffer ELSE [buffer EXCEPT ![Upstream(s)] = Tail(@)]
        /\ moved' = MovedAt(due[s])
    BY <1>4 DEF Takes
  <2>5. /\ c \in Carriers /\ free' \in Seq(Carriers) /\ buffer' \in [Buffers -> Seq(Carriers)]
        /\ part' \in [Carriers -> Seq(Stations)]
    <3>1. CASE s = 1
      <4>1. free # <<>> /\ free \in Seq(Carriers)  BY <2>1, <3>1 DEF MustSuspend, LineTyped
      <4>2. c \in Carriers /\ free' \in Seq(Carriers)  BY <2>2, <3>1, <4>1, HeadTailProperties
      <4>3. buffer' \in [Buffers -> Seq(Carriers)] /\ part' \in [Carriers -> Seq(Stations)]
        BY <2>2, <3>1, EmptySeq DEF LineTyped
      <4> QED BY <4>2, <4>3
    <3>2. CASE s # 1
      <4>1. s - 1 \in Buffers /\ Upstream(s) = s - 1  BY <3>2 DEF Upstream
      <4>2. buffer[s - 1] # <<>> /\ buffer[s - 1] \in Seq(Carriers)
        BY <2>1, <3>2, <4>1 DEF MustSuspend, LineTyped
      <4>3. c \in Carriers /\ Tail(buffer[s - 1]) \in Seq(Carriers)
        BY <3>2, <4>1, <4>2, HeadTailProperties
      <4>4. buffer' \in [Buffers -> Seq(Carriers)] /\ part' \in [Carriers -> Seq(Stations)]
        BY <2>2, <3>2, <4>1, <4>3 DEF LineTyped
      <4>5. free' \in Seq(Carriers)  BY <2>2, <3>2 DEF LineTyped
      <4> QED BY <4>3, <4>4, <4>5
    <3> QED BY <3>1, <3>2
  <2>6. step' \in [pc : Pcs, station : Stations, hand : Carriers \cup {NoCarrier},
                   script : Seq(Commands), at : Int, visits : SUBSET Monitored]
    <3>1. c \in Carriers  BY <2>5
    <3>2. "work" \in Pcs  BY DEF Pcs
    <3>3. step' = [pc |-> "work", station |-> s, hand |-> c, script |-> <<>>, at |-> 0,
                   visits |-> {}]
      BY <2>2 DEF Idle
    <3> HIDE DEF c
    <3> QED BY <3>1, <3>2, <3>3, WaitingAfterACommand
  <2> QED BY <1>2, <1>5, <1>6, <2>2, <2>5, <2>6 DEF LineTyped
<1> QED BY <1>3, <1>4

\* Observe counts below the limit, and raises a whole alarm or none.
LEMMA ObserveOK ==
  ASSUME LineTyped, NEW s \in Monitored, NEW out \in BOOLEAN, Observe(s, out)
  PROVE  /\ tolerance' \in [Monitored -> 0 .. Needed - 1] /\ alarm' \in [Monitored -> Alarms]
         /\ tolerance'[s] = Counted(s, out)
         /\ \A m \in Monitored \ {s} : tolerance'[m] = tolerance[m] /\ alarm'[m] = alarm[m]
         /\ \/ alarm' = alarm
            \/ /\ out /\ tolerance[s] + 1 >= Needed /\ ~alarm[s].on
               /\ alarm'[s].on /\ alarm'[s].shutdown /\ alarm'[s].waiting
               /\ alarm'[s].raised = 0 /\ alarm'[s].due \in Delays
<1> USE DEF LineTyped
<1>1. Needed \in Nat \ {0} /\ MaxPresses \in Nat /\ Delays \subseteq Nat  BY LineAssumption
<1>2. Counted(s, out) \in 0 .. Needed - 1  BY <1>1 DEF Counted
<1>3. /\ tolerance' \in [Monitored -> 0 .. Needed - 1] /\ tolerance'[s] = Counted(s, out)
      /\ \A m \in Monitored \ {s} : tolerance'[m] = tolerance[m]
  BY <1>2 DEF Observe
<1>4. CASE out /\ tolerance[s] + 1 >= Needed /\ ~alarm[s].on
  <2>1. PICK delay \in Delays :
          alarm' = [alarm EXCEPT ![s] = [NoAlarm EXCEPT !.on = TRUE, !.shutdown = TRUE,
                                                        !.waiting = TRUE, !.due = delay]]
    BY <1>4 DEF Observe
  <2>2. alarm'[s] = [on |-> TRUE, shutdown |-> TRUE, waiting |-> TRUE, raised |-> 0, due |-> delay,
                     presses |-> 0]
    BY <2>1 DEF NoAlarm
  <2>3. alarm'[s] \in Alarms  BY <2>2, <1>1 DEF Alarms
  <2>4. alarm' \in [Monitored -> Alarms] /\ \A m \in Monitored \ {s} : alarm'[m] = alarm[m]
    BY <2>1, <2>3
  <2> QED BY <1>3, <1>4, <2>2, <2>4
<1>5. CASE ~(out /\ tolerance[s] + 1 >= Needed /\ ~alarm[s].on)
  BY <1>3, <1>5 DEF Observe
<1> QED BY <1>4, <1>5

LEMMA WorksTyped == ASSUME LineTyped, CarriersInv, Works PROVE LineTyped'
<1> DEFINE s == step.station
           c == step.hand
<1>1. /\ step.pc = "work" /\ UNCHANGED <<due, cleared, machine, busy>>
      /\ step' = [Idle EXCEPT !.pc = "shutdowns"]
  BY DEF Works, SettlesWhen, stationVars
<1>2. s \in Stations /\ c \in Carriers  BY <1>1 DEF LineTyped, CarriersInv
<1>3. tolerance' \in [Monitored -> 0 .. Needed - 1] /\ alarm' \in [Monitored -> Alarms]
  <2>1. CASE s \in Monitored
    <3>1. PICK out \in BOOLEAN : Observe(s, out)  BY <2>1 DEF Works
    <3> QED BY <2>1, <3>1, ObserveOK
  <2>2. CASE s \notin Monitored  BY <2>2 DEF Works, LineTyped
  <2> QED BY <2>1, <2>2
<1>4. step' \in [pc : Pcs, station : Stations, hand : Carriers \cup {NoCarrier},
                 script : Seq(Commands), at : Int, visits : SUBSET Monitored]
  <2>1. step' = [pc |-> "shutdowns", station |-> 1, hand |-> NoCarrier, script |-> <<>>, at |-> 0,
                 visits |-> {}]
    BY <1>1 DEF Idle
  <2> QED BY <2>1, IdleTyped DEF Pcs
<1>5. /\ free' \in Seq(Carriers) /\ buffer' \in [Buffers -> Seq(Carriers)]
      /\ part' \in [Carriers -> Seq(Stations)] /\ moved' \subseteq Carriers
  <2>1. CASE s < N
    <3>1. /\ buffer' = [buffer EXCEPT ![s] = Append(@, c)] /\ free' = free
          /\ part' = [part EXCEPT ![c] = Append(@, s)] /\ moved' = moved \cup {c}
      BY <2>1 DEF Works, Downstream
    <3>2. s \in Buffers  BY <2>1, <1>2, StationsAndBuffers
    <3>3. Append(buffer[s], c) \in Seq(Carriers) /\ Append(part[c], s) \in Seq(Stations)
      BY <1>2, <3>2, AppendProperties DEF LineTyped
    <3> QED BY <3>1, <3>2, <3>3, <1>2 DEF LineTyped
  <2>2. CASE ~(s < N)
    <3>1. /\ free' = Append(free, c) /\ UNCHANGED <<buffer, moved>>
          /\ part' = [part EXCEPT ![c] = <<>>]
      BY <2>2 DEF Works, Released
    <3>2. Append(free, c) \in Seq(Carriers)  BY <1>2, AppendProperties DEF LineTyped
    <3> QED BY <3>1, <3>2, EmptySeq DEF LineTyped
  <2> QED BY <2>1, <2>2
<1> QED BY <1>1, <1>3, <1>4, <1>5 DEF LineTyped

\* Everything that moves no carrier.
Aside ==
  \/ DriveScript \/ BringUpNext \/ VisitsFixed \/ Clear \/ ResetDone \/ StepEnds
  \/ \E s \in Monitored : ShutDown(s) \/ Intervene(s) \/ Acknowledge(s)
  \/ \E s \in Holdable : HoldOrUnhold(s)

LEMMA AsideLeavesTheLine ==
  ASSUME LineTyped, CarriersInv, Aside
  PROVE  /\ UNCHANGED lineVars
         /\ \/ step' = step
            \/ step'.hand = step.hand /\ step.pc # "work" /\ step'.pc # "work"
<1> USE DEF lineVars, LineTyped, CarriersInv
<1>1. CASE DriveScript  BY <1>1 DEF DriveScript
<1>2. CASE BringUpNext  BY <1>2 DEF BringUpNext, Idle
<1>3. CASE VisitsFixed  BY <1>3 DEF VisitsFixed, Idle
<1>4. CASE Clear  BY <1>4 DEF Clear, Idle
<1>5. CASE ResetDone  BY <1>5 DEF ResetDone, Idle
<1>6. CASE StepEnds  BY <1>6 DEF StepEnds, Idle
<1>7. ASSUME NEW s \in Monitored, ShutDown(s) PROVE UNCHANGED lineVars /\ step' = step
  BY <1>7 DEF ShutDown
<1>8. ASSUME NEW s \in Monitored, Intervene(s)
      PROVE UNCHANGED lineVars /\ step'.hand = step.hand /\ step.pc # "work" /\ step'.pc # "work"
  BY <1>8 DEF Intervene
<1>9. ASSUME NEW s \in Monitored, Acknowledge(s) PROVE UNCHANGED lineVars /\ step' = step
  BY <1>9 DEF Acknowledge
<1>10. ASSUME NEW s \in Holdable, HoldOrUnhold(s) PROVE UNCHANGED lineVars /\ step' = step
  BY <1>10 DEF HoldOrUnhold
<1> HIDE DEF lineVars, LineTyped, CarriersInv
<1> QED BY <1>1, <1>2, <1>3, <1>4, <1>5, <1>6, <1>7, <1>8, <1>9, <1>10 DEF Aside

StepType == [pc : Pcs, station : Stations, hand : Carriers \cup {NoCarrier},
             script : Seq(Commands), at : Int, visits : SUBSET Monitored]

LEMMA AsideTyped == ASSUME LineTyped, CarriersInv, Aside PROVE LineTyped'
<1> USE StationsAndBuffers
<1>0. UNCHANGED <<free, buffer, part, due, moved>>  BY AsideLeavesTheLine DEF lineVars
<1>1. step \in StepType  BY DEF LineTyped, StepType
<1>2. ASSUME stationVars' = stationVars
      PROVE  machine' \in [Stations -> Waiting] /\ busy' \in [Stations -> Int]
  BY <1>2 DEF stationVars, LineTyped
<1>3. ASSUME alarmVars' = alarmVars
      PROVE  /\ tolerance' \in [Monitored -> 0 .. Needed - 1] /\ alarm' \in [Monitored -> Alarms]
             /\ cleared' \in [Monitored -> Int]
  BY <1>3 DEF alarmVars, LineTyped
<1>4. ASSUME step' = Idle PROVE step' \in StepType
  <2>1. step' = [pc |-> "idle", station |-> 1, hand |-> NoCarrier, script |-> <<>>, at |-> 0,
                 visits |-> {}]
    BY <1>4 DEF Idle
  <2> QED BY <2>1, IdleTyped DEF Pcs, StepType
<1>5. ASSUME step' = [Idle EXCEPT !.pc = "visits", !.visits = step.visits] PROVE step' \in StepType
  <2>1. step' = [pc |-> "visits", station |-> 1, hand |-> NoCarrier, script |-> <<>>, at |-> 0,
                 visits |-> step.visits]
    BY <1>5 DEF Idle
  <2> QED BY <1>1, <2>1, IdleTyped DEF Pcs, StepType
<1>6. Len(BringUp) = 3 /\ BringUp \in Seq(Commands) /\ ResetInPlace \in Seq(Commands)
  BY WaitingAfterACommand
<1>7. CASE DriveScript
  <2>1. /\ Drive(step.station, Head(step.script), step.at, busy) /\ step.script # <<>>
        /\ step' = [step EXCEPT !.script = Tail(@), !.at = PublishedAt(busy[step.station], @) + 1]
        /\ UNCHANGED alarmVars
    BY <1>7 DEF DriveScript
  <2>2. step.station \in Stations /\ step.at \in Int /\ busy \in [Stations -> Int]
    BY DEF LineTyped
  <2>3. PublishedAt(busy[step.station], step.at) + 1 \in Int
    <3>1. busy[step.station] \in Int  BY <2>2
    <3>2. PublishedAt(busy[step.station], step.at) \in Int  BY <2>2, <3>1, Published
    <3> QED BY <3>2
  <2>4. Tail(step.script) \in Seq(Commands)  BY <1>1, <2>1, HeadTailProperties DEF StepType
  <2>5. step' \in StepType  BY <1>1, <2>1, <2>3, <2>4 DEF StepType
  <2>6. machine' \in [Stations -> Waiting] /\ busy' \in [Stations -> Int]
    BY <2>1, <2>2, DriveOK
  <2> QED BY <1>0, <1>3, <2>1, <2>5, <2>6 DEF LineTyped, StepType
<1>8. CASE BringUpNext
  <2>1. step' \in StepType
    <3>1. CASE step.station = N  BY <1>4, <1>8, <3>1 DEF BringUpNext
    <3>2. CASE step.station # N
      <4>1. step.station + 1 \in Stations
        BY <1>1, <3>2 DEF StepType, Stations
      <4>2. step' = [step EXCEPT !.station = @ + 1, !.script = BringUp, !.at = -Len(BringUp)]
        BY <1>8, <3>2 DEF BringUpNext
      <4>3. -Len(BringUp) \in Int  BY <1>6
      <4> QED BY <1>1, <1>6, <4>1, <4>2, <4>3 DEF StepType
    <3> QED BY <3>1, <3>2
  <2> QED BY <1>0, <1>2, <1>3, <1>8, <2>1 DEF BringUpNext, LineTyped, StepType
<1>9. CASE VisitsFixed
  <2>1. step' \in StepType
    <3>1. CASE Visits = {}  BY <1>4, <1>9, <3>1 DEF VisitsFixed
    <3>2. CASE Visits # {}
      BY <1>1, <1>9, <3>2 DEF VisitsFixed, Visits, StepType, Pcs
    <3> QED BY <3>1, <3>2
  <2> QED BY <1>0, <1>2, <1>3, <1>9, <2>1 DEF VisitsFixed, LineTyped, StepType
<1>10. CASE Clear
  <2>1. \/ step' = [Idle EXCEPT !.pc = "visits", !.visits = step.visits]
        \/ step' = [step EXCEPT !.pc = "reset", !.script = ResetInPlace]
    BY <1>10 DEF Clear
  <2>2. step' \in StepType  BY <1>1, <1>5, <1>6, <2>1 DEF StepType, Pcs
  <2>3. NoAlarm \in Alarms  BY LineAssumption DEF NoAlarm, Alarms
  <2>4. alarm' \in [Monitored -> Alarms]  BY <1>10, <2>3 DEF Clear, LineTyped
  <2>5. cleared' \in [Monitored -> Int]  BY <1>10 DEF Clear, LineTyped
  <2>6. UNCHANGED tolerance /\ UNCHANGED stationVars  BY <1>10 DEF Clear
  <2> QED BY <1>0, <1>2, <2>2, <2>4, <2>5, <2>6 DEF LineTyped, StepType
<1>11. CASE ResetDone
  <2>1. step' \in StepType  BY <1>5, <1>11 DEF ResetDone
  <2> QED BY <1>0, <1>2, <1>3, <1>11, <2>1 DEF ResetDone, LineTyped, StepType
<1>12. CASE StepEnds
  <2>1. step' \in StepType  BY <1>4, <1>12 DEF StepEnds
  <2> QED BY <1>0, <1>2, <1>3, <1>12, <2>1 DEF StepEnds, LineTyped, StepType
<1>13. ASSUME NEW s \in Monitored, ShutDown(s) PROVE LineTyped'
  <2>1. /\ Drive(s, "Abort", alarm[s].raised, busy) /\ UNCHANGED <<tolerance, cleared, step>>
        /\ alarm' = [alarm EXCEPT ![s].shutdown = FALSE]
    BY <1>13 DEF ShutDown
  <2>2. alarm[s].raised \in Int /\ alarm' \in [Monitored -> Alarms]
    BY <2>1 DEF LineTyped, Alarms
  <2>3. busy \in [Stations -> Int]  BY DEF LineTyped
  <2>4. machine' \in [Stations -> Waiting] /\ busy' \in [Stations -> Int]
    BY <2>1, <2>2, <2>3, DriveOK
  <2> QED BY <1>0, <2>1, <2>2, <2>4 DEF LineTyped
<1>14. ASSUME NEW s \in Monitored, Intervene(s) PROVE LineTyped'
  <2>1. /\ alarm' = [alarm EXCEPT ![s].waiting = FALSE]
        /\ step' = [step EXCEPT !.pc = "restart", !.station = s, !.script = BringUp,
                                !.at = alarm[s].due, !.visits = @ \ {s}]
        /\ UNCHANGED <<tolerance, cleared>> /\ UNCHANGED stationVars
    BY <1>14 DEF Intervene
  <2>2. alarm[s].due \in Int /\ alarm' \in [Monitored -> Alarms]
    BY <2>1 DEF LineTyped, Alarms
  <2>3. step' \in StepType
    <3>1. step.visits \ {s} \in SUBSET Monitored /\ "restart" \in Pcs /\ s \in Stations
      BY <1>1 DEF StepType, Pcs
    <3> QED BY <1>1, <1>6, <2>1, <2>2, <3>1 DEF StepType
  <2> QED BY <1>0, <1>2, <2>1, <2>2, <2>3 DEF LineTyped, StepType
<1>15. ASSUME NEW s \in Monitored, Acknowledge(s) PROVE LineTyped'
  <2>1. PICK now \in {-d : d \in Trails} \cup Leads :
          alarm' = [alarm EXCEPT ![s].due = now, ![s].presses = @ + 1]
    BY <1>15 DEF Acknowledge
  <2>2. now \in Int  BY LineAssumption
  <2>3. alarm[s].presses + 1 \in 0 .. MaxPresses
    <3>1. alarm[s].presses \in 0 .. MaxPresses  BY DEF LineTyped, Alarms
    <3>2. alarm[s].presses < MaxPresses /\ MaxPresses \in Nat  BY <1>15, LineAssumption DEF Acknowledge
    <3> QED BY <3>1, <3>2
  <2>4. alarm' \in [Monitored -> Alarms]  BY <2>1, <2>2, <2>3 DEF LineTyped, Alarms
  <2>5. UNCHANGED <<tolerance, cleared, step>> /\ UNCHANGED stationVars  BY <1>15 DEF Acknowledge
  <2> QED BY <1>0, <1>2, <2>4, <2>5 DEF LineTyped
<1>16. ASSUME NEW s \in Holdable, HoldOrUnhold(s) PROVE LineTyped'
  <2>1. PICK command : Drive(s, command, 0, busy)  BY <1>16 DEF HoldOrUnhold
  <2>2. UNCHANGED alarmVars /\ step' = step  BY <1>16 DEF HoldOrUnhold
  <2>3. s \in Stations /\ busy \in [Stations -> Int] /\ 0 \in Int  BY LineAssumption DEF LineTyped
  <2>4. machine' \in [Stations -> Waiting] /\ busy' \in [Stations -> Int]
    BY <2>1, <2>3, DriveOK
  <2> QED BY <1>0, <1>3, <2>2, <2>4 DEF LineTyped
<1> QED BY <1>7, <1>8, <1>9, <1>10, <1>11, <1>12, <1>13, <1>14, <1>15, <1>16 DEF Aside

-----------------------------------------------------------------------------
(* The carriers and what rides them.                                         *)

LoadInv == CarriersInv /\ PartsInv /\ MovedInv /\ RoomInv

LEMMA InitLoad == Init => LoadInv
<1> SUFFICES ASSUME Init PROVE LoadInv  OBVIOUS
<1>1. /\ free = [i \in Carriers |-> i] /\ buffer = [b \in Buffers |-> <<>>]
      /\ step.pc = "bringup" /\ step.hand = NoCarrier /\ moved = {}
  BY DEF Init, Idle
<1>2. Range(free) = Carriers  BY <1>1 DEF Range
<1>3. \A b \in Buffers : Range(buffer[b]) = {}
  <2>1. \A b \in Buffers : DOMAIN buffer[b] = {}  BY <1>1
  <2> QED BY <2>1 DEF Range
<1>4. Once(free) /\ \A b \in Buffers : Once(buffer[b])
  <2>1. \A b \in Buffers : DOMAIN buffer[b] = {}  BY <1>1
  <2> QED BY <1>1, <2>1 DEF Once
<1>5. NoCarrier \notin Carriers  BY LineAssumption DEF NoCarrier, Carriers
<1> QED BY <1>1, <1>2, <1>3, <1>4, <1>5 DEF LoadInv, CarriersInv, PartsInv, MovedInv, RoomInv

LEMMA AsideLoad == ASSUME LineTyped, LoadInv, Aside PROVE LoadInv'
<1>1. /\ UNCHANGED <<free, buffer, part, due, moved>>
      /\ \/ step' = step
         \/ step'.hand = step.hand /\ step.pc # "work" /\ step'.pc # "work"
  BY AsideLeavesTheLine DEF LoadInv, lineVars
<1>2. CarriersInv'  BY <1>1 DEF LoadInv, CarriersInv
<1>3. PartsInv' /\ RoomInv'  BY <1>1 DEF LoadInv, PartsInv, RoomInv
<1>4. MovedInv'  BY <1>1 DEF LoadInv, MovedInv
<1> QED BY <1>2, <1>3, <1>4 DEF LoadInv

\* What was moved at this instant stays out of reach: the next cycle is above its buffer, or
\* at a later instant.
LEMMA CycleKeepsMoved ==
  ASSUME LineTyped, LoadInv, NEW s \in Stations, Pop(s), moved' = MovedAt(due[s])
  PROVE  /\ \A c \in moved' : \E b \in Buffers :
              b >= s /\ c \in Range(buffer[b]) /\ \A t \in Stations : t > b => due'[t] > 0
         /\ \A t \in Stations : t >= s => due'[t] > 0
<1>1. /\ \A t \in Stations \ {s} : due[s] <= due[t] /\ (t > s => due[s] < due[t])
      /\ due'[s] > Len(BringUp) /\ \A t \in Stations \ {s} : due'[t] = due[t] - due[s]
  BY PopOK
<1>2. \A t \in Stations : due[t] \in Nat  BY DEF LineTyped
<1>3. due'[s] > 0  BY <1>1, WaitingAfterACommand, PopOK
<1>4. \A t \in Stations : t > s => due'[t] > 0  BY <1>1, <1>2, StationsAndBuffers
<1>5. \A t \in Stations : t >= s => due'[t] > 0  BY <1>3, <1>4, StationsAndBuffers
<1>6. ASSUME NEW c \in moved'
      PROVE  \E b \in Buffers :
               b >= s /\ c \in Range(buffer[b]) /\ \A t \in Stations : t > b => due'[t] > 0
  <2>1. due[s] = 0 /\ c \in moved  BY <1>2, <1>6 DEF MovedAt
  <2>2. PICK b \in Buffers : c \in Range(buffer[b]) /\ \A t \in Stations : t > b => due[t] > 0
    BY <2>1 DEF LoadInv, MovedInv
  <2>3. b >= s
    <3>1. ~(s > b)  BY <2>1, <2>2
    <3> QED BY <3>1, StationsAndBuffers
  <2>4. \A t \in Stations : t > b => due'[t] > 0  BY <1>5, <2>3, StationsAndBuffers
  <2> QED BY <2>2, <2>3, <2>4
<1> QED BY <1>5, <1>6

LEMMA CycleLoad ==
  ASSUME LineTyped, LoadInv, NEW s \in Stations, Stays(s) \/ Suspends(s)
  PROVE  LoadInv'
<1>1. /\ UNCHANGED <<free, buffer, part>> /\ moved' = MovedAt(due[s])
      /\ step' = [Idle EXCEPT !.pc = "shutdowns"] /\ Pop(s)
  BY DEF Stays, Suspends, SettlesWhen
<1>2. step'.pc = "shutdowns" /\ step'.hand = NoCarrier  BY <1>1 DEF Idle
<1>3. step.hand = NoCarrier  BY <1>1 DEF Pop, LoadInv, CarriersInv
<1>4. CarriersInv'  BY <1>1, <1>2, <1>3 DEF LoadInv, CarriersInv
<1>5. PartsInv' /\ RoomInv'  BY <1>1, <1>2 DEF LoadInv, PartsInv, RoomInv
<1>6. MovedInv'
  <2>1. \A c \in moved' : \E b \in Buffers :
          c \in Range(buffer[b]) /\ \A t \in Stations : t > b => due'[t] > 0
    BY <1>1, CycleKeepsMoved
  <2> QED BY <1>1, <1>2, <2>1 DEF MovedInv
<1> QED BY <1>4, <1>5, <1>6 DEF LoadInv

\* A carrier goes from the pool, or the buffer above, into the hand; from the pool it carries
\* a part nothing has worked, from buffer b one that stations 1 .. b have.
LEMMA TakesLoad == ASSUME LineTyped, LoadInv, NEW s \in Stations, Takes(s) PROVE LoadInv'
<1> USE StationsAndBuffers
<1> DEFINE c == IF s = 1 THEN Head(free) ELSE Head(buffer[s - 1])
<1>1. /\ step' = [Idle EXCEPT !.pc = "work", !.station = s, !.hand = c]
      /\ part' = IF s = 1 THEN [part EXCEPT ![c] = <<>>] ELSE part
      /\ free' = IF s = 1 THEN Tail(free) ELSE free
      /\ buffer' = IF s = 1 THEN buffer ELSE [buffer EXCEPT ![s - 1] = Tail(@)]
      /\ moved' = MovedAt(due[s]) /\ Pop(s)
  BY DEF Takes, Upstream
<1>2. ~MustSuspend(s, TRUE)  BY DEF Takes, MustSuspend
<1>3. step'.pc = "work" /\ step'.station = s /\ step'.hand = c  BY <1>1 DEF Idle
<1>4. step.pc = "idle" /\ step.hand = NoCarrier  BY <1>1 DEF Pop, LoadInv, CarriersInv
<1>5. NoCarrier \notin Carriers  BY LineAssumption DEF NoCarrier, Carriers
<1>6. /\ c \in Carriers /\ (s = 1 => c \in Range(free)) /\ (s # 1 => c \in Range(buffer[s - 1]))
      /\ Once(free') /\ \A b \in Buffers : Once(buffer'[b])
      /\ Range(free') = Range(free) \ {c}
      /\ \A b \in Buffers : Range(buffer'[b]) = Range(buffer[b]) \ {c}
      /\ \A b \in Buffers : b >= s => buffer'[b] = buffer[b]
  <2>1. CASE s = 1
    <3>1. free # <<>> /\ free \in Seq(Carriers) /\ Once(free)
      BY <1>2, <2>1 DEF MustSuspend, LineTyped, LoadInv, CarriersInv
    <3>2. /\ c \in Carriers /\ Once(Tail(free)) /\ c \notin Range(Tail(free))
          /\ Range(free) = {c} \cup Range(Tail(free))
      BY <2>1, <3>1, HeadIsTaken
    <3>3. \A b \in Buffers : c \notin Range(buffer[b]) /\ Once(buffer[b])
      BY <3>2 DEF LoadInv, CarriersInv
    <3> QED BY <1>1, <2>1, <3>2, <3>3
  <2>2. CASE s # 1
    <3>1. s - 1 \in Buffers /\ s - 1 \in Nat  BY <2>2
    <3>2. buffer[s - 1] # <<>> /\ buffer[s - 1] \in Seq(Carriers) /\ Once(buffer[s - 1])
      BY <1>2, <2>2, <3>1 DEF MustSuspend, LineTyped, LoadInv, CarriersInv, Upstream
    <3>3. /\ c \in Carriers /\ Once(Tail(buffer[s - 1])) /\ c \notin Range(Tail(buffer[s - 1]))
          /\ Range(buffer[s - 1]) = {c} \cup Range(Tail(buffer[s - 1]))
      BY <2>2, <3>2, HeadIsTaken
    <3>4. free' = free /\ buffer'[s - 1] = Tail(buffer[s - 1])
          /\ \A b \in Buffers \ {s - 1} : buffer'[b] = buffer[b]
      BY <1>1, <2>2, <3>1 DEF LineTyped
    <3>5. c \notin Range(free) /\ \A b \in Buffers \ {s - 1} : c \notin Range(buffer[b])
      BY <3>1, <3>3 DEF LoadInv, CarriersInv
    <3>6. Once(free) /\ \A b \in Buffers : Once(buffer[b])  BY DEF LoadInv, CarriersInv
    <3>7. \A b \in Buffers : b >= s => b # s - 1  BY <3>1
    <3> HIDE DEF c
    <3> QED BY <2>2, <3>1, <3>3, <3>4, <3>5, <3>6, <3>7
  <2> QED BY <2>1, <2>2
<1> HIDE DEF c
<1>7. CarriersInv'
  <2>1. step'.pc = "work" <=> step'.hand # NoCarrier  BY <1>3, <1>5, <1>6
  <2>2. \A d \in Carriers : \/ d = c \/ d \in Range(free')
                            \/ \E b \in Buffers : d \in Range(buffer'[b])
    BY <1>4, <1>5, <1>6 DEF LoadInv, CarriersInv
  <2>3. /\ \A b \in Buffers : Range(free') \cap Range(buffer'[b]) = {}
        /\ \A b, d \in Buffers : b # d => Range(buffer'[b]) \cap Range(buffer'[d]) = {}
    BY <1>6 DEF LoadInv, CarriersInv
  <2>4. c \notin Range(free') /\ \A b \in Buffers : c \notin Range(buffer'[b])  BY <1>6
  <2>5. Once(free') /\ \A b \in Buffers : Once(buffer'[b])  BY <1>6
  <2>6. Once(free)' /\ \A b \in Buffers : Once(buffer[b])'  BY <2>5 DEF Once
  <2>7. /\ step.hand' \notin Range(free') /\ \A b \in Buffers : step.hand' \notin Range(buffer'[b])
        /\ \A d \in Carriers : \/ d = step.hand' \/ d \in Range(free')
                              \/ \E b \in Buffers : d \in Range(buffer'[b])
    BY <1>3, <2>2, <2>4
  <2> QED BY <2>1, <2>3, <2>6, <2>7 DEF CarriersInv
<1>8. PartsInv'
  <2>1. part'[c] = Through(s - 1)
    <3>1. CASE s = 1
      <4>1. part'[c] = <<>>  BY <1>1, <1>6, <3>1 DEF LineTyped
      <4>2. Through(0) = <<>>  BY DEF Through
      <4> QED BY <3>1, <4>1, <4>2
    <3>2. CASE s # 1  BY <1>1, <1>6, <3>2 DEF LoadInv, PartsInv
    <3> QED BY <3>1, <3>2
  <2>2. \A d \in Carriers \ {c} : part'[d] = part[d]  BY <1>1 DEF LineTyped
  <2>3. \A b \in Buffers : Range(buffer[b]) \subseteq Carriers
    <3> SUFFICES ASSUME NEW b \in Buffers PROVE Range(buffer[b]) \subseteq Carriers  OBVIOUS
    <3>1. buffer[b] \in Seq(Carriers)  BY DEF LineTyped
    <3> QED BY <3>1 DEF Range
  <2>4. \A b \in Buffers : \A d \in Range(buffer'[b]) : part'[d] = Through(b)
    BY <1>6, <2>2, <2>3 DEF LoadInv, PartsInv
  <2> QED BY <1>3, <2>1, <2>4 DEF PartsInv
<1>9. MovedInv'
  <2>1. /\ \A d \in moved' : \E b \in Buffers :
              b >= s /\ d \in Range(buffer[b]) /\ \A t \in Stations : t > b => due'[t] > 0
        /\ \A t \in Stations : t >= s => due'[t] > 0
    BY <1>1, CycleKeepsMoved
  <2> QED BY <1>3, <1>6, <2>1 DEF MovedInv
<1>10. RoomInv'
  <2>1. CASE s < N
    <3>1. s \in Buffers /\ ~IsFull(s)  BY <1>2, <2>1 DEF MustSuspend, Downstream
    <3>2. buffer'[s] = buffer[s]  BY <1>6, <3>1
    <3>3. Len(buffer[s]) \in Nat /\ Capacity \in Nat  BY <3>1, LineAssumption, LenProperties DEF LineTyped
    <3> QED BY <1>3, <3>1, <3>2, <3>3 DEF RoomInv, IsFull
  <2>2. CASE ~(s < N)  BY <1>3, <2>2 DEF RoomInv
  <2> QED BY <2>1, <2>2
<1> QED BY <1>7, <1>8, <1>9, <1>10 DEF LoadInv

\* The carrier goes from the hand into the buffer below, or back to the pool, and the part on
\* it has now been worked by one station more.
LEMMA WorksLoad == ASSUME LineTyped, LoadInv, Works PROVE LoadInv'
<1> USE StationsAndBuffers
<1> DEFINE s == step.station
           c == step.hand
<1>1. /\ step.pc = "work" /\ due' = due /\ step' = [Idle EXCEPT !.pc = "shutdowns"]
  BY DEF Works, SettlesWhen
<1>2. step'.pc = "shutdowns" /\ step'.hand = NoCarrier  BY <1>1 DEF Idle
<1>3. NoCarrier \notin Carriers  BY LineAssumption DEF NoCarrier, Carriers
<1>4. /\ s \in Stations /\ c \in Carriers /\ c \notin Range(free)
      /\ \A b \in Buffers : c \notin Range(buffer[b])
  BY <1>1 DEF LineTyped, LoadInv, CarriersInv
<1>5. /\ Once(free) /\ \A b \in Buffers : Once(buffer[b])
      /\ \A b \in Buffers : Range(free) \cap Range(buffer[b]) = {}
      /\ \A b, d \in Buffers : b # d => Range(buffer[b]) \cap Range(buffer[d]) = {}
      /\ \A d \in Carriers : \/ d = c \/ d \in Range(free)
                             \/ \E b \in Buffers : d \in Range(buffer[b])
  BY DEF LoadInv, CarriersInv
<1>6. /\ free \in Seq(Carriers) /\ buffer \in [Buffers -> Seq(Carriers)]
      /\ part \in [Carriers -> Seq(Stations)]
  BY DEF LineTyped
<1>7. /\ \A b \in Buffers : \A d \in Range(buffer[b]) : part[d] = Through(b)
      /\ part[c] = Through(s - 1)
  BY <1>1 DEF LoadInv, PartsInv
<1>8. /\ \A d \in moved : \E b \in Buffers :
           d \in Range(buffer[b]) /\ \A t \in Stations : t > b => due[t] > 0
      /\ \A t \in Stations : t >= s => due[t] > 0
  BY <1>1 DEF LoadInv, MovedInv
<1>9. /\ \A b \in Buffers : Range(buffer[b]) \subseteq Carriers
  <2> SUFFICES ASSUME NEW b \in Buffers PROVE Range(buffer[b]) \subseteq Carriers  OBVIOUS
  <2>1. buffer[b] \in Seq(Carriers)  BY <1>6
  <2> QED BY <2>1 DEF Range
<1>10. CASE s < N
  <2>1. s \in Buffers  BY <1>4, <1>10
  <2>2. /\ buffer' = [buffer EXCEPT ![s] = Append(@, c)] /\ free' = free
        /\ part' = [part EXCEPT ![c] = Append(@, s)] /\ moved' = moved \cup {c}
    BY <1>10 DEF Works, Downstream
  <2> HIDE DEF s, c
  <2>3. buffer'[s] = Append(buffer[s], c) /\ \A b \in Buffers \ {s} : buffer'[b] = buffer[b]
    BY <1>6, <2>1, <2>2
  <2>4. /\ Once(buffer'[s]) /\ Range(buffer'[s]) = Range(buffer[s]) \cup {c}
    BY <1>4, <1>5, <1>6, <2>1, <2>3, LastIsPut
  <2>5. \A b \in Buffers : Once(buffer'[b])  BY <1>5, <2>3, <2>4
  <2>6. \A b \in Buffers : Range(free') \cap Range(buffer'[b]) = {}
    BY <1>4, <1>5, <2>2, <2>3, <2>4
  <2>7. ASSUME NEW b \in Buffers, NEW d \in Buffers, b # d
        PROVE  Range(buffer'[b]) \cap Range(buffer'[d]) = {}
    <3>1. CASE b = s
      <4>1. buffer'[d] = buffer[d]  BY <2>3, <2>7, <3>1
      <4>2. Range(buffer[s]) \cap Range(buffer[d]) = {}  BY <1>5, <2>1, <2>7, <3>1
      <4> QED BY <1>4, <2>4, <3>1, <4>1, <4>2
    <3>2. CASE d = s
      <4>1. buffer'[b] = buffer[b]  BY <2>3, <2>7, <3>2
      <4>2. Range(buffer[b]) \cap Range(buffer[s]) = {}  BY <1>5, <2>1, <2>7, <3>2
      <4> QED BY <1>4, <2>4, <3>2, <4>1, <4>2
    <3>3. CASE b # s /\ d # s  BY <1>5, <2>3, <2>7, <3>3
    <3> QED BY <3>1, <3>2, <3>3
  <2>8. \A d \in Carriers : d \in Range(free') \/ \E b \in Buffers : d \in Range(buffer'[b])
    BY <1>5, <2>1, <2>2, <2>3, <2>4
  <2>9. NoCarrier \notin Range(free') /\ \A b \in Buffers : NoCarrier \notin Range(buffer'[b])
    <3>1. Range(free') \subseteq Carriers  BY <1>6, <2>2 DEF Range
    <3>2. \A b \in Buffers : Range(buffer'[b]) \subseteq Carriers  BY <1>4, <1>9, <2>3, <2>4
    <3> QED BY <1>3, <3>1, <3>2
  <2>10. CarriersInv'
    <3>1. Once(free)' /\ \A b \in Buffers : Once(buffer[b])'  BY <1>5, <2>2, <2>5 DEF Once
    <3> QED BY <1>2, <2>6, <2>7, <2>8, <2>9, <3>1 DEF CarriersInv
  <2>11. part'[c] = Through(s)
    <3>1. part'[c] = Append(Through(s - 1), s)  BY <1>4, <1>6, <1>7, <2>2
    <3>2. s \in Nat /\ s >= 1  BY <1>4
    <3>3. Append(Through(s - 1), s) = Through(s)
      <4>1. Through(s - 1) \in Seq(Nat) /\ Len(Through(s - 1)) = s - 1
        <5>1. \A i \in 1 .. s - 1 : i \in Nat  OBVIOUS
        <5>2. s - 1 \in Nat  BY <3>2
        <5>3. Through(s - 1) \in Seq(Nat)  BY <5>1, <5>2, IsASeq DEF Through
        <5>4. DOMAIN Through(s - 1) = 1 .. s - 1  BY DEF Through
        <5> QED BY <5>2, <5>3, <5>4, LenProperties
      <4>2. /\ Append(Through(s - 1), s) \in Seq(Nat) /\ Len(Append(Through(s - 1), s)) = s
            /\ \A i \in 1 .. s - 1 : Append(Through(s - 1), s)[i] = i
            /\ Append(Through(s - 1), s)[s] = s
        BY <3>2, <4>1, AppendProperties DEF Through
      <4>3. Through(s) \in Seq(Nat) /\ Len(Through(s)) = s
        <5>1. \A i \in 1 .. s : i \in Nat  OBVIOUS
        <5>2. Through(s) \in Seq(Nat)  BY <3>2, <5>1, IsASeq DEF Through
        <5>3. DOMAIN Through(s) = 1 .. s  BY DEF Through
        <5> QED BY <3>2, <5>2, <5>3, LenProperties
      <4>4. \A i \in 1 .. s : Append(Through(s - 1), s)[i] = Through(s)[i]
        <5> SUFFICES ASSUME NEW i \in 1 .. s PROVE Append(Through(s - 1), s)[i] = i
          BY DEF Through
        <5>1. CASE i \in 1 .. s - 1  BY <4>2, <5>1
        <5>2. CASE i = s  BY <4>2, <5>2
        <5>3. i \in 1 .. s - 1 \/ i = s  BY <3>2
        <5> QED BY <5>1, <5>2, <5>3
      <4> QED BY <4>2, <4>3, <4>4, SeqEqual
    <3> QED BY <3>1, <3>3
  <2>12. \A d \in Carriers \ {c} : part'[d] = part[d]  BY <1>6, <2>2
  <2>13. \A b \in Buffers : \A d \in Range(buffer'[b]) : part'[d] = Through(b)
    <3> SUFFICES ASSUME NEW b \in Buffers, NEW d \in Range(buffer'[b])
                 PROVE  part'[d] = Through(b)
      OBVIOUS
    <3>1. CASE d = c
      <4>1. b = s  BY <1>4, <2>3, <3>1
      <4> QED BY <2>11, <3>1, <4>1
    <3>2. CASE d # c
      <4>1. d \in Range(buffer[b])  BY <2>3, <2>4, <3>2
      <4> QED BY <1>7, <1>9, <2>12, <3>2, <4>1
    <3> QED BY <3>1, <3>2
  <2>14. PartsInv'  BY <1>2, <2>13 DEF PartsInv
  <2>15. \A d \in moved' : \E b \in Buffers :
           d \in Range(buffer'[b]) /\ \A t \in Stations : t > b => due[t] > 0
    <3> SUFFICES ASSUME NEW d \in moved'
                 PROVE  \E b \in Buffers :
                          d \in Range(buffer'[b]) /\ \A t \in Stations : t > b => due[t] > 0
      OBVIOUS
    <3>1. CASE d = c
      <4>1. \A t \in Stations : t > s => due[t] > 0  BY <1>4, <1>8
      <4> QED BY <2>1, <2>4, <3>1, <4>1
    <3>2. CASE d # c
      <4>1. PICK b \in Buffers : d \in Range(buffer[b]) /\ \A t \in Stations : t > b => due[t] > 0
        BY <1>8, <2>2, <3>2
      <4>2. d \in Range(buffer'[b])  BY <2>3, <2>4, <4>1
      <4> QED BY <4>1, <4>2
    <3> QED BY <3>1, <3>2
  <2>16. MovedInv'  BY <1>1, <1>2, <2>15 DEF MovedInv
  <2>17. RoomInv'  BY <1>2 DEF RoomInv
  <2> QED BY <2>10, <2>14, <2>16, <2>17 DEF LoadInv
<1>11. CASE ~(s < N)
  <2>1. /\ free' = Append(free, c) /\ UNCHANGED <<buffer, moved>>
        /\ part' = [part EXCEPT ![c] = <<>>]
    BY <1>11 DEF Works, Released
  <2> HIDE DEF s, c
  <2>2. Once(free') /\ Range(free') = Range(free) \cup {c}
    BY <1>4, <1>5, <1>6, <2>1, LastIsPut
  <2>3. CarriersInv'
    <3>1. Once(free)' /\ \A b \in Buffers : Once(buffer[b])'  BY <1>5, <2>1, <2>2 DEF Once
    <3>2. \A b \in Buffers : Range(free') \cap Range(buffer'[b]) = {}
      BY <1>4, <1>5, <2>1, <2>2
    <3>3. \A d \in Carriers : d \in Range(free') \/ \E b \in Buffers : d \in Range(buffer'[b])
      BY <1>5, <2>1, <2>2
    <3>4. NoCarrier \notin Range(free') /\ \A b \in Buffers : NoCarrier \notin Range(buffer'[b])
      <4>1. Range(free) \subseteq Carriers  BY <1>6 DEF Range
      <4> QED BY <1>3, <1>4, <1>9, <2>1, <2>2, <4>1
    <3> QED BY <1>2, <1>5, <2>1, <3>1, <3>2, <3>3, <3>4 DEF CarriersInv
  <2>4. \A d \in Carriers \ {c} : part'[d] = part[d]  BY <1>6, <2>1
  <2>5. PartsInv'  BY <1>2, <1>4, <1>7, <1>9, <2>1, <2>4 DEF PartsInv
  <2>6. MovedInv'  BY <1>1, <1>2, <1>8, <2>1 DEF MovedInv
  <2>7. RoomInv'  BY <1>2 DEF RoomInv
  <2> QED BY <2>3, <2>5, <2>6, <2>7 DEF LoadInv
<1> QED BY <1>10, <1>11

\* Every step but a stutter moves a carrier or none.
LEMMA NextCases ==
  ASSUME Next
  PROVE  \/ Aside \/ Works
         \/ \E s \in Stations : Stays(s) \/ Suspends(s) \/ Takes(s)
BY DEF Next, Driver, Aside

LoadedInv == LineTyped /\ LoadInv

LEMMA LoadedStep == ASSUME LoadedInv, [Next]_vars PROVE LoadedInv'
<1>1. CASE UNCHANGED vars
  <2> USE <1>1 DEF vars, lineVars, stationVars, alarmVars
  <2>1. LineTyped'  BY DEF LoadedInv, LineTyped
  <2>2. CarriersInv' /\ RoomInv'  BY DEF LoadedInv, LoadInv, CarriersInv, RoomInv
  <2>3. PartsInv' /\ MovedInv'  BY DEF LoadedInv, LoadInv, PartsInv, MovedInv
  <2> QED BY <2>1, <2>2, <2>3 DEF LoadedInv, LoadInv
<1>2. CASE Aside  BY <1>2, AsideTyped, AsideLoad DEF LoadedInv, LoadInv
<1>3. CASE Works  BY <1>3, WorksTyped, WorksLoad DEF LoadedInv, LoadInv
<1>4. ASSUME NEW s \in Stations, Stays(s) \/ Suspends(s) \/ Takes(s) PROVE LoadedInv'
  BY <1>4, CycleTyped, CycleLoad, TakesLoad DEF LoadedInv
<1> QED BY <1>1, <1>2, <1>3, <1>4, NextCases

LEMMA LoadedAlways == Spec => []LoadedInv
<1>1. Init => LoadedInv  BY InitTyped, InitLoad DEF LoadedInv
<1>2. LoadedInv /\ [Next]_vars => LoadedInv'  BY LoadedStep
<1> QED BY <1>1, <1>2, PTL DEF Spec

-----------------------------------------------------------------------------
(* What the invariant says of the line.                                      *)

\* In a sequence without repetitions an element that is there is there once.
LEMMA OnePlace ==
  ASSUME NEW S, NEW q \in Seq(S), Once(q), NEW c
  PROVE  Cardinality({i \in DOMAIN q : q[i] = c}) = IF c \in Range(q) THEN 1 ELSE 0
<1>1. CASE c \in Range(q)
  <2>1. PICK i \in DOMAIN q : q[i] = c  BY <1>1 DEF Range
  <2>2. {j \in DOMAIN q : q[j] = c} = {i}  BY <2>1 DEF Once
  <2> QED BY <1>1, <2>2, FS_Singleton
<1>2. CASE c \notin Range(q)
  <2>1. {j \in DOMAIN q : q[j] = c} = {}  BY <1>2 DEF Range
  <2> QED BY <1>2, <2>1, FS_EmptySet
<1> QED BY <1>1, <1>2

\* No buffer holds more carriers than there are.
LEMMA NoLongerThanThePool ==
  ASSUME NEW q \in Seq(Carriers), Once(q)
  PROVE  DOMAIN q \subseteq 1 .. Count
<1>1. Len(q) \in Nat /\ DOMAIN q = 1 .. Len(q) /\ Count \in Nat
      /\ \A i \in 1 .. Len(q) : q[i] \in Carriers
  BY LenProperties, LineAssumption
<1>2. \A n \in Nat : IsFiniteSet(1 .. n) /\ Cardinality(1 .. n) = n
  <2> SUFFICES ASSUME NEW n \in Nat PROVE IsFiniteSet(1 .. n) /\ Cardinality(1 .. n) = n
    OBVIOUS
  <2>1. Cardinality(1 .. n) = IF 1 > n THEN 0 ELSE n - 1 + 1  BY FS_Interval
  <2>2. n - 1 + 1 = n /\ (1 > n => n = 0)  OBVIOUS
  <2> QED BY <2>1, <2>2, FS_Interval
<1>3. q \in Injection(1 .. Len(q), Carriers)
  BY <1>1 DEF Once, Injection, IsInjective
<1>4. Len(q) <= Count  BY <1>1, <1>2, <1>3, FS_Injection DEF Carriers
<1> QED BY <1>1, <1>4

LEMMA LoadedPlaces == LoadedInv => CarriersConserved
<1> SUFFICES ASSUME LoadedInv, NEW c \in Carriers PROVE Places(c) = 1
  BY DEF CarriersConserved
<1> DEFINE there == {p \in Buffers \X (1 .. Count) :
                       p[2] \in DOMAIN buffer[p[1]] /\ buffer[p[1]][p[2]] = c}
<1>1. /\ free \in Seq(Carriers) /\ Once(free)
      /\ \A b \in Buffers : buffer[b] \in Seq(Carriers) /\ Once(buffer[b])
  BY DEF LoadedInv, LineTyped, LoadInv, CarriersInv
<1>2. Cardinality({i \in DOMAIN free : free[i] = c}) = IF c \in Range(free) THEN 1 ELSE 0
  BY <1>1, OnePlace
<1>3. ASSUME NEW b \in Buffers, c \in Range(buffer[b]) PROVE Cardinality(there) = 1
  <2>1. PICK i \in DOMAIN buffer[b] : buffer[b][i] = c  BY <1>3 DEF Range
  <2>2. i \in 1 .. Count  BY <1>1, <2>1, NoLongerThanThePool
  <2>3. \A d \in Buffers : d # b => c \notin Range(buffer[d])
    BY <1>3 DEF LoadedInv, LoadInv, CarriersInv
  <2>4. ASSUME NEW p \in there PROVE p = <<b, i>>
    <3>1. PICK d \in Buffers, j \in 1 .. Count : p = <<d, j>>  OBVIOUS
    <3>2. j \in DOMAIN buffer[d] /\ buffer[d][j] = c  BY <3>1
    <3>3. d = b  BY <2>3, <3>2 DEF Range
    <3>4. j = i  BY <1>1, <2>1, <3>2, <3>3 DEF Once
    <3> QED BY <3>1, <3>3, <3>4
  <2>5. <<b, i>> \in there  BY <2>1, <2>2
  <2>6. there = {<<b, i>>}  BY <2>4, <2>5
  <2> QED BY <2>6, FS_Singleton
<1>4. ASSUME \A b \in Buffers : c \notin Range(buffer[b]) PROVE Cardinality(there) = 0
  <2>1. there = {}  BY <1>4 DEF Range
  <2> QED BY <2>1, FS_EmptySet
<1>5. /\ \A b \in Buffers : Range(free) \cap Range(buffer[b]) = {}
      /\ step.hand \notin Range(free) /\ \A b \in Buffers : step.hand \notin Range(buffer[b])
      /\ \/ c = step.hand \/ c \in Range(free) \/ \E b \in Buffers : c \in Range(buffer[b])
  BY DEF LoadedInv, LoadInv, CarriersInv
<1>6. Places(c) = (IF c \in Range(free) THEN 1 ELSE 0) + (IF step.hand = c THEN 1 ELSE 0)
                    + Cardinality(there)
  BY <1>2 DEF Places
<1> HIDE DEF there
<1>7. CASE c = step.hand  BY <1>4, <1>5, <1>6, <1>7
<1>8. CASE c # step.hand /\ c \in Range(free)
  <2>1. Cardinality(there) = 0  BY <1>4, <1>5, <1>8
  <2> QED BY <1>6, <1>8, <2>1
<1>9. CASE c # step.hand /\ c \notin Range(free)
  <2>1. Cardinality(there) = 1  BY <1>3, <1>5, <1>9
  <2> QED BY <1>6, <1>9, <2>1
<1> QED BY <1>7, <1>8, <1>9

\* Every carrier is in exactly one place, the pool, one buffer or the hand of the station at
\* work, at every await of Line.step (line.py, carriers.py), for every number of stations,
\* carriers and places in a buffer. A carrier lost on the way would starve the head for good.
THEOREM NoCarrierIsLost == Spec => []CarriersConserved
BY LoadedAlways, LoadedPlaces, PTL

\* What rides a carrier in a buffer is a part the stations above worked, in line order and once
\* each (Line._parts is keyed by carrier, and carriers come round again).
THEOREM PartsAreWorkedInOrder == Spec => []PartsWorkedInOrder
<1>1. LoadedInv => PartsWorkedInOrder
  <2> SUFFICES ASSUME LoadedInv PROVE PartsWorkedInOrder  OBVIOUS
  <2>1. ASSUME NEW b \in Buffers, NEW i \in DOMAIN buffer[b]
        PROVE  part[buffer[b][i]] = [s \in 1 .. b |-> s]
    <3>1. buffer[b][i] \in Range(buffer[b])  BY DEF Range
    <3> QED BY <3>1 DEF LoadedInv, LoadInv, PartsInv, Through
  <2>2. step.pc = "work" => part[step.hand] = [s \in 1 .. step.station - 1 |-> s]
    BY DEF LoadedInv, LoadInv, PartsInv, Through
  <2> QED BY <2>1, <2>2 DEF PartsWorkedInOrder
<1> QED BY <1>1, LoadedAlways, PTL

\* No part crosses two stations in one instant, whatever the takts and however many cycles fall
\* due together: of coinciding cycles the furthest down the line runs first (line.py:194-199).
THEOREM OneStationAnInstant == Spec => []OneStationPerInstant
<1>1. LoadedInv => OneStationPerInstant
  BY DEF LoadedInv, LoadInv, CarriersInv, MovedInv, OneStationPerInstant
<1> QED BY <1>1, LoadedAlways, PTL

-----------------------------------------------------------------------------
(* Nothing is refused.                                                       *)

LEMMA ScriptStep ==
  ASSUME NEW script, NEW state, Fits(script, state), script # <<>>
  PROVE  /\ Head(script) \in Commands /\ state \in Accepts[Head(script)]
         /\ Fits(Tail(script), Reaches(Head(script)))
<1> USE DEF Commands, Accepts, Reaches, Enters, SettlesTo, Waiting, Acting
<1>1. /\ <<"Reset", "Start">> # <<>> /\ <<"Start">> # <<>>
      /\ Head(BringUp) = "Clear" /\ Tail(BringUp) = <<"Reset", "Start">>
      /\ Head(ResetInPlace) = "Stop" /\ Tail(ResetInPlace) = <<"Reset", "Start">>
      /\ Head(<<"Reset", "Start">>) = "Reset" /\ Tail(<<"Reset", "Start">>) = <<"Start">>
      /\ Head(<<"Start">>) = "Start" /\ Tail(<<"Start">>) = <<>>
  BY DEF BringUp, ResetInPlace
<1>2. CASE script = BringUp /\ state = "Aborted"  BY <1>1, <1>2 DEF Fits
<1>3. CASE script = <<"Reset", "Start">> /\ state = "Stopped"  BY <1>1, <1>3 DEF Fits
<1>4. CASE script = <<"Start">> /\ state = "Idle"  BY <1>1, <1>4 DEF Fits
<1>5. CASE script = ResetInPlace /\ state = "Execute"  BY <1>1, <1>5 DEF Fits
<1> QED BY <1>2, <1>3, <1>4, <1>5 DEF Fits

LEMMA Refusals ==
  /\ \A command \in Commands : "Aborted" \in Accepts[command] => command \in {"Clear", "Abort"}
  /\ Reaches("Abort") = "Aborted"
  /\ BringUp # <<>> /\ ResetInPlace # <<>>
BY DEF Commands, Accepts, Reaches, Enters, SettlesTo, Waiting, Acting, BringUp, ResetInPlace

LEMMA InitDriven == Init => DrivenInv
<1> SUFFICES ASSUME Init PROVE DrivenInv  OBVIOUS
<1>1. /\ step.pc = "bringup" /\ step.station = 1 /\ step.script = BringUp /\ step.visits = {}
      /\ machine = [s \in Stations |-> "Aborted"] /\ alarm = [s \in Monitored |-> NoAlarm]
  BY DEF Init, Idle
<1>2. 1 \in Stations  BY StationsAndBuffers DEF Stations
<1>3. ScriptInv  BY <1>1, <1>2 DEF ScriptInv, Scripted, Fits
<1>4. VisitsInv  BY <1>1 DEF VisitsInv
<1>5. \A m \in Monitored : AlarmInv(m)  BY <1>1 DEF AlarmInv, NoAlarm
<1> QED BY <1>3, <1>4, <1>5 DEF DrivenInv

LEMMA CycleDriven ==
  ASSUME LineTyped, DrivenInv, NEW s \in Stations, Stays(s) \/ Suspends(s) \/ Takes(s)
  PROVE  DrivenInv'
<1>1. /\ step.pc = "idle"
      /\ \A m \in Monitored :
           /\ alarm'[m].on = alarm[m].on /\ alarm'[m].shutdown = alarm[m].shutdown
           /\ alarm'[m].waiting = alarm[m].waiting
           /\ ~alarm[m].on => alarm'[m] = alarm[m]
  BY CycleOK, PopOK
<1>2. \A t \in Stations : machine[t] = "Aborted" => machine'[t] = "Aborted"  BY CycleOK
<1>3. step'.pc \in {"work", "shutdowns"} /\ step'.script = <<>> /\ step'.visits = {}
  BY DEF Stays, Suspends, Takes, SettlesWhen, Idle
<1>4. ScriptInv'  BY <1>3 DEF ScriptInv, Scripted
<1>5. VisitsInv'  BY <1>3 DEF VisitsInv
<1>6. ASSUME NEW m \in Monitored PROVE AlarmInv(m)'
  <2>1. AlarmInv(m)  BY DEF DrivenInv
  <2>2. m \in Stations  BY StationsAndBuffers
  <2> QED BY <1>1, <1>2, <1>3, <2>1, <2>2 DEF AlarmInv
<1> QED BY <1>4, <1>5, <1>6 DEF DrivenInv

LEMMA WorksDriven == ASSUME LineTyped, CarriersInv, DrivenInv, Works PROVE DrivenInv'
<1>1. step.pc = "work" /\ machine' = machine  BY DEF Works, stationVars
<1>2. step'.pc = "shutdowns" /\ step'.script = <<>> /\ step'.visits = {}
  BY DEF Works, SettlesWhen, Idle
<1>3. ScriptInv'  BY <1>2 DEF ScriptInv, Scripted
<1>4. VisitsInv'  BY <1>2 DEF VisitsInv
<1>5. ASSUME NEW m \in Monitored PROVE AlarmInv(m)'
  <2>1. AlarmInv(m)  BY DEF DrivenInv
  <2>2. \/ alarm'[m] = alarm[m]
        \/ alarm'[m].on /\ alarm'[m].shutdown /\ alarm'[m].waiting
    <3>1. CASE step.station \in Monitored
      <4>1. PICK out \in BOOLEAN : Observe(step.station, out)  BY <3>1 DEF Works
      <4> QED BY <3>1, <4>1, ObserveOK
    <3>2. CASE step.station \notin Monitored  BY <3>2 DEF Works
    <3> QED BY <3>1, <3>2
  <2> QED BY <1>1, <1>2, <2>1, <2>2 DEF AlarmInv
<1> QED BY <1>3, <1>4, <1>5 DEF DrivenInv

LEMMA ScriptDriven == ASSUME LineTyped, DrivenInv, DriveScript PROVE DrivenInv'
<1> DEFINE s == step.station
           command == Head(step.script)
<1>1. /\ step.pc \in {"bringup", "restart", "reset"} /\ step.script # <<>> /\ alarm' = alarm
      /\ Drive(s, command, step.at, busy)
      /\ step'.pc = step.pc /\ step'.station = s /\ step'.script = Tail(step.script)
      /\ step'.visits = step.visits
  BY DEF DriveScript, alarmVars, LineTyped
<1>2. s \in Stations /\ step.at \in Int /\ busy \in [Stations -> Int]  BY DEF LineTyped
<1>3. /\ machine'[s] = Reaches(command) /\ \A t \in Stations \ {s} : machine'[t] = machine[t]
  BY <1>1, <1>2, DriveOK
<1>4. Fits(Tail(step.script), Reaches(command))
  <2>1. Fits(step.script, machine[s])  BY <1>1 DEF DrivenInv, ScriptInv, Scripted
  <2> QED BY <1>1, <2>1, ScriptStep
<1> HIDE DEF command
<1>5. ScriptInv'
  <2>1. IF Scripted' THEN Fits(step'.script, machine'[step'.station]) ELSE step'.script = <<>>
    BY <1>1, <1>3, <1>4 DEF Scripted
  <2>2. ASSUME step'.pc = "bringup"
        PROVE  /\ \A t \in Stations : t > step'.station => machine'[t] = "Aborted"
               /\ \A m \in Monitored : alarm'[m] = NoAlarm
    BY <1>1, <1>2, <1>3, <2>2, StationsAndBuffers DEF DrivenInv, ScriptInv
  <2>3. step'.pc \in {"restart", "reset"} =>
          step'.station \in Monitored /\ ~alarm'[step'.station].waiting
    BY <1>1 DEF DrivenInv, ScriptInv
  <2>4. (Fits(step.script, machine[step.station]))' <=> Fits(step'.script, machine'[step'.station])
    BY DEF Fits
  <2> QED BY <2>1, <2>2, <2>3, <2>4 DEF ScriptInv
<1>6. VisitsInv'  BY <1>1 DEF DrivenInv, VisitsInv
<1>7. ASSUME NEW m \in Monitored PROVE AlarmInv(m)'
  <2>1. AlarmInv(m)  BY DEF DrivenInv
  <2>2. m \in Stations  BY StationsAndBuffers
  <2>3. m = s => ~alarm[m].waiting
    <3>1. CASE step.pc = "bringup"  BY <3>1 DEF DrivenInv, ScriptInv, NoAlarm
    <3>2. CASE step.pc \in {"restart", "reset"}  BY <3>2 DEF DrivenInv, ScriptInv
    <3> QED BY <1>1, <3>1, <3>2
  <2> QED BY <1>1, <1>3, <2>1, <2>2, <2>3 DEF AlarmInv
<1> QED BY <1>5, <1>6, <1>7 DEF DrivenInv

LEMMA BringUpDriven == ASSUME LineTyped, DrivenInv, BringUpNext PROVE DrivenInv'
<1>1. /\ step.pc = "bringup" /\ UNCHANGED <<machine, alarm>>
      /\ step' = IF step.station = N THEN Idle
                 ELSE [step EXCEPT !.station = @ + 1, !.script = BringUp, !.at = -Len(BringUp)]
  BY DEF BringUpNext, stationVars, alarmVars
<1>2. step.station \in Stations /\ step.visits = {}
  BY <1>1 DEF LineTyped, DrivenInv, VisitsInv
<1>3. \A m \in Monitored : alarm[m] = NoAlarm  BY <1>1 DEF DrivenInv, ScriptInv
<1>4. \A m \in Monitored : AlarmInv(m)'  BY <1>1, <1>3 DEF AlarmInv, NoAlarm
<1>5. CASE step.station = N
  <2>1. step'.pc = "idle" /\ step'.script = <<>> /\ step'.visits = {}  BY <1>1, <1>5 DEF Idle
  <2> QED BY <1>4, <2>1 DEF DrivenInv, ScriptInv, Scripted, VisitsInv
<1>6. CASE step.station # N
  <2>1. /\ step'.pc = "bringup" /\ step'.script = BringUp /\ step'.visits = {}
        /\ step'.station = step.station + 1
    BY <1>1, <1>2, <1>6 DEF LineTyped
  <2>2. step.station + 1 \in Stations  BY <1>2, <1>6, StationsAndBuffers DEF Stations
  <2>3. \A t \in Stations : t > step.station => machine[t] = "Aborted"
    BY <1>1 DEF DrivenInv, ScriptInv
  <2>4. machine[step.station + 1] = "Aborted"  BY <1>2, <2>2, <2>3, StationsAndBuffers
  <2>5. \A t \in Stations : t > step.station + 1 => machine[t] = "Aborted"
    BY <1>2, <2>3, StationsAndBuffers
  <2>6. Fits(step'.script, machine'[step'.station])  BY <1>1, <2>1, <2>4 DEF Fits
  <2>7. (Fits(step.script, machine[step.station]))'  BY <2>6 DEF Fits
  <2>8. ScriptInv'  BY <1>1, <1>3, <2>1, <2>5, <2>7 DEF ScriptInv, Scripted
  <2>9. VisitsInv'  BY <2>1 DEF VisitsInv
  <2> QED BY <1>4, <2>8, <2>9 DEF DrivenInv
<1> QED BY <1>5, <1>6

LEMMA SettlingDriven ==
  ASSUME LineTyped, DrivenInv, VisitsFixed \/ ResetDone \/ StepEnds
  PROVE  DrivenInv'
<1>1. /\ UNCHANGED <<machine, alarm>>
      /\ step'.pc \in {"idle", "visits"} /\ step'.script = <<>>
      /\ step.pc \in {"shutdowns", "reset", "visits"}
      /\ step'.visits # {} => step'.pc = "visits"
      /\ step.pc = "shutdowns" => \A m \in Monitored : ~alarm[m].shutdown
      /\ \A m \in step'.visits :
           \/ m \in step.visits
           \/ m \in Monitored /\ alarm[m].waiting /\ ~alarm[m].shutdown
  <2>1. CASE VisitsFixed
    <3>1. /\ UNCHANGED <<machine, alarm>> /\ step.pc = "shutdowns" /\ ~ShutdownsLeft
          /\ step' = IF Visits = {} THEN Idle ELSE [step EXCEPT !.pc = "visits", !.visits = Visits]
      BY <2>1 DEF VisitsFixed, stationVars, alarmVars
    <3>2. step.script = <<>>  BY <3>1 DEF DrivenInv, ScriptInv, Scripted
    <3>3. CASE Visits = {}  BY <3>1, <3>3 DEF Idle, ShutdownsLeft
    <3>4. CASE Visits # {}
      <4>1. step'.pc = "visits" /\ step'.visits = Visits /\ step'.script = <<>>
        BY <3>1, <3>2, <3>4 DEF LineTyped
      <4> QED BY <3>1, <4>1 DEF Visits, ShutdownsLeft
    <3> QED BY <3>3, <3>4
  <2>2. CASE ResetDone  BY <2>2 DEF ResetDone, Idle, stationVars, alarmVars
  <2>3. CASE StepEnds  BY <2>3 DEF StepEnds, Idle, stationVars, alarmVars
  <2> QED BY <2>1, <2>2, <2>3
<1>2. ScriptInv'  BY <1>1 DEF ScriptInv, Scripted
<1>3. VisitsInv'
  <2>1. \A m \in step'.visits : alarm[m].waiting /\ ~alarm[m].shutdown
    BY <1>1 DEF DrivenInv, VisitsInv
  <2> QED BY <1>1, <2>1 DEF VisitsInv
<1>4. ASSUME NEW m \in Monitored PROVE AlarmInv(m)'
  <2>1. AlarmInv(m)  BY DEF DrivenInv
  <2>2. ~alarm[m].shutdown  BY <1>1, <2>1 DEF AlarmInv
  <2>3. ~(alarm[m].on /\ ~alarm[m].waiting)  BY <1>1, <2>1 DEF AlarmInv
  <2> QED BY <1>1, <2>1, <2>2, <2>3 DEF AlarmInv
<1> QED BY <1>2, <1>3, <1>4 DEF DrivenInv

LEMMA ClearDriven == ASSUME LineTyped, DrivenInv, Clear PROVE DrivenInv'
<1> DEFINE s == step.station
<1>1. /\ step.pc = "restart" /\ step.script = <<>> /\ machine' = machine
      /\ alarm' = [alarm EXCEPT ![s] = NoAlarm]
      /\ \/ step' = [Idle EXCEPT !.pc = "visits", !.visits = step.visits]
         \/ step' = [step EXCEPT !.pc = "reset", !.script = ResetInPlace]
  BY DEF Clear, stationVars
<1>2. s \in Monitored /\ ~alarm[s].waiting  BY <1>1 DEF DrivenInv, ScriptInv
<1>3. alarm'[s] = NoAlarm /\ \A m \in Monitored \ {s} : alarm'[m] = alarm[m]
  BY <1>1, <1>2 DEF LineTyped
<1>4. machine[s] = "Execute"
  <2>1. Fits(<<>>, machine[s])  BY <1>1 DEF DrivenInv, ScriptInv, Scripted
  <2>2. <<>> # BringUp /\ <<>> # ResetInPlace /\ <<>> # <<"Reset", "Start">> /\ <<>> # <<"Start">>
    BY DEF BringUp, ResetInPlace
  <2> QED BY <2>1, <2>2 DEF Fits
<1>5. step'.visits = step.visits /\ step'.pc \in {"visits", "reset"}
  <2>1. CASE step' = [Idle EXCEPT !.pc = "visits", !.visits = step.visits]
    BY <2>1 DEF Idle
  <2>2. CASE step' = [step EXCEPT !.pc = "reset", !.script = ResetInPlace]
    BY <2>2 DEF LineTyped
  <2> QED BY <1>1, <2>1, <2>2
<1>6. ScriptInv'
  <2>1. CASE step' = [Idle EXCEPT !.pc = "visits", !.visits = step.visits]
    BY <2>1 DEF Idle, ScriptInv, Scripted
  <2>2. CASE step' = [step EXCEPT !.pc = "reset", !.script = ResetInPlace]
    <3>1. step'.pc = "reset" /\ step'.script = ResetInPlace /\ step'.station = s
      BY <2>2 DEF LineTyped
    <3>2. (Fits(step.script, machine[step.station]))'  BY <1>1, <1>4, <3>1 DEF Fits
    <3>3. ~alarm'[s].waiting  BY <1>3 DEF NoAlarm
    <3> QED BY <1>2, <3>1, <3>2, <3>3 DEF ScriptInv, Scripted
  <2> QED BY <1>1, <2>1, <2>2
<1>7. VisitsInv'
  <2>1. \A m \in step.visits : m \in Monitored /\ alarm[m].waiting /\ ~alarm[m].shutdown
    BY DEF DrivenInv, VisitsInv, LineTyped
  <2>2. \A m \in step.visits : alarm'[m] = alarm[m]  BY <1>2, <1>3, <2>1
  <2> QED BY <1>5, <2>1, <2>2 DEF VisitsInv
<1>8. ASSUME NEW m \in Monitored PROVE AlarmInv(m)'
  <2>1. CASE m = s  BY <1>3, <2>1 DEF AlarmInv, NoAlarm
  <2>2. CASE m # s
    <3>1. AlarmInv(m)  BY DEF DrivenInv
    <3> QED BY <1>1, <1>3, <2>2, <3>1 DEF AlarmInv
  <2> QED BY <2>1, <2>2
<1> QED BY <1>6, <1>7, <1>8 DEF DrivenInv

LEMMA ShutDownDriven ==
  ASSUME LineTyped, DrivenInv, NEW s \in Monitored, ShutDown(s) PROVE DrivenInv'
<1>1. /\ step.pc = "shutdowns" /\ alarm[s].shutdown /\ step' = step
      /\ Drive(s, "Abort", alarm[s].raised, busy)
      /\ alarm' = [alarm EXCEPT ![s].shutdown = FALSE]
  BY DEF ShutDown
<1>2. s \in Stations /\ busy \in [Stations -> Int] /\ alarm[s].raised \in Int
  BY StationsAndBuffers DEF LineTyped, Alarms
<1>3. machine'[s] = "Aborted" /\ \A t \in Stations \ {s} : machine'[t] = machine[t]
  BY <1>1, <1>2, DriveOK, Refusals
<1>4. step.script = <<>> /\ step.visits = {}
  BY <1>1 DEF DrivenInv, ScriptInv, VisitsInv, Scripted
<1>5. ScriptInv' /\ VisitsInv'  BY <1>1, <1>4 DEF ScriptInv, VisitsInv, Scripted
<1>6. ASSUME NEW m \in Monitored PROVE AlarmInv(m)'
  <2>1. AlarmInv(m)  BY DEF DrivenInv
  <2>2. CASE m = s
    <3>1. /\ alarm'[s].on = alarm[s].on /\ alarm'[s].waiting = alarm[s].waiting
          /\ ~alarm'[s].shutdown
      BY <1>1 DEF LineTyped, Alarms
    <3>2. alarm[s].on /\ alarm[s].waiting
      BY <1>1, <2>1, <2>2 DEF AlarmInv, NoAlarm
    <3> QED BY <1>3, <2>2, <3>1, <3>2 DEF AlarmInv
  <2>3. CASE m # s
    <3>1. alarm'[m] = alarm[m] /\ m \in Stations  BY <1>1, <2>3, StationsAndBuffers DEF LineTyped
    <3> QED BY <1>1, <1>3, <2>1, <2>3, <3>1 DEF AlarmInv
  <2> QED BY <2>2, <2>3
<1> QED BY <1>5, <1>6 DEF DrivenInv

\* The operator finds the station Aborted: his visit comes after its shutdown, and nothing else
\* drives a station whose alarm waits.
LEMMA InterveneDriven ==
  ASSUME LineTyped, DrivenInv, NEW s \in Monitored, Intervene(s) PROVE DrivenInv'
<1>1. /\ step.pc = "visits" /\ s \in step.visits /\ machine' = machine
      /\ alarm' = [alarm EXCEPT ![s].waiting = FALSE]
      /\ step' = [step EXCEPT !.pc = "restart", !.station = s, !.script = BringUp,
                              !.at = alarm[s].due, !.visits = @ \ {s}]
  BY DEF Intervene, stationVars
<1>2. /\ step'.pc = "restart" /\ step'.station = s /\ step'.script = BringUp
      /\ step'.visits = step.visits \ {s}
  BY <1>1 DEF LineTyped
<1>3. /\ ~alarm'[s].waiting /\ alarm'[s].on = alarm[s].on /\ alarm'[s].shutdown = alarm[s].shutdown
      /\ \A m \in Monitored \ {s} : alarm'[m] = alarm[m]
  BY <1>1 DEF LineTyped, Alarms
<1>4. alarm[s].waiting /\ ~alarm[s].shutdown  BY <1>1 DEF DrivenInv, VisitsInv
<1>5. AlarmInv(s)  BY DEF DrivenInv
<1>6. machine[s] = "Aborted" /\ alarm[s].on  BY <1>4, <1>5 DEF AlarmInv, NoAlarm
<1>7. ScriptInv'
  <2>1. (Fits(step.script, machine[step.station]))'  BY <1>1, <1>2, <1>6 DEF Fits
  <2> QED BY <1>2, <1>3, <2>1 DEF ScriptInv, Scripted
<1>8. VisitsInv'
  <2>1. \A m \in step.visits : m \in Monitored /\ alarm[m].waiting /\ ~alarm[m].shutdown
    BY DEF DrivenInv, VisitsInv, LineTyped
  <2> QED BY <1>2, <1>3, <2>1 DEF VisitsInv
<1>9. ASSUME NEW m \in Monitored PROVE AlarmInv(m)'
  <2>1. CASE m = s  BY <1>2, <1>3, <1>4, <1>6, <2>1 DEF AlarmInv
  <2>2. CASE m # s
    <3>1. AlarmInv(m)  BY DEF DrivenInv
    <3> QED BY <1>1, <1>3, <2>2, <3>1 DEF AlarmInv
  <2> QED BY <2>1, <2>2
<1> QED BY <1>7, <1>8, <1>9 DEF DrivenInv

LEMMA OthersDriven ==
  ASSUME LineTyped, DrivenInv,
         \/ \E s \in Monitored : Acknowledge(s)
         \/ \E s \in Holdable : HoldOrUnhold(s)
  PROVE  DrivenInv'
<1>1. ASSUME NEW s \in Monitored, Acknowledge(s) PROVE DrivenInv'
  <2>1. /\ machine' = machine /\ step' = step /\ alarm[s].waiting
        /\ alarm'[s].on = alarm[s].on /\ alarm'[s].shutdown = alarm[s].shutdown
        /\ alarm'[s].waiting = alarm[s].waiting
        /\ \A m \in Monitored \ {s} : alarm'[m] = alarm[m]
    BY <1>1 DEF Acknowledge, stationVars, LineTyped, Alarms
  <2>2. AlarmInv(s)  BY DEF DrivenInv
  <2>3. alarm[s].on  BY <2>1, <2>2 DEF AlarmInv, NoAlarm
  <2>4. step.pc # "bringup"  BY <2>1 DEF DrivenInv, ScriptInv, NoAlarm
  <2>5. ScriptInv'
    <3>1. step.pc \in {"restart", "reset"} =>
            step.station \in Monitored /\ ~alarm'[step.station].waiting
      BY <2>1 DEF DrivenInv, ScriptInv
    <3> QED BY <2>1, <2>4, <3>1 DEF DrivenInv, ScriptInv, Scripted, Fits
  <2>6. VisitsInv'  BY <2>1 DEF DrivenInv, VisitsInv, LineTyped
  <2>7. ASSUME NEW m \in Monitored PROVE AlarmInv(m)'
    <3>1. AlarmInv(m)  BY DEF DrivenInv
    <3> QED BY <2>1, <2>3, <3>1 DEF AlarmInv
  <2> QED BY <2>5, <2>6, <2>7 DEF DrivenInv
<1>2. ASSUME NEW s \in Holdable, HoldOrUnhold(s) PROVE DrivenInv'
  <2>1. step.pc = "idle" /\ step' = step /\ alarm' = alarm  BY <1>2 DEF HoldOrUnhold, alarmVars
  <2>2. PICK command \in {"Hold", "Unhold"} : Drive(s, command, 0, busy)
    BY <1>2 DEF HoldOrUnhold
  <2>3. s \in Stations /\ busy \in [Stations -> Int] /\ 0 \in Int  BY LineAssumption DEF LineTyped
  <2>4. machine[s] # "Aborted" /\ \A t \in Stations \ {s} : machine'[t] = machine[t]
    <3>1. /\ command \in Commands /\ machine[s] \in Accepts[command]
          /\ \A t \in Stations \ {s} : machine'[t] = machine[t]
      BY <2>2, <2>3, DriveOK
    <3>2. command # "Clear" /\ command # "Abort"  OBVIOUS
    <3> QED BY <3>1, <3>2, Refusals
  <2>5. ScriptInv' /\ VisitsInv'  BY <2>1 DEF DrivenInv, ScriptInv, VisitsInv, Scripted
  <2>6. ASSUME NEW m \in Monitored PROVE AlarmInv(m)'
    <3>1. AlarmInv(m) /\ m \in Stations  BY StationsAndBuffers DEF DrivenInv
    <3> QED BY <2>1, <2>4, <3>1 DEF AlarmInv
  <2> QED BY <2>5, <2>6 DEF DrivenInv
<1> QED BY <1>1, <1>2

LEMMA DrivenStep == ASSUME LoadedInv, DrivenInv, [Next]_vars PROVE DrivenInv'
<1>1. LineTyped /\ CarriersInv  BY DEF LoadedInv, LoadInv
<1>2. CASE UNCHANGED vars
  <2> USE <1>2 DEF vars, lineVars, stationVars, alarmVars
  <2>1. ScriptInv'  BY DEF DrivenInv, ScriptInv, Scripted, Fits
  <2>2. VisitsInv'  BY DEF DrivenInv, VisitsInv
  <2>3. \A m \in Monitored : AlarmInv(m)'  BY DEF DrivenInv, AlarmInv
  <2> QED BY <2>1, <2>2, <2>3 DEF DrivenInv
<1>3. CASE Aside
  BY <1>1, <1>3, ScriptDriven, BringUpDriven, SettlingDriven, ClearDriven, ShutDownDriven,
     InterveneDriven, OthersDriven DEF Aside
<1>4. CASE Works  BY <1>1, <1>4, WorksDriven
<1>5. ASSUME NEW s \in Stations, Stays(s) \/ Suspends(s) \/ Takes(s) PROVE DrivenInv'
  BY <1>1, <1>5, CycleDriven
<1> QED BY <1>2, <1>3, <1>4, <1>5, NextCases

DriverInv == LoadedInv /\ DrivenInv

LEMMA DriverAlways == Spec => []DriverInv
<1>1. Init => DriverInv  BY InitTyped, InitLoad, InitDriven DEF DriverInv, LoadedInv
<1>2. DriverInv /\ [Next]_vars => DriverInv'  BY LoadedStep, DrivenStep DEF DriverInv
<1> QED BY <1>1, <1>2, PTL DEF Spec

\* No command is ever refused and no buffer put beyond its capacity, the exceptions that would
\* end the one driver: in particular an operator restarts only a station that is Aborted,
\* however early the button was pressed (line.py's _drive and restart, alarms.py's settle,
\* buffers.py's put).
THEOREM NothingIsRefused == Spec => []NothingRaises
<1>1. DriverInv => NothingRaises
  <2> SUFFICES ASSUME DriverInv PROVE NothingRaises  OBVIOUS
  <2>1. ASSUME step.script # <<>> PROVE machine[step.station] \in Accepts[Head(step.script)]
    <3>1. Fits(step.script, machine[step.station])
      BY <2>1 DEF DriverInv, DrivenInv, ScriptInv
    <3> QED BY <2>1, <3>1, ScriptStep
  <2>2. ASSUME step.pc = "work", step.station < N PROVE ~IsFull(Downstream(step.station))
    <3>1. step.station \in Buffers  BY <2>2, StationsAndBuffers DEF DriverInv, LoadedInv, LineTyped
    <3>2. Len(buffer[step.station]) \in Nat /\ Capacity \in Nat
      BY <3>1, LineAssumption, LenProperties DEF DriverInv, LoadedInv, LineTyped
    <3> QED BY <2>2, <3>2 DEF DriverInv, LoadedInv, LoadInv, RoomInv, IsFull, Downstream
  <2> QED BY <2>1, <2>2 DEF NothingRaises
<1> QED BY <1>1, DriverAlways, PTL

-----------------------------------------------------------------------------
(* An alarm is cleared before the next one is raised.                        *)

\* What is arithmetic in a state.
Counts ==
  /\ \A s \in Stations : busy[s] \in Int /\ due[s] \in Nat
  /\ \A m \in Monitored :
       /\ m \in Stations /\ cleared[m] \in Int /\ tolerance[m] \in Nat
       /\ alarm[m].raised \in Int /\ alarm[m].due \in Int
  /\ Left \in Nat /\ step.at \in Int /\ step.station \in Stations
  /\ step.visits \subseteq Monitored /\ Len(BringUp) = 3

LEMMA TypedCounts == LineTyped => Counts
<1> SUFFICES ASSUME LineTyped PROVE Counts  OBVIOUS
<1>1. \A s \in Stations : busy[s] \in Int /\ due[s] \in Nat  BY DEF LineTyped
<1>2. \A m \in Monitored : m \in Stations /\ cleared[m] \in Int
  BY StationsAndBuffers DEF LineTyped
<1>3. \A m \in Monitored : tolerance[m] \in Nat  BY LineAssumption DEF LineTyped
<1>4. \A m \in Monitored : alarm[m].raised \in Int /\ alarm[m].due \in Int
  BY DEF LineTyped, Alarms
<1>5. step.at \in Int /\ step.station \in Stations /\ step.visits \subseteq Monitored
      /\ step.script \in Seq(Commands)
  BY DEF LineTyped
<1>6. Left \in Nat  BY <1>5, LenProperties DEF Left
<1> QED BY <1>1, <1>2, <1>3, <1>4, <1>5, <1>6, WaitingAfterACommand DEF Counts

LEMMA InitInstants == Init => InstantsInv
<1> SUFFICES ASSUME Init PROVE InstantsInv  OBVIOUS
<1>1. /\ step.pc = "bringup" /\ step.script = BringUp /\ step.at = -Len(BringUp) /\ step.visits = {}
      /\ due = [s \in Stations |-> 0] /\ busy = [s \in Stations |-> -Horizon]
      /\ machine = [s \in Stations |-> "Aborted"] /\ alarm = [m \in Monitored |-> NoAlarm]
      /\ tolerance = [m \in Monitored |-> 0] /\ cleared = [m \in Monitored |-> -Horizon]
  BY DEF Init, Idle
<1>2. Horizon \in Nat \ {0} /\ Len(BringUp) = 3 /\ Left = 3
  BY <1>1, LineAssumption, WaitingAfterACommand DEF Left
<1>3. ASSUME NEW s \in Stations PROVE StationInstants(s)
  <2>1. busy[s] = -Horizon /\ due[s] = 0 /\ step.at = -3  BY <1>1, <1>2
  <2> QED BY <1>1, <1>2, <2>1 DEF StationInstants, Ahead
<1>4. ASSUME NEW m \in Monitored PROVE AlarmInstants(m)
  <2>1. /\ m \in Stations /\ due[m] = 0 /\ cleared[m] = -Horizon /\ tolerance[m] = 0
        /\ alarm[m] = NoAlarm /\ machine[m] = "Aborted"
    BY <1>1, StationsAndBuffers
  <2>2. Resting(m)  BY <1>2, <2>1 DEF Resting
  <2>3. Counting(m) /\ Raised(m)  BY <1>1, <2>1 DEF Counting, Raised, NoAlarm
  <2>4. Working(m) /\ Recovering(m)  BY <1>1, <2>1 DEF Working, Recovering
  <2> QED BY <2>2, <2>3, <2>4 DEF AlarmInstants
<1> QED BY <1>3, <1>4 DEF InstantsInv

\* A cycle brings a station's rows no further ahead of its next cycle, and its own, by more
\* than a restart lasts, back.
LEMMA CycleAhead ==
  ASSUME LineTyped, LineTyped', NEW s \in Stations, Stays(s) \/ Suspends(s) \/ Takes(s),
         NEW n \in Int, n >= -1
  PROVE  /\ \A t \in Stations \ {s} : Ahead(t) <= n => Ahead(t)' <= n
         /\ Ahead(s) <= n => Ahead(s)' <= n - 3 /\ (machine'[s] = machine[s] => Ahead(s)' <= n - 4)
         /\ \A m \in Monitored \ {s} : cleared[m] - due[m] <= n => cleared'[m] - due'[m] <= n
         /\ s \in Monitored /\ cleared[s] - due[s] <= n => cleared'[s] <= n
<1>1. Counts /\ Counts'
  <2>1. Counts  BY TypedCounts
  <2>2. (LineTyped => Counts)'  BY TypedCounts, PTL
  <2> QED BY <2>1, <2>2
<1>2. /\ due[s] \in Nat /\ due'[s] > 3 /\ \A t \in Stations \ {s} : due'[t] = due[t] - due[s]
      /\ \A t \in Stations \ {s} : due[s] <= due[t]
      /\ \A m \in Monitored : cleared'[m] = Older(cleared[m], due[s], Floor(m))
      /\ \A t \in Stations : SeenAfter(due[s])[t] = Older(busy[t], due[s], Floor(t))
  <2>1. Pop(s)  BY CycleOK
  <2>2. due'[s] > Len(BringUp) /\ Len(BringUp) = 3  BY <2>1, PopOK, WaitingAfterACommand
  <2>3. \A t \in Stations \ {s} : due'[t] = due[t] - due[s] /\ due[s] <= due[t]  BY <2>1, PopOK
  <2>4. /\ \A m \in Monitored : cleared'[m] = Older(cleared[m], due[s], Floor(m))
        /\ \A t \in Stations : SeenAfter(due[s])[t] = Older(busy[t], due[s], Floor(t))
    BY <2>1, PopOK
  <2> QED BY <1>1, <2>2, <2>3, <2>4 DEF Counts
<1>3. \A t \in Stations : Floor(t) \in Int /\ Floor(t) <= -1  BY LineAssumption DEF Floor
<1>4. \A t \in Stations : Older(busy[t], due[s], Floor(t)) \in Int
  BY <1>1, <1>2, <1>3 DEF Counts, Older
<1>5. ASSUME NEW t \in Stations \ {s}, Ahead(t) <= n PROVE Ahead(t)' <= n
  <2>1. busy'[t] = Older(busy[t], due[s], Floor(t))  BY <1>2, CycleOK
  <2>2. /\ busy[t] \in Int /\ due[t] \in Nat /\ Floor(t) \in Int /\ Floor(t) <= -1
        /\ due'[t] = due[t] - due[s] /\ due[s] <= due[t] /\ busy[t] - due[t] <= n
    BY <1>1, <1>2, <1>3, <1>5 DEF Counts, Ahead
  <2>3. busy[t] - due[s] <= n + due'[t] /\ Floor(t) <= n + due'[t] /\ n + due'[t] \in Int
    BY <1>2, <2>2
  <2>4. busy'[t] <= n + due'[t]  BY <1>2, <2>1, <2>2, <2>3 DEF Older
  <2>5. busy'[t] \in Int /\ due'[t] \in Int  BY <1>1 DEF Counts
  <2> QED BY <2>4, <2>5 DEF Ahead
<1>6. ASSUME Ahead(s) <= n
      PROVE  Ahead(s)' <= n - 3 /\ (machine'[s] = machine[s] => Ahead(s)' <= n - 4)
  <2> DEFINE seen == Older(busy[s], due[s], Floor(s))
  <2>1. seen \in Int /\ seen <= n
    <3>1. busy[s] - due[s] <= n /\ Floor(s) <= n /\ Floor(s) \in Int /\ busy[s] \in Int
      BY <1>1, <1>3, <1>6 DEF Counts, Ahead
    <3> QED BY <1>2, <3>1 DEF Older
  <2>2. SeenAfter(due[s])[s] = seen  BY <1>2
  <2> HIDE DEF seen
  <2>3. busy'[s] \in Int /\ due'[s] \in Int  BY <1>1 DEF Counts
  <2>4. CASE machine'[s] = machine[s] /\ busy'[s] = SeenAfter(due[s])[s]
    BY <1>2, <2>1, <2>2, <2>3, <2>4 DEF Ahead
  <2>5. CASE machine'[s] # machine[s] /\ busy'[s] = PublishedAt(SeenAfter(due[s])[s], 0)
    <3>1. PublishedAt(seen, 0) <= n + 1
      <4>1. seen < n + 1 /\ 0 <= n + 1 /\ n + 1 \in Int /\ 0 \in Int  BY <2>1
      <4> QED BY <2>1, <4>1, Published
    <3> QED BY <1>2, <2>2, <2>3, <2>5, <3>1 DEF Ahead
  <2> QED BY <2>4, <2>5, CycleOK
<1>7. ASSUME NEW m \in Monitored \ {s}, cleared[m] - due[m] <= n
      PROVE  cleared'[m] - due'[m] <= n
  <2>1. /\ cleared[m] \in Int /\ due[m] \in Nat /\ Floor(m) \in Int /\ Floor(m) <= -1
        /\ due'[m] = due[m] - due[s] /\ due[s] <= due[m] /\ m \in Stations
        /\ cleared'[m] = Older(cleared[m], due[s], Floor(m))
    BY <1>1, <1>2, <1>3 DEF Counts
  <2>2. cleared[m] - due[s] <= n + due'[m] /\ Floor(m) <= n + due'[m] /\ n + due'[m] \in Int
    BY <1>2, <1>7, <2>1
  <2>3. cleared'[m] <= n + due'[m]  BY <1>2, <2>1, <2>2 DEF Older
  <2>4. cleared'[m] \in Int /\ due'[m] \in Int  BY <1>1, <2>1 DEF Counts
  <2> QED BY <2>3, <2>4
<1>8. ASSUME s \in Monitored, cleared[s] - due[s] <= n PROVE cleared'[s] <= n
  <2>1. /\ cleared[s] \in Int /\ Floor(s) \in Int /\ Floor(s) <= -1
        /\ cleared'[s] = Older(cleared[s], due[s], Floor(s))
    BY <1>1, <1>2, <1>3, <1>8 DEF Counts
  <2> QED BY <1>2, <1>8, <2>1 DEF Older
<1> QED BY <1>5, <1>6, <1>7, <1>8

LEMMA CycleInstants ==
  ASSUME LineTyped, LineTyped', DrivenInv, InstantsInv,
         NEW s \in Stations, Stays(s) \/ Suspends(s) \/ Takes(s)
  PROVE  InstantsInv'
<1>0. Counts /\ Counts'
  <2>1. (LineTyped => Counts)'  BY TypedCounts, PTL
  <2> QED BY <2>1, TypedCounts
<1>1. Pop(s)  BY CycleOK
<1>2. /\ step.pc = "idle" /\ tolerance' = tolerance /\ due'[s] > Len(BringUp) /\ Len(BringUp) = 3
      /\ \A m \in Monitored :
           /\ alarm'[m].on = alarm[m].on /\ alarm'[m].shutdown = alarm[m].shutdown
           /\ alarm'[m].waiting = alarm[m].waiting
  BY <1>1, PopOK, WaitingAfterACommand
<1>3. \A m \in Monitored :
        /\ cleared'[m] = Older(cleared[m], due[s], Floor(m))
        /\ alarm[m].on => alarm'[m].raised = Older(alarm[m].raised, due[s], -Horizon)
  BY <1>1, PopOK
<1>4. /\ step'.pc \in {"work", "shutdowns"} /\ step'.visits = {}
      /\ step'.pc = "work" => step'.station = s /\ Takes(s) /\ machine[s] \notin {"Held", "Aborted"}
  BY DEF Stays, Suspends, Takes, SettlesWhen, Idle
<1>5. ASSUME NEW t \in Stations PROVE StationInstants(t)'
  <2>1. Ahead(t) <= 5 /\ Ahead(s) <= 5  BY DEF InstantsInv, StationInstants
  <2>2. Ahead(t)' <= 5
    <3>1. CASE t = s
      <4>1. Ahead(s)' <= 5 - 3  BY <2>1, CycleAhead
      <4>2. Ahead(s)' \in Int  BY <1>0 DEF Counts, Ahead
      <4> QED BY <3>1, <4>1, <4>2
    <3>2. CASE t # s  BY <2>1, <3>2, CycleAhead
    <3> QED BY <3>1, <3>2
  <2> QED BY <1>4, <2>2 DEF StationInstants
<1>6. ASSUME NEW m \in Monitored PROVE AlarmInstants(m)'
  <2>1. /\ m \in Stations /\ Ahead(m) \in Int /\ Ahead(m)' \in Int /\ due[m] \in Nat /\ due'[m] \in Nat
        /\ cleared[m] \in Int /\ cleared'[m] \in Int /\ tolerance[m] \in Nat
    BY <1>0 DEF Counts, Ahead
  <2>2. /\ AlarmInv(m) /\ Resting(m) /\ Counting(m) /\ Raised(m)
    BY DEF DrivenInv, InstantsInv, AlarmInstants
  <2>3. /\ ~alarm[m].shutdown
        /\ alarm[m].on => alarm[m].waiting /\ machine[m] = "Aborted"
    BY <1>2, <2>2 DEF AlarmInv
  <2>4. ASSUME NEW n \in Int, n >= -1, Ahead(m) <= n
        PROVE  Ahead(m)' <= n /\ (m = s => Ahead(m)' <= n - 3)
               /\ (m = s /\ machine'[s] = machine[s] => Ahead(m)' <= n - 4)
    <3>1. CASE m = s
      <4>1. Ahead(s)' <= n - 3 /\ (machine'[s] = machine[s] => Ahead(s)' <= n - 4)
        BY <2>4, <3>1, CycleAhead
      <4> QED BY <2>1, <3>1, <4>1
    <3>2. CASE m # s  BY <2>1, <2>4, <3>2, CycleAhead
    <3> QED BY <3>1, <3>2
  <2>5. ASSUME NEW n \in Int, n >= -1, cleared[m] - due[m] <= n
        PROVE  cleared'[m] - due'[m] <= n /\ (m = s => cleared'[m] <= n)
    <3>1. CASE m = s
      <4>1. cleared'[s] <= n  BY <2>5, <3>1, CycleAhead
      <4> QED BY <2>1, <3>1, <4>1
    <3>2. CASE m # s  BY <2>1, <2>5, <3>2, CycleAhead
    <3> QED BY <3>1, <3>2
  <2>6. Resting(m)'
    <3> SUFFICES ASSUME ~alarm'[m].on, tolerance'[m] = 0
                 PROVE  /\ cleared'[m] - due'[m] <= 3
                        /\ machine'[m] = "Suspended" => Ahead(m)' <= 4
      BY DEF Resting
    <3>1. cleared[m] - due[m] <= 3 /\ (machine[m] = "Suspended" => Ahead(m) <= 4)
      BY <1>2, <2>2 DEF Resting
    <3>2. Ahead(m) <= 5  BY <2>1 DEF InstantsInv, StationInstants
    <3>3. CASE m = s
      <4>1. Ahead(m)' <= 5 - 3  BY <2>4, <3>2, <3>3
      <4> QED BY <2>1, <2>5, <3>1, <4>1
    <3>4. CASE m # s
      <4>1. machine'[m] = machine[m]  BY <2>1, <3>4, CycleOK
      <4> QED BY <2>4, <2>5, <3>1, <4>1
    <3> QED BY <3>3, <3>4
  <2>7. Counting(m)'
    <3> SUFFICES ASSUME tolerance'[m] > 0
                 PROVE  ~alarm'[m].on /\ Ahead(m)' <= 1 /\ cleared'[m] <= due'[m]
      BY DEF Counting
    <3>1. ~alarm[m].on /\ Ahead(m) <= 1 /\ cleared[m] <= due[m]  BY <1>2, <2>2 DEF Counting
    <3>2. cleared'[m] - due'[m] <= 0
      <4>1. cleared[m] - due[m] <= 0  BY <2>1, <3>1
      <4> QED BY <2>5, <4>1
    <3> QED BY <1>2, <2>1, <2>4, <3>1, <3>2
  <2>8. Raised(m)'
    <3>1. ASSUME alarm'[m].on PROVE cleared'[m] <= alarm'[m].raised /\ alarm'[m].raised <= 0
      <4>1. alarm[m].on /\ cleared[m] <= alarm[m].raised /\ alarm[m].raised <= 0
        BY <1>2, <2>2, <3>1 DEF Raised
      <4>2. Floor(m) = -Horizon /\ -Horizon \in Int /\ -Horizon <= 0
        BY <4>1, LineAssumption DEF Floor
      <4>3. due[s] \in Nat /\ alarm[m].raised \in Int  BY <1>0 DEF Counts
      <4> QED BY <1>3, <2>1, <4>1, <4>2, <4>3 DEF Older
    <3>2. ~alarm'[m].shutdown  BY <1>2, <2>3
    <3>3. ASSUME alarm'[m].waiting PROVE Ahead(m)' <= -1
      <4>1. Ahead(m) <= -1  BY <1>2, <2>2, <2>3, <3>3 DEF Raised
      <4> QED BY <2>4, <4>1
    <3> QED BY <1>4, <3>1, <3>2, <3>3 DEF Raised
  <2>9. Working(m)'
    <3> SUFFICES ASSUME step'.pc = "work", m = step'.station
                 PROVE  /\ due'[m] > Len(BringUp) /\ ~alarm'[m].on
                        /\ Ahead(m)' <= 1 /\ cleared'[m] <= 3
                        /\ tolerance'[m] > 0 => Ahead(m)' <= -2 /\ cleared'[m] <= 0
      BY DEF Working
    <3>1. m = s /\ ~alarm[m].on  BY <1>4, <2>3
    <3>2. Ahead(m) <= 5  BY <2>1 DEF InstantsInv, StationInstants
    <3>3. CASE tolerance[m] > 0
      <4>1. Ahead(m) <= 1 /\ cleared[m] - due[m] <= 0  BY <2>1, <2>2, <3>3 DEF Counting
      <4>2. Ahead(m)' <= 1 - 3 /\ cleared'[m] <= 0  BY <2>4, <2>5, <3>1, <4>1
      <4> QED BY <1>2, <2>1, <3>1, <4>2
    <3>4. CASE tolerance[m] = 0
      <4>1. cleared[m] - due[m] <= 3 /\ (machine[m] = "Suspended" => Ahead(m) <= 4)
        BY <2>2, <3>1, <3>4 DEF Resting
      <4>2. cleared'[m] <= 3  BY <2>5, <3>1, <4>1
      <4>3. Ahead(m)' <= 1
        <5>1. CASE machine'[s] = machine[s]
          <6>1. Ahead(m)' <= 5 - 4  BY <2>4, <3>1, <3>2, <5>1
          <6> QED BY <2>1, <6>1
        <5>2. CASE machine'[s] # machine[s]
          <6>1. ~Suspends(s)  BY <1>4 DEF Suspends, SettlesWhen, Idle
          <6>2. machine[m] = "Suspended"  BY <3>1, <5>2, <6>1, CycleOK
          <6>3. Ahead(m)' <= 4 - 3  BY <2>4, <3>1, <4>1, <6>2
          <6> QED BY <2>1, <6>3
        <5> QED BY <5>1, <5>2
      <4> QED BY <1>2, <3>1, <3>4, <4>2, <4>3
    <3> QED BY <2>1, <3>3, <3>4
  <2>10. Recovering(m)'  BY <1>4 DEF Recovering
  <2> QED BY <2>6, <2>7, <2>8, <2>9, <2>10 DEF AlarmInstants
<1> QED BY <1>5, <1>6 DEF InstantsInv

\* An alarm is raised only on the second reading out of band or a later one, a cycle after the
\* first, when the last alarm was cleared.
LEMMA WorksInstants ==
  ASSUME Needed >= 2, LineTyped, LineTyped', DrivenInv, InstantsInv, Works
  PROVE  InstantsInv'
<1>s. PICK s \in Stations : s = step.station  BY DEF LineTyped
<1>0. Counts /\ Counts'
  <2>1. (LineTyped => Counts)'  BY TypedCounts, PTL
  <2> QED BY <2>1, TypedCounts
<1>1. /\ step.pc = "work" /\ machine' = machine /\ busy' = busy /\ due' = due /\ cleared' = cleared
      /\ step'.pc = "shutdowns" /\ step'.visits = {}
  BY DEF Works, SettlesWhen, Idle, stationVars
<1>2. \A t \in Stations : Ahead(t)' = Ahead(t)  BY <1>1 DEF Ahead
<1>3. \A t \in Stations : StationInstants(t)'
  BY <1>1, <1>2 DEF InstantsInv, StationInstants
<1>4. ASSUME NEW m \in Monitored, alarm'[m] = alarm[m], tolerance'[m] = tolerance[m], m # s
      PROVE  AlarmInstants(m)'
  <2>1. Ahead(m)' = Ahead(m)  BY <1>0, <1>2 DEF Counts
  <2>2. Resting(m) /\ Counting(m) /\ Raised(m)  BY DEF InstantsInv, AlarmInstants
  <2>3. Resting(m)'  BY <1>1, <1>4, <2>1, <2>2 DEF Resting
  <2>4. Counting(m)'  BY <1>1, <1>4, <2>1, <2>2 DEF Counting
  <2>5. Raised(m)'  BY <1>1, <1>4, <2>1, <2>2 DEF Raised
  <2>6. Working(m)' /\ Recovering(m)'  BY <1>1 DEF Working, Recovering
  <2> QED BY <2>3, <2>4, <2>5, <2>6 DEF AlarmInstants
<1>5. CASE s \notin Monitored
  <2>1. UNCHANGED <<tolerance, alarm>>  BY <1>s, <1>5 DEF Works
  <2> QED BY <1>3, <1>4, <1>5, <2>1 DEF InstantsInv
<1>6. CASE s \in Monitored
  <2>1. PICK out \in BOOLEAN : Observe(s, out)  BY <1>s, <1>6 DEF Works
  <2>2. /\ tolerance'[s] = Counted(s, out)
        /\ \A m \in Monitored \ {s} : tolerance'[m] = tolerance[m] /\ alarm'[m] = alarm[m]
        /\ \/ alarm' = alarm
           \/ /\ out /\ tolerance[s] + 1 >= Needed
              /\ alarm'[s].on /\ alarm'[s].shutdown /\ alarm'[s].waiting /\ alarm'[s].raised = 0
    BY <1>6, <2>1, ObserveOK
  <2>3. /\ s \in Stations /\ due[s] \in Nat /\ Ahead(s) \in Int /\ cleared[s] \in Int
        /\ tolerance[s] \in Nat /\ Needed \in Nat /\ Len(BringUp) = 3 /\ tolerance'[s] \in Nat
    BY <1>0, <1>6, LineAssumption DEF Counts, Ahead
  <2>4. Working(s) /\ AlarmInv(s)  BY <1>6 DEF InstantsInv, AlarmInstants, DrivenInv
  <2>5. /\ due[s] > 3 /\ ~alarm[s].on /\ Ahead(s) <= 1 /\ cleared[s] <= 3
        /\ tolerance[s] > 0 => Ahead(s) <= -2 /\ cleared[s] <= 0
    BY <1>s, <1>1, <2>3, <2>4 DEF Working
  <2>6. ~alarm[s].shutdown /\ ~alarm[s].waiting  BY <2>4, <2>5 DEF AlarmInv, NoAlarm
  <2>7. Ahead(s)' = Ahead(s)  BY <1>2, <2>3
  <2>8. s \notin step'.visits  BY <1>1
  <2>9. Resting(s)'  BY <1>1, <2>3, <2>5, <2>7 DEF Resting
  <2>10. Counting(s)' /\ Raised(s)'
    <3>1. CASE alarm' = alarm
      <4>1. Counting(s)'
        <5>1. ~alarm'[s].on  BY <2>5, <3>1
        <5>2. cleared'[s] <= due'[s] /\ Ahead(s)' <= 1  BY <1>1, <2>3, <2>5, <2>7
        <5> QED BY <5>1, <5>2 DEF Counting
      <4>2. Raised(s)'  BY <2>5, <2>6, <2>8, <3>1 DEF Raised
      <4> QED BY <4>1, <4>2
    <3>2. CASE /\ out /\ tolerance[s] + 1 >= Needed
               /\ alarm'[s].on /\ alarm'[s].shutdown /\ alarm'[s].waiting /\ alarm'[s].raised = 0
      <4>1. tolerance'[s] = 0  BY <2>2, <2>3, <3>2 DEF Counted
      <4>2. tolerance[s] > 0  BY <2>3, <3>2
      <4>3. Ahead(s) <= -2 /\ cleared[s] <= 0  BY <2>5, <4>2
      <4>4. Counting(s)'  BY <4>1 DEF Counting
      <4>5. Raised(s)'  BY <1>1, <2>3, <2>5, <2>7, <2>8, <3>2, <4>3 DEF Raised
      <4> QED BY <4>4, <4>5
    <3> QED BY <2>2, <3>1, <3>2
  <2>11. Working(s)' /\ Recovering(s)'  BY <1>1 DEF Working, Recovering
  <2>12. AlarmInstants(s)'  BY <2>9, <2>10, <2>11 DEF AlarmInstants
  <2> QED BY <1>3, <1>4, <2>2, <2>12 DEF InstantsInv
<1> QED BY <1>5, <1>6

\* Each command of a run is published a tick after the one before it, and no later than the
\* run was given time for.
LEMMA ScriptInstants ==
  ASSUME LineTyped, LineTyped', DrivenInv, InstantsInv, DriveScript
  PROVE  InstantsInv'
<1>s. PICK s \in Stations : s = step.station  BY DEF LineTyped
<1>0. Counts /\ Counts'
  <2>1. (LineTyped => Counts)'  BY TypedCounts, PTL
  <2> QED BY <2>1, TypedCounts
<1>1. /\ step.pc \in {"bringup", "restart", "reset"} /\ step.script # <<>>
      /\ Drive(s, Head(step.script), step.at, busy)
      /\ UNCHANGED <<due, alarm, tolerance, cleared>>
      /\ step'.pc = step.pc /\ step'.station = s /\ step'.script = Tail(step.script)
      /\ step'.visits = step.visits /\ step'.at = PublishedAt(busy[s], step.at) + 1
  BY <1>s DEF DriveScript, lineVars, alarmVars, LineTyped
<1>2. s \in Stations /\ step.at \in Int /\ busy \in [Stations -> Int]  BY DEF LineTyped
<1>3. /\ busy'[s] = PublishedAt(busy[s], step.at)
      /\ \A t \in Stations \ {s} : busy'[t] = busy[t] /\ machine'[t] = machine[t]
  <2> DEFINE command == Head(step.script)
  <2>1. Drive(s, command, step.at, busy)  BY <1>1
  <2> HIDE DEF command
  <2> QED BY <1>2, <2>1, DriveOK
<1>4. machine'[s] = Reaches(Head(step.script)) /\ Fits(Tail(step.script), Reaches(Head(step.script)))
  <2>1. Fits(step.script, machine[s])  BY <1>s, <1>1 DEF DrivenInv, ScriptInv, Scripted
  <2> QED BY <1>1, <1>2, <2>1, DriveOK, ScriptStep
<1>5. machine'[s] # "Suspended"  BY <1>4 DEF Fits
<1>6. Left' = Left - 1 /\ Left \in Nat /\ Left >= 1
  <2>1. step.script \in Seq(Commands)  BY DEF LineTyped
  <2>2. Left' = Len(Tail(step.script))  BY <1>1 DEF Left
  <2> QED BY <1>1, <2>1, <2>2, HeadTailProperties, LenProperties, EmptySeq DEF Left
<1>7. ASSUME NEW n \in Int, Ahead(s) <= n - 1 - Left, step.at <= due[s] + n - Left
      PROVE  Ahead(s)' <= n - 1 - Left' /\ step'.at <= due'[s] + n - Left'
  <2>1. busy[s] \in Int /\ due[s] \in Int  BY <1>0, <1>2 DEF Counts
  <2>2. PublishedAt(busy[s], step.at) \in Int /\ PublishedAt(busy[s], step.at) <= due[s] + n - Left
    BY <1>2, <1>6, <1>7, <2>1 DEF PublishedAt, Ahead
  <2> QED BY <1>1, <1>3, <1>6, <2>1, <2>2 DEF Ahead
<1>8. \A t \in Stations \ {s} : Ahead(t)' = Ahead(t)  BY <1>1, <1>3 DEF Ahead
<1>9. StationInstants(s)  BY <1>2 DEF InstantsInv
<1>10. StationInstants(s)'
  <2>1. Ahead(s)' \in Int /\ Left' \in Nat /\ due[s] \in Nat /\ due' = due
    BY <1>0, <1>1, <1>2 DEF Counts, Ahead
  <2>2. CASE step.pc \in {"bringup", "restart"}
    <3>1. Ahead(s) <= 3 - 1 - Left /\ step.at <= due[s] + 3 - Left
      BY <1>s, <1>6, <1>9, <2>2 DEF StationInstants
    <3>2. Ahead(s)' <= 3 - 1 - Left' /\ step'.at <= due'[s] + 3 - Left'  BY <1>7, <3>1
    <3>3. Ahead(s)' <= 2 - Left' /\ Ahead(s)' <= 5  BY <2>1, <3>2
    <3>4. step.pc = "bringup" => due'[s] = 0  BY <1>9, <2>1 DEF StationInstants
    <3>5. ~(s > s)  BY <1>2, StationsAndBuffers
    <3> QED BY <1>s, <1>1, <2>2, <3>2, <3>3, <3>4, <3>5 DEF StationInstants
  <2>3. CASE step.pc = "reset"
    <3>1. Ahead(s) <= 6 - 1 - Left /\ step.at <= due[s] + 6 - Left
      BY <1>s, <1>6, <1>9, <2>3 DEF StationInstants
    <3>2. Ahead(s)' <= 6 - 1 - Left' /\ step'.at <= due'[s] + 6 - Left'  BY <1>7, <3>1
    <3>3. Ahead(s)' <= 5 - Left' /\ Ahead(s)' <= 5  BY <2>1, <3>2
    <3> QED BY <1>s, <1>1, <2>3, <3>2, <3>3 DEF StationInstants
  <2> QED BY <1>1, <2>2, <2>3
<1>11. ASSUME NEW t \in Stations, t # s PROVE StationInstants(t)'
  <2>1. StationInstants(t)  BY DEF InstantsInv
  <2>2. t # step.station /\ t # step'.station /\ step'.station = step.station  BY <1>s, <1>1, <1>11
  <2>3. Ahead(t)' = Ahead(t) /\ due'[t] = due[t]  BY <1>1, <1>8, <1>11
  <2> QED BY <1>1, <2>1, <2>2, <2>3 DEF StationInstants
<1>12. ASSUME NEW m \in Monitored PROVE AlarmInstants(m)'
  <2>1. /\ Resting(m) /\ Counting(m) /\ Raised(m) /\ Recovering(m) /\ AlarmInv(m) /\ m \in Stations
    BY StationsAndBuffers DEF InstantsInv, AlarmInstants, DrivenInv
  <2>2. step'.pc # "work" /\ step'.station = step.station  BY <1>s, <1>1
  <2>3. Working(m)' /\ Recovering(m)'  BY <1>1, <2>1, <2>2 DEF Working, Recovering
  <2>4. CASE m = s
    <3>1. tolerance[m] = 0
      <4>1. step.pc = "restart" => alarm[m].on  BY <1>s, <2>1, <2>4 DEF Recovering
      <4>2. tolerance[m] \in Nat  BY <1>0 DEF Counts
      <4> QED BY <1>s, <1>1, <2>1, <2>4, <4>1, <4>2 DEF Recovering, Counting
    <3>2. ~alarm[m].waiting /\ ~alarm[m].shutdown
      <4>1. CASE step.pc = "bringup"  BY <4>1 DEF DrivenInv, ScriptInv, NoAlarm
      <4>2. CASE step.pc # "bringup"
        <5>1. ~alarm[m].waiting  BY <1>s, <1>1, <2>4, <4>2 DEF DrivenInv, ScriptInv
        <5> QED BY <2>1, <5>1 DEF AlarmInv
      <4> QED BY <4>1, <4>2
    <3>3. Resting(m)'  BY <1>1, <1>5, <2>1, <2>4 DEF Resting
    <3>4. Counting(m)'  BY <1>1, <3>1 DEF Counting
    <3>5. Raised(m)'  BY <1>1, <2>1, <3>2 DEF Raised
    <3> QED BY <2>3, <3>3, <3>4, <3>5 DEF AlarmInstants
  <2>5. CASE m # s
    <3>1. Ahead(m)' = Ahead(m) /\ machine'[m] = machine[m]  BY <1>3, <1>8, <2>1, <2>5
    <3>2. Resting(m)'  BY <1>1, <2>1, <3>1 DEF Resting
    <3>3. Counting(m)'  BY <1>1, <2>1, <3>1 DEF Counting
    <3>4. Raised(m)'  BY <1>1, <2>1, <3>1 DEF Raised
    <3> QED BY <2>3, <3>2, <3>3, <3>4 DEF AlarmInstants
  <2> QED BY <2>4, <2>5
<1> QED BY <1>10, <1>11, <1>12 DEF InstantsInv

LEMMA BringUpInstants ==
  ASSUME LineTyped, LineTyped', DrivenInv, InstantsInv, BringUpNext
  PROVE  InstantsInv'
<1>s. PICK s \in Stations : s = step.station  BY DEF LineTyped
<1>0. Counts /\ Counts'
  <2>1. (LineTyped => Counts)'  BY TypedCounts, PTL
  <2> QED BY <2>1, TypedCounts
<1>1. /\ step.pc = "bringup" /\ UNCHANGED <<machine, busy, due, alarm, tolerance, cleared>>
      /\ \/ step'.pc = "idle" /\ step'.visits = {}
         \/ /\ step'.pc = "bringup" /\ step'.visits = step.visits /\ step'.station = s + 1
            /\ step'.script = BringUp /\ step'.at = -Len(BringUp)
  <2>1. CASE s = N  BY <1>s, <2>1 DEF BringUpNext, Idle, lineVars, stationVars, alarmVars
  <2>2. CASE s # N
    BY <1>s, <2>2 DEF BringUpNext, lineVars, stationVars, alarmVars, LineTyped
  <2> QED BY <2>1, <2>2
<1>2. ASSUME NEW t \in Stations PROVE StationInstants(t)'
  <2>1. StationInstants(t) /\ Ahead(t)' = Ahead(t)  BY <1>1 DEF InstantsInv, Ahead
  <2>2. CASE step'.pc = "idle"  BY <2>1, <2>2 DEF StationInstants
  <2>3. CASE step'.pc = "bringup"
    <3>1. step'.station = s + 1 /\ step'.at = -3 /\ Left' = 3 /\ s \in Nat /\ t \in Nat
      BY <1>0, <1>1, <2>3, StationsAndBuffers DEF Counts, Left
    <3>2. Ahead(t) <= 5 /\ due[t] = 0 /\ (t > s => Ahead(t) <= -1)
      BY <1>s, <1>1, <2>1 DEF StationInstants
    <3>3. t = s + 1 => Ahead(t)' <= 2 - Left' /\ step'.at <= due'[t] + 3 - Left'
      BY <1>1, <2>1, <3>1, <3>2
    <3>4. t > s + 1 => Ahead(t)' <= -1  BY <2>1, <3>1, <3>2
    <3> QED BY <1>1, <2>1, <2>3, <3>1, <3>2, <3>3, <3>4 DEF StationInstants
  <2> QED BY <1>1, <2>2, <2>3
<1>3. ASSUME NEW m \in Monitored PROVE AlarmInstants(m)'
  <2>1. Ahead(m)' = Ahead(m) /\ (m \in step'.visits => m \in step.visits)
    BY <1>1 DEF Ahead
  <2>2. Resting(m) /\ Counting(m) /\ Raised(m) /\ Recovering(m)
    BY DEF InstantsInv, AlarmInstants
  <2>3. Resting(m)'  BY <1>1, <2>1, <2>2 DEF Resting
  <2>4. Counting(m)'  BY <1>1, <2>1, <2>2 DEF Counting
  <2>5. Raised(m)'  BY <1>1, <2>1, <2>2 DEF Raised
  <2>6. Working(m)' /\ Recovering(m)'  BY <1>1, <2>2 DEF Working, Recovering
  <2> QED BY <2>3, <2>4, <2>5, <2>6 DEF AlarmInstants
<1> QED BY <1>2, <1>3 DEF InstantsInv

LEMMA SettlingInstants ==
  ASSUME LineTyped, LineTyped', DrivenInv, InstantsInv, VisitsFixed \/ ResetDone \/ StepEnds
  PROVE  InstantsInv'
<1>0. Counts  BY TypedCounts
<1>1. /\ UNCHANGED <<machine, busy, due, alarm, tolerance, cleared>>
      /\ step'.pc \in {"idle", "visits"}
      /\ \A m \in step'.visits : m \in step.visits \/ alarm[m].due <= 0
  <2>1. CASE VisitsFixed
    BY <2>1 DEF VisitsFixed, Visits, Idle, lineVars, stationVars, alarmVars, LineTyped
  <2>2. CASE ResetDone  BY <2>2 DEF ResetDone, Idle, lineVars, stationVars, alarmVars
  <2>3. CASE StepEnds  BY <2>3 DEF StepEnds, Idle, lineVars, stationVars, alarmVars
  <2> QED BY <2>1, <2>2, <2>3
<1>2. ASSUME NEW t \in Stations PROVE StationInstants(t)'
  BY <1>1 DEF InstantsInv, StationInstants, Ahead
<1>3. ASSUME NEW m \in Monitored PROVE AlarmInstants(m)'
  <2>1. Ahead(m)' = Ahead(m)  BY <1>1 DEF Ahead
  <2>2. Resting(m) /\ Counting(m) /\ Raised(m)  BY DEF InstantsInv, AlarmInstants
  <2>3. Resting(m)'  BY <1>1, <2>1, <2>2 DEF Resting
  <2>4. Counting(m)'  BY <1>1, <2>1, <2>2 DEF Counting
  <2>5. m \in step'.visits => alarm'[m].due <= due'[m]
    <3>1. m \in Stations /\ due[m] \in Nat /\ alarm[m].due \in Int  BY <1>0 DEF Counts
    <3>2. m \in step'.visits => alarm[m].due <= due[m]  BY <1>1, <2>2, <3>1 DEF Raised
    <3> QED BY <1>1, <3>2
  <2>6. Raised(m)'  BY <1>1, <2>1, <2>2, <2>5 DEF Raised
  <2>7. Working(m)' /\ Recovering(m)'  BY <1>1 DEF Working, Recovering
  <2> QED BY <2>3, <2>4, <2>6, <2>7 DEF AlarmInstants
<1> QED BY <1>2, <1>3 DEF InstantsInv

LEMMA ClearInstants ==
  ASSUME LineTyped, LineTyped', DrivenInv, InstantsInv, Clear
  PROVE  InstantsInv'
<1>s. PICK s \in Stations : s = step.station  BY DEF LineTyped
<1>0. Counts /\ Counts'
  <2>1. (LineTyped => Counts)'  BY TypedCounts, PTL
  <2> QED BY <2>1, TypedCounts
<1>1. /\ step.pc = "restart" /\ step.script = <<>> /\ UNCHANGED <<machine, busy, due, tolerance>>
      /\ alarm' = [alarm EXCEPT ![s] = NoAlarm] /\ cleared' = [cleared EXCEPT ![s] = step.at]
      /\ step'.visits = step.visits
      /\ \/ step'.pc = "visits"
         \/ step'.pc = "reset" /\ step'.script = ResetInPlace /\ step'.station = s /\ step'.at = step.at
  <2>1. /\ step.pc = "restart" /\ step.script = <<>> /\ UNCHANGED <<machine, busy, due, tolerance>>
        /\ alarm' = [alarm EXCEPT ![s] = NoAlarm] /\ cleared' = [cleared EXCEPT ![s] = step.at]
    BY <1>s DEF Clear, lineVars, stationVars
  <2>2. CASE step' = [Idle EXCEPT !.pc = "visits", !.visits = step.visits]
    BY <2>1, <2>2 DEF Idle
  <2>3. CASE step' = [step EXCEPT !.pc = "reset", !.script = ResetInPlace]
    BY <1>s, <2>1, <2>3 DEF LineTyped
  <2> QED BY <2>1, <2>2, <2>3 DEF Clear
<1>2. s \in Monitored /\ ~alarm[s].waiting /\ StationInstants(s) /\ AlarmInstants(s) /\ AlarmInv(s)
  BY <1>s, <1>1 DEF DrivenInv, ScriptInv, InstantsInv
<1>3. Left = 0 /\ Len(ResetInPlace) = 3  BY <1>1 DEF Left, ResetInPlace
<1>4. Ahead(s) <= 2 /\ step.at <= due[s] + 3
  <2>1. Ahead(s) <= 2 - Left /\ step.at <= due[s] + 3 - Left
    BY <1>s, <1>1, <1>2 DEF StationInstants
  <2>2. due[s] \in Nat  BY <1>0 DEF Counts
  <2> QED BY <1>3, <2>1, <2>2
<1>5. tolerance[s] = 0
  <2>1. alarm[s].on  BY <1>s, <1>1, <1>2 DEF AlarmInstants, Recovering
  <2>2. tolerance[s] \in Nat  BY <1>0, <1>2 DEF Counts
  <2> QED BY <1>2, <2>1, <2>2 DEF AlarmInstants, Counting
<1>6. /\ cleared'[s] = step.at /\ alarm'[s] = NoAlarm
      /\ \A m \in Monitored \ {s} : cleared'[m] = cleared[m] /\ alarm'[m] = alarm[m]
  BY <1>1, <1>2 DEF LineTyped
<1>7. ASSUME NEW t \in Stations PROVE StationInstants(t)'
  <2>1. Ahead(t)' = Ahead(t) /\ Ahead(t) <= 5  BY <1>1 DEF InstantsInv, StationInstants, Ahead
  <2>2. CASE step'.pc = "visits"  BY <2>1, <2>2 DEF StationInstants
  <2>3. CASE step'.pc = "reset"
    <3>1. Left' = 3 /\ step'.at = step.at /\ step'.station = s  BY <1>1, <1>3, <2>3 DEF Left
    <3>2. due[s] \in Nat /\ step.at \in Int  BY <1>0 DEF Counts
    <3>3. t = s => Ahead(t)' <= 5 - Left' /\ step'.at <= due'[t] + 6 - Left'
      BY <1>1, <1>4, <2>1, <3>1, <3>2
    <3> QED BY <2>1, <2>3, <3>1, <3>3 DEF StationInstants
  <2> QED BY <1>1, <2>2, <2>3
<1>8. AlarmInstants(s)'
  <2>1. due[s] \in Nat /\ step.at \in Int /\ Ahead(s)' = Ahead(s) /\ Ahead(s) \in Int
    BY <1>0, <1>1 DEF Counts, Ahead
  <2>2. Resting(s)'  BY <1>1, <1>4, <1>6, <2>1 DEF Resting
  <2>3. Counting(s)'  BY <1>1, <1>5 DEF Counting
  <2>4. s \notin step'.visits
    BY <1>1, <1>2 DEF DrivenInv, VisitsInv
  <2>5. Raised(s)'  BY <1>6, <2>4 DEF Raised, NoAlarm
  <2>6. Working(s)' /\ Recovering(s)'  BY <1>1, <1>5 DEF Working, Recovering
  <2> QED BY <2>2, <2>3, <2>5, <2>6 DEF AlarmInstants
<1>9. ASSUME NEW m \in Monitored, m # s PROVE AlarmInstants(m)'
  <2>1. Ahead(m)' = Ahead(m) /\ cleared'[m] = cleared[m] /\ alarm'[m] = alarm[m]
    BY <1>1, <1>6, <1>9 DEF Ahead
  <2>2. Resting(m) /\ Counting(m) /\ Raised(m)  BY DEF InstantsInv, AlarmInstants
  <2>3. Resting(m)'  BY <1>1, <2>1, <2>2 DEF Resting
  <2>4. Counting(m)'  BY <1>1, <2>1, <2>2 DEF Counting
  <2>5. Raised(m)'  BY <1>1, <2>1, <2>2 DEF Raised
  <2>6. Working(m)' /\ Recovering(m)'  BY <1>1, <1>9 DEF Working, Recovering
  <2> QED BY <2>3, <2>4, <2>5, <2>6 DEF AlarmInstants
<1> QED BY <1>7, <1>8, <1>9 DEF InstantsInv

\* The shutdown is published at the instant the alarm was raised, before the station's next
\* cycle.
LEMMA ShutDownInstants ==
  ASSUME LineTyped, LineTyped', DrivenInv, InstantsInv, NEW s \in Monitored, ShutDown(s)
  PROVE  InstantsInv'
<1>0. Counts /\ Counts'
  <2>1. (LineTyped => Counts)'  BY TypedCounts, PTL
  <2> QED BY <2>1, TypedCounts
<1>1. /\ step.pc = "shutdowns" /\ alarm[s].shutdown /\ step' = step
      /\ UNCHANGED <<due, tolerance, cleared>>
      /\ Drive(s, "Abort", alarm[s].raised, busy)
      /\ alarm' = [alarm EXCEPT ![s].shutdown = FALSE]
  BY DEF ShutDown, lineVars
<1>2. s \in Stations /\ busy \in [Stations -> Int] /\ alarm[s].raised \in Int
  BY <1>0 DEF Counts, LineTyped
<1>3. /\ busy'[s] = PublishedAt(busy[s], alarm[s].raised) /\ machine'[s] = "Aborted"
      /\ \A t \in Stations \ {s} : busy'[t] = busy[t] /\ machine'[t] = machine[t]
  <2> DEFINE command == "Abort"
  <2>1. Drive(s, command, alarm[s].raised, busy) /\ Reaches(command) = "Aborted"
    BY <1>1, Refusals
  <2> HIDE DEF command
  <2> QED BY <1>2, <2>1, DriveOK
<1>4. /\ alarm'[s].on = alarm[s].on /\ alarm'[s].waiting = alarm[s].waiting
      /\ alarm'[s].raised = alarm[s].raised /\ alarm'[s].due = alarm[s].due
      /\ ~alarm'[s].shutdown
      /\ \A m \in Monitored \ {s} : alarm'[m] = alarm[m]
  BY <1>1 DEF LineTyped, Alarms
<1>5. /\ AlarmInv(s) /\ Resting(s) /\ Counting(s) /\ Raised(s)
  BY DEF DrivenInv, InstantsInv, AlarmInstants
<1>6. alarm[s].on  BY <1>1, <1>5 DEF AlarmInv, NoAlarm
<1>7. Ahead(s)' <= -1
  <2>1. busy[s] - due[s] <= -2 /\ due[s] > 0 /\ alarm[s].raised <= 0
    BY <1>1, <1>5, <1>6 DEF Raised, Ahead
  <2>2. busy[s] \in Int /\ due[s] \in Int  BY <1>0, <1>2 DEF Counts
  <2>3. PublishedAt(busy[s], alarm[s].raised) <= due[s] - 1
    BY <1>2, <2>1, <2>2 DEF PublishedAt
  <2>4. busy'[s] \in Int  BY <1>0, <1>2 DEF Counts
  <2> QED BY <1>1, <1>3, <2>2, <2>3, <2>4 DEF Ahead
<1>8. ASSUME NEW t \in Stations PROVE StationInstants(t)'
  <2>1. Ahead(t)' <= 5
    <3>1. CASE t = s
      <4>1. Ahead(s)' \in Int  BY <1>0, <1>2 DEF Counts, Ahead
      <4> QED BY <1>7, <3>1, <4>1
    <3>2. CASE t # s  BY <1>1, <1>3, <3>2 DEF InstantsInv, StationInstants, Ahead
    <3> QED BY <3>1, <3>2
  <2> QED BY <1>1, <2>1 DEF StationInstants
<1>9. AlarmInstants(s)'
  <2>1. Resting(s)'  BY <1>4, <1>6 DEF Resting
  <2>2. Counting(s)'  BY <1>1, <1>5, <1>6 DEF Counting
  <2>3. step'.visits = {}  BY <1>1 DEF DrivenInv, VisitsInv
  <2>4. Raised(s)'  BY <1>1, <1>4, <1>5, <1>7, <2>3 DEF Raised
  <2>5. Working(s)' /\ Recovering(s)'  BY <1>1 DEF Working, Recovering
  <2> QED BY <2>1, <2>2, <2>4, <2>5 DEF AlarmInstants
<1>10. ASSUME NEW m \in Monitored, m # s PROVE AlarmInstants(m)'
  <2>1. Ahead(m)' = Ahead(m) /\ alarm'[m] = alarm[m] /\ machine'[m] = machine[m]
    BY <1>0, <1>1, <1>3, <1>4, <1>10 DEF Ahead, Counts
  <2>2. Resting(m) /\ Counting(m) /\ Raised(m)  BY DEF InstantsInv, AlarmInstants
  <2>3. Resting(m)'  BY <1>1, <2>1, <2>2 DEF Resting
  <2>4. Counting(m)'  BY <1>1, <2>1, <2>2 DEF Counting
  <2>5. Raised(m)'  BY <1>1, <2>1, <2>2 DEF Raised
  <2>6. Working(m)' /\ Recovering(m)'  BY <1>1 DEF Working, Recovering
  <2> QED BY <2>3, <2>4, <2>5, <2>6 DEF AlarmInstants
<1> QED BY <1>8, <1>9, <1>10 DEF InstantsInv

\* The operator comes to a station whose rows all lie before its next cycle.
LEMMA InterveneInstants ==
  ASSUME LineTyped, LineTyped', DrivenInv, InstantsInv, NEW s \in Monitored, Intervene(s)
  PROVE  InstantsInv'
<1>0. Counts /\ Counts'
  <2>1. (LineTyped => Counts)'  BY TypedCounts, PTL
  <2> QED BY <2>1, TypedCounts
<1>1. /\ step.pc = "visits" /\ s \in step.visits
      /\ UNCHANGED <<machine, busy, due, tolerance, cleared>>
      /\ alarm' = [alarm EXCEPT ![s].waiting = FALSE]
      /\ step'.pc = "restart" /\ step'.station = s /\ step'.script = BringUp
      /\ step'.at = alarm[s].due /\ step'.visits = step.visits \ {s}
  BY DEF Intervene, lineVars, stationVars, LineTyped
<1>2. /\ ~alarm'[s].waiting /\ alarm'[s].on = alarm[s].on
      /\ alarm'[s].shutdown = alarm[s].shutdown /\ alarm'[s].raised = alarm[s].raised
      /\ \A m \in Monitored \ {s} : alarm'[m] = alarm[m]
  BY <1>1 DEF LineTyped, Alarms
<1>3. alarm[s].waiting /\ ~alarm[s].shutdown  BY <1>1 DEF DrivenInv, VisitsInv
<1>4. AlarmInv(s) /\ Resting(s) /\ Counting(s) /\ Raised(s)
  BY DEF DrivenInv, InstantsInv, AlarmInstants
<1>5. alarm[s].on /\ Ahead(s) <= -1 /\ alarm[s].due <= due[s]
  BY <1>1, <1>3, <1>4 DEF AlarmInv, NoAlarm, Raised
<1>6. Left' = 3 /\ s \in Stations /\ due[s] \in Nat  BY <1>0, <1>1 DEF Counts, Left
<1>7. ASSUME NEW t \in Stations PROVE StationInstants(t)'
  <2>1. Ahead(t)' = Ahead(t) /\ Ahead(t) <= 5  BY <1>1 DEF InstantsInv, StationInstants, Ahead
  <2>2. t = s => Ahead(t)' <= 2 - Left' /\ step'.at <= due'[t] + 3 - Left'
    <3>1. alarm[s].due \in Int  BY <1>0 DEF Counts
    <3> QED BY <1>1, <1>5, <1>6, <2>1, <3>1
  <2> QED BY <1>1, <2>1, <2>2 DEF StationInstants
<1>8. AlarmInstants(s)'
  <2>1. Resting(s)'  BY <1>2, <1>5 DEF Resting
  <2>2. Counting(s)'  BY <1>1, <1>4, <1>5 DEF Counting
  <2>3. Raised(s)'  BY <1>1, <1>2, <1>3, <1>4, <1>5 DEF Raised
  <2>4. Working(s)' /\ Recovering(s)'  BY <1>1, <1>2, <1>5 DEF Working, Recovering
  <2> QED BY <2>1, <2>2, <2>3, <2>4 DEF AlarmInstants
<1>9. ASSUME NEW m \in Monitored, m # s PROVE AlarmInstants(m)'
  <2>1. Ahead(m)' = Ahead(m) /\ alarm'[m] = alarm[m]  BY <1>1, <1>2, <1>9 DEF Ahead
  <2>2. Resting(m) /\ Counting(m) /\ Raised(m)  BY DEF InstantsInv, AlarmInstants
  <2>3. Resting(m)'  BY <1>1, <2>1, <2>2 DEF Resting
  <2>4. Counting(m)'  BY <1>1, <2>1, <2>2 DEF Counting
  <2>5. Raised(m)'  BY <1>1, <2>1, <2>2 DEF Raised
  <2>6. Working(m)' /\ Recovering(m)'  BY <1>1, <1>9 DEF Working, Recovering
  <2> QED BY <2>3, <2>4, <2>5, <2>6 DEF AlarmInstants
<1> QED BY <1>7, <1>8, <1>9 DEF InstantsInv

\* The button puts no visit off that the operator has begun: the driver awaits nothing before it,
\* and the one press there is cannot have a second.
LEMMA AcknowledgeInstants ==
  ASSUME OnePress, LineTyped, LineTyped', DrivenInv, InstantsInv,
         NEW s \in Monitored, Acknowledge(s)
  PROVE  InstantsInv'
<1>0. Counts  BY TypedCounts
<1>1. /\ UNCHANGED <<machine, busy, due, tolerance, cleared, step>> /\ alarm[s].waiting
      /\ step.pc # "visits"
  BY DEF Acknowledge, lineVars, stationVars
<1>2. PICK now \in {-d : d \in Trails} \cup Leads :
        alarm' = [alarm EXCEPT ![s].due = now, ![s].presses = @ + 1]
  BY DEF Acknowledge
<1>3. /\ alarm'[s].on = alarm[s].on /\ alarm'[s].shutdown = alarm[s].shutdown
      /\ alarm'[s].waiting = alarm[s].waiting /\ alarm'[s].raised = alarm[s].raised
      /\ alarm'[s].due = now
      /\ \A m \in Monitored \ {s} : alarm'[m] = alarm[m]
  BY <1>2 DEF LineTyped, Alarms
<1>4. ASSUME NEW t \in Stations PROVE StationInstants(t)'
  BY <1>1 DEF InstantsInv, StationInstants, Ahead, Left
<1>5. ASSUME NEW m \in Monitored PROVE AlarmInstants(m)'
  <2>1. Ahead(m)' = Ahead(m)  BY <1>1 DEF Ahead
  <2>2. /\ alarm'[m].on = alarm[m].on /\ alarm'[m].shutdown = alarm[m].shutdown
        /\ alarm'[m].waiting = alarm[m].waiting /\ alarm'[m].raised = alarm[m].raised
        /\ m # s => alarm'[m].due = alarm[m].due
        /\ m \notin step.visits
    <3>1. CASE step.visits = {}  BY <1>3, <3>1
    <3>2. CASE step.visits # {}
      <4>1. step.pc \in {"restart", "reset"}  BY <1>1, <3>2 DEF DrivenInv, VisitsInv
      <4>2. step.station \in Monitored /\ ~alarm[step.station].waiting
        BY <4>1 DEF DrivenInv, ScriptInv
      <4> QED BY <1>1, <4>2 DEF OnePress
    <3> QED BY <3>1, <3>2
  <2>3. Resting(m) /\ Counting(m) /\ Raised(m) /\ Working(m) /\ Recovering(m)
    BY DEF InstantsInv, AlarmInstants
  <2>4. Resting(m)'  BY <1>1, <2>1, <2>2, <2>3 DEF Resting
  <2>5. Counting(m)'  BY <1>1, <2>1, <2>2, <2>3 DEF Counting
  <2>6. Raised(m)'  BY <1>1, <2>1, <2>2, <2>3 DEF Raised
  <2>7. Working(m)'  BY <1>1, <2>1, <2>2, <2>3 DEF Working
  <2>8. Recovering(m)'  BY <1>1, <2>2, <2>3 DEF Recovering
  <2> QED BY <2>4, <2>5, <2>6, <2>7, <2>8 DEF AlarmInstants
<1> QED BY <1>4, <1>5 DEF InstantsInv

LEMMA HoldInstants ==
  ASSUME LineTyped, LineTyped', DrivenInv, InstantsInv, NEW s \in Holdable, HoldOrUnhold(s)
  PROVE  InstantsInv'
<1>0. Counts /\ Counts'
  <2>1. (LineTyped => Counts)'  BY TypedCounts, PTL
  <2> QED BY <2>1, TypedCounts
<1>1. step.pc = "idle" /\ busy[s] <= 0 /\ UNCHANGED <<due, tolerance, alarm, cleared, step>>
  BY DEF HoldOrUnhold, lineVars, alarmVars
<1>2. PICK command \in {"Hold", "Unhold"} : Drive(s, command, 0, busy)  BY DEF HoldOrUnhold
<1>3. s \in Stations /\ busy \in [Stations -> Int] /\ 0 \in Int  BY LineAssumption DEF LineTyped
<1>4. /\ command \in Commands /\ machine[s] \in Accepts[command]
      /\ machine'[s] = Reaches(command) /\ busy'[s] = PublishedAt(busy[s], 0)
      /\ \A t \in Stations \ {s} : busy'[t] = busy[t] /\ machine'[t] = machine[t]
  BY <1>2, <1>3, DriveOK
<1>5. machine[s] # "Aborted"
  <2>1. command # "Clear" /\ command # "Abort"  OBVIOUS
  <2> QED BY <1>4, <2>1, Refusals
<1>6. machine'[s] # "Suspended"
  <2>1. Reaches("Hold") = "Held" /\ Reaches("Unhold") = "Execute"
    BY DEF Reaches, Enters, SettlesTo
  <2> QED BY <1>4, <2>1
<1>7. Ahead(s)' <= 1 /\ Ahead(s)' \in Int
  <2>1. busy[s] \in Int /\ due[s] \in Nat /\ busy'[s] \in Int  BY <1>0, <1>3 DEF Counts
  <2>2. PublishedAt(busy[s], 0) <= 1  BY <1>1, <2>1 DEF PublishedAt
  <2> QED BY <1>1, <1>4, <2>1, <2>2 DEF Ahead
<1>8. ASSUME NEW t \in Stations PROVE StationInstants(t)'
  <2>1. Ahead(t)' <= 5
    <3>1. CASE t = s  BY <1>7, <3>1
    <3>2. CASE t # s  BY <1>1, <1>4, <3>2 DEF InstantsInv, StationInstants, Ahead
    <3> QED BY <3>1, <3>2
  <2> QED BY <1>1, <2>1 DEF StationInstants
<1>9. ASSUME NEW m \in Monitored PROVE AlarmInstants(m)'
  <2>1. m \in Stations  BY <1>0 DEF Counts
  <2>2. Resting(m) /\ Counting(m) /\ Raised(m) /\ AlarmInv(m)
    BY DEF InstantsInv, AlarmInstants, DrivenInv
  <2>3. Working(m)' /\ Recovering(m)'  BY <1>1 DEF Working, Recovering
  <2>4. CASE m = s
    <3>1. ~alarm[m].waiting /\ ~alarm[m].shutdown  BY <1>1, <1>5, <2>2, <2>4 DEF AlarmInv
    <3>2. Resting(m)'  BY <1>1, <1>6, <2>2, <2>4 DEF Resting
    <3>3. Counting(m)'  BY <1>1, <1>7, <2>2, <2>4 DEF Counting
    <3>4. Raised(m)'  BY <1>1, <2>2, <3>1 DEF Raised
    <3> QED BY <2>3, <3>2, <3>3, <3>4 DEF AlarmInstants
  <2>5. CASE m # s
    <3>1. Ahead(m)' = Ahead(m) /\ machine'[m] = machine[m]  BY <1>1, <1>4, <2>1, <2>5 DEF Ahead
    <3>2. Resting(m)'  BY <1>1, <2>2, <3>1 DEF Resting
    <3>3. Counting(m)'  BY <1>1, <2>2, <3>1 DEF Counting
    <3>4. Raised(m)'  BY <1>1, <2>2, <3>1 DEF Raised
    <3> QED BY <2>3, <3>2, <3>3, <3>4 DEF AlarmInstants
  <2> QED BY <2>4, <2>5
<1> QED BY <1>8, <1>9 DEF InstantsInv

LEMMA InstantsStep ==
  ASSUME Needed >= 2, OnePress, DriverInv, DriverInv', InstantsInv, [Next]_vars
  PROVE  InstantsInv'
<1>1. LineTyped /\ LineTyped' /\ DrivenInv  BY DEF DriverInv, LoadedInv
<1>2. CASE UNCHANGED vars
  <2> USE <1>2 DEF vars, lineVars, stationVars, alarmVars
  <2>1. \A s \in Stations : StationInstants(s)'
    BY DEF InstantsInv, StationInstants, Ahead, Left
  <2>2. ASSUME NEW m \in Monitored PROVE AlarmInstants(m)'
    <3>1. Resting(m) /\ Counting(m) /\ Raised(m) /\ Working(m) /\ Recovering(m)
      BY DEF InstantsInv, AlarmInstants
    <3>2. Resting(m)' /\ Counting(m)'  BY <3>1 DEF Resting, Counting, Ahead
    <3>3. Raised(m)' /\ Working(m)'  BY <3>1 DEF Raised, Working, Ahead
    <3>4. Recovering(m)'  BY <3>1 DEF Recovering
    <3> QED BY <3>2, <3>3, <3>4 DEF AlarmInstants
  <2> QED BY <2>1, <2>2 DEF InstantsInv
<1>3. CASE Aside
  BY <1>1, <1>3, ScriptInstants, BringUpInstants, SettlingInstants, ClearInstants,
     ShutDownInstants, InterveneInstants, AcknowledgeInstants, HoldInstants DEF Aside
<1>4. CASE Works  BY <1>1, <1>4, WorksInstants
<1>5. ASSUME NEW s \in Stations, Stays(s) \/ Suspends(s) \/ Takes(s) PROVE InstantsInv'
  BY <1>1, <1>5, CycleInstants
<1> QED BY <1>2, <1>3, <1>4, <1>5, NextCases

\* A station's alarm is cleared before the next one is raised (test_alarms.py:247-249),
\* whatever the panel's clock says when the button is pressed, wherever an alarm takes two
\* parts out of band or more. The code takes any number (config.py:237,
\* alarm_consecutive_parts); with one, a part worked before the restart's last rows are due
\* raises the next alarm too early.
THEOREM AlarmsDoNotOverlap == Needed >= 2 /\ OnePress => (Spec => []ClearedBeforeRaisedAgain)
<1> SUFFICES ASSUME Needed >= 2, OnePress PROVE Spec => []ClearedBeforeRaisedAgain  OBVIOUS
<1>1. Init => InstantsInv  BY InitInstants
<1>2. DriverInv /\ DriverInv' /\ InstantsInv /\ [Next]_vars => InstantsInv'  BY InstantsStep
<1>3. InstantsInv => ClearedBeforeRaisedAgain
  BY DEF InstantsInv, AlarmInstants, Raised, ClearedBeforeRaisedAgain
<1> QED BY <1>1, <1>2, <1>3, DriverAlways, PTL DEF Spec

\* The nudges do not add up: the states a station has published lie at most a restart and a
\* reset past its next cycle (line.py:370-377), for every takt longer than the restart and every
\* habit of the operator and the panel's clock.
THEOREM StatesKeepToTheLine == Needed >= 2 /\ OnePress => (Spec => []PublishedNearTheLine)
<1> SUFFICES ASSUME Needed >= 2, OnePress PROVE Spec => []PublishedNearTheLine  OBVIOUS
<1>1. Init => InstantsInv  BY InitInstants
<1>2. DriverInv /\ DriverInv' /\ InstantsInv /\ [Next]_vars => InstantsInv'  BY InstantsStep
<1>3. InstantsInv => PublishedNearTheLine
  BY DEF InstantsInv, StationInstants, Ahead, PublishedNearTheLine
<1> QED BY <1>1, <1>2, <1>3, DriverAlways, PTL DEF Spec

=============================================================================
