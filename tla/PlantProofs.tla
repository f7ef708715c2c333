------------------------------ MODULE PlantProofs ------------------------------
(***************************************************************************)
(* What holds of Plant for every scenario, every request and every bound:  *)
(* the truth on record follows the injections on record, and a verdict is  *)
(* given on the truth on record for its part.  What TruthByLane decides is *)
(* nothing the first proof looks into: it is the same function of the same *)
(* faults on both sides.                                                   *)
(***************************************************************************)
EXTENDS Plant, FiniteSetTheorems, TLAPS

-----------------------------------------------------------------------------
(* The log and the faults.                                                   *)

InForce == {faults[j] : j \in 1 .. Len(faults)}

\* What is in force is what is logged, and every part on record has it.
LogInv ==
  /\ \E S : log \in Seq(S)
  /\ \E S : faults \in Seq(S)
  /\ InForce = {log[k].fault : k \in Injected}
  /\ TruthFollowsTheLog

\* A fault set of a scenario is a sequence.
LEMMA FaultSetIsASequence ==
  ASSUME NEW scenario PROVE \E S : FaultSet(scenario) \in Seq(S)
<1>1. CASE scenario = NO_SCENARIO
  <2>1. FaultSet(scenario) = <<>> BY <1>1 DEF FaultSet
  <2>2. <<>> \in Seq({}) OBVIOUS
  <2> QED BY <2>1, <2>2
<1>2. CASE scenario # NO_SCENARIO
  <2>1. FaultSet(scenario) = <<Builders[scenario]>> BY <1>2 DEF FaultSet
  <2>2. <<Builders[scenario]>> \in Seq({Builders[scenario]}) OBVIOUS
  <2> QED BY <2>1, <2>2
<1> QED BY <1>1, <1>2

\* A boot writes down what it puts in force, and has no part on record.
LEMMA BootLogs ==
  (\E scenario : faults = FaultSet(scenario) /\ log = LogOf(scenario)) => LogInv
<1> SUFFICES ASSUME NEW scenario, faults = FaultSet(scenario), log = LogOf(scenario)
             PROVE  LogInv
  OBVIOUS
<1> DEFINE set == FaultSet(scenario)
<1>1. PICK S : set \in Seq(S) BY FaultSetIsASequence
<1>2. log = [i \in DOMAIN set |-> [record |-> "injection", source |-> "scenario", fault |-> set[i]]]
  BY DEF LogOf
<1>3. DOMAIN set = 1 .. Len(set) /\ Len(set) \in Nat BY <1>1
<1>4. log \in Seq({log[i] : i \in 1 .. Len(set)})
  <2> HIDE DEF set
  <2> QED BY <1>2, <1>3
<1>5. DOMAIN log = 1 .. Len(set) /\ Injected = 1 .. Len(set)
  <2> HIDE DEF set
  <2> QED BY <1>2, <1>3 DEF Injected
<1>6. \A k \in 1 .. Len(set) : log[k].fault = set[k]
  <2> HIDE DEF set
  <2> QED BY <1>2, <1>3
<1>7. InForce = {log[k].fault : k \in Injected} BY <1>5, <1>6 DEF InForce
<1>8. TruthFollowsTheLog BY <1>5 DEF TruthFollowsTheLog
<1> QED BY <1>1, <1>4, <1>7, <1>8 DEF LogInv

\* Longer logs and longer fault sets leave what was said of the parts on record.
LEMMA OldPartsStay ==
  ASSUME NEW S, NEW T, log \in Seq(S), faults \in Seq(T), log' \in Seq(S), faults' \in Seq(T),
         Len(log) <= Len(log'), \A k \in 1 .. Len(log) : log'[k] = log[k],
         Len(faults) <= Len(faults'), \A j \in 1 .. Len(faults) : faults'[j] = faults[j],
         TruthFollowsTheLog, NEW i \in DOMAIN log \ Injected
  PROVE  \E n \in 0 .. Len(faults') :
           /\ {faults'[j] : j \in 1 .. n} = LoggedBefore(i)'
           /\ log'[i].defects = TruthByLane(SubSeq(faults', 1, n), log'[i].part.serial, log'[i].part.carrier,
                                            log'[i].part.work, log'[i].at)
<1>1. PICK n \in 0 .. Len(faults) :
        /\ {faults[j] : j \in 1 .. n} = LoggedBefore(i)
        /\ log[i].defects = TruthByLane(SubSeq(faults, 1, n), log[i].part.serial, log[i].part.carrier,
                                        log[i].part.work, log[i].at)
  BY DEF TruthFollowsTheLog
<1>2. i \in 1 .. Len(log) /\ log'[i] = log[i] OBVIOUS
<1>3. {j \in Injected' : j < i} = {j \in Injected : j < i}
  <2>1. DOMAIN log = 1 .. Len(log) /\ DOMAIN log' = 1 .. Len(log') /\ Len(log) \in Nat /\ Len(log') \in Nat
    OBVIOUS
  <2>2. \A j : j \in Injected' /\ j < i <=> j \in Injected /\ j < i
    BY <1>2, <2>1 DEF Injected
  <2> QED BY <2>2
<1>4. LoggedBefore(i)' = LoggedBefore(i)
  <2> DEFINE K == {j \in Injected : j < i}
  <2>1. \A k \in K : k \in 1 .. Len(log) BY DEF Injected
  <2>2. \A k \in K : log'[k].fault = log[k].fault BY <2>1
  <2>3. {log'[k].fault : k \in K} = {log[k].fault : k \in K} BY <2>2
  <2> QED BY <1>3, <2>3 DEF LoggedBefore
<1>5. {faults'[j] : j \in 1 .. n} = {faults[j] : j \in 1 .. n}
  <2>1. \A j \in 1 .. n : faults'[j] = faults[j] OBVIOUS
  <2> QED BY <2>1
<1>6. SubSeq(faults', 1, n) = SubSeq(faults, 1, n) OBVIOUS
<1>7. n \in 0 .. Len(faults') OBVIOUS
<1> QED BY <1>1, <1>2, <1>4, <1>5, <1>6, <1>7
\* What a step leaves of both, it leaves of what is said of them.
LEMMA LogInvStutters == LogInv /\ UNCHANGED truthVars => LogInv'
<1> SUFFICES ASSUME LogInv, log' = log, faults' = faults PROVE LogInv'
  BY DEF truthVars
<1>1. InForce' = InForce BY DEF InForce
<1>2. Injected' = Injected BY DEF Injected
<1>3. {log'[k].fault : k \in Injected'} = {log[k].fault : k \in Injected} BY <1>2
<1>4. \A i : LoggedBefore(i)' = LoggedBefore(i) BY <1>2 DEF LoggedBefore
<1>5. TruthFollowsTheLog' BY <1>2, <1>4 DEF LogInv, TruthFollowsTheLog
<1> QED BY <1>1, <1>3, <1>5 DEF LogInv

\* S3 writes a part down: with all that is in force.
LEMMA LogInvRecords == LogInv /\ Records => LogInv'
<1> SUFFICES ASSUME LogInv, Records PROVE LogInv'
  OBVIOUS
<1> DEFINE part == Head(line.belts[3])
           entry == [record |-> "part", part |-> part, at |-> driver.at,
                     defects |-> TruthByLane(faults, part.serial, part.carrier, part.work, driver.at)]
<1>1. log' = Append(log, entry) /\ faults' = faults BY DEF Records
<1>2. PICK S0 : log \in Seq(S0) BY DEF LogInv
<1>3. PICK T : faults \in Seq(T) BY DEF LogInv
<1> DEFINE S == S0 \cup {entry}
<1>4. log \in Seq(S) /\ log' \in Seq(S) /\ Len(log') = Len(log) + 1 /\ log'[Len(log) + 1] = entry
      /\ \A k \in 1 .. Len(log) : log'[k] = log[k]
  <2> HIDE DEF entry
  <2> QED BY <1>1, <1>2
<1>5. entry.record = "part" /\ entry.part = part /\ entry.at = driver.at
      /\ entry.defects = TruthByLane(faults, part.serial, part.carrier, part.work, driver.at)
  OBVIOUS
<1> HIDE DEF entry, S
<1>6. Injected' = Injected BY <1>4, <1>5 DEF Injected
<1>7. Injected \subseteq 1 .. Len(log) /\ Len(log) \in Nat BY <1>4 DEF Injected
<1>8. {log'[k].fault : k \in Injected} = {log[k].fault : k \in Injected}
  <2>1. \A k \in Injected : log'[k].fault = log[k].fault BY <1>4, <1>7
  <2> QED BY <2>1
<1>9. InForce' = {log'[k].fault : k \in Injected'} BY <1>1, <1>6, <1>8 DEF InForce, LogInv
<1>10. TruthFollowsTheLog'
  <2> SUFFICES ASSUME NEW i \in DOMAIN log' \ Injected'
               PROVE  \E n \in 0 .. Len(faults') :
                        /\ {faults'[j] : j \in 1 .. n} = LoggedBefore(i)'
                        /\ log'[i].defects = TruthByLane(SubSeq(faults', 1, n), log'[i].part.serial,
                                                         log'[i].part.carrier, log'[i].part.work, log'[i].at)
    BY DEF TruthFollowsTheLog
  <2>1. CASE i \in DOMAIN log \ Injected
    BY <1>1, <1>3, <1>4, <2>1, OldPartsStay DEF LogInv
  <2>2. CASE i = Len(log) + 1
    <3>1. Len(faults) \in 0 .. Len(faults') /\ SubSeq(faults, 1, Len(faults)) = faults BY <1>1, <1>3
    <3>2. {j \in Injected' : j < i} = Injected
      <4>1. \A j \in Injected : j < i BY <1>7, <2>2
      <4> QED BY <1>6, <4>1
    <3>3. LoggedBefore(i)' = InForce BY <1>8, <3>2 DEF LoggedBefore, LogInv
    <3>4. log'[i] = entry BY <1>4, <2>2
    <3>5. {faults'[j] : j \in 1 .. Len(faults)} = LoggedBefore(i)' BY <1>1, <3>3 DEF InForce
    <3>6. log'[i].defects = TruthByLane(SubSeq(faults', 1, Len(faults)), log'[i].part.serial,
                                        log'[i].part.carrier, log'[i].part.work, log'[i].at)
      BY <1>1, <1>5, <3>1, <3>4
    <3> QED BY <3>1, <3>5, <3>6
  <2> QED BY <1>4, <1>6, <2>1, <2>2
<1> QED BY <1>1, <1>3, <1>4, <1>9, <1>10 DEF LogInv

\* The panel: what is written down is put in force, and nothing else is.
LEMMA LogInvInjects == ASSUME NEW r PROVE LogInv /\ Injects(r) => LogInv'
<1> SUFFICES ASSUME LogInv, Injects(r) PROVE LogInv'
  OBVIOUS
<1>1. PICK f : \E written \in BOOLEAN :
        /\ log' = IF written THEN Append(log, [record |-> "injection", source |-> "operator", fault |-> f]) ELSE log
        /\ faults' = IF written THEN Append(faults, f) ELSE faults
  BY DEF Injects, Running
<1>2. CASE log' = log /\ faults' = faults BY <1>2, LogInvStutters DEF truthVars
<1>3. CASE /\ log' = Append(log, [record |-> "injection", source |-> "operator", fault |-> f])
           /\ faults' = Append(faults, f)
  <2> DEFINE entry == [record |-> "injection", source |-> "operator", fault |-> f]
  <2>1. log' = Append(log, entry) /\ faults' = Append(faults, f) BY <1>3
  <2>2. PICK S0 : log \in Seq(S0) BY DEF LogInv
  <2>3. PICK T0 : faults \in Seq(T0) BY DEF LogInv
  <2> DEFINE S == S0 \cup {entry}
             T == T0 \cup {f}
  <2>4. log \in Seq(S) /\ log' \in Seq(S) /\ Len(log') = Len(log) + 1 /\ log'[Len(log) + 1] = entry
        /\ \A k \in 1 .. Len(log) : log'[k] = log[k]
    <3> HIDE DEF entry
    <3> QED BY <2>1, <2>2
  <2>5. faults \in Seq(T) /\ faults' \in Seq(T) /\ Len(faults') = Len(faults) + 1 /\ faults'[Len(faults) + 1] = f
        /\ \A j \in 1 .. Len(faults) : faults'[j] = faults[j]
    BY <2>1, <2>3
  <2>6. entry.record = "injection" /\ entry.fault = f OBVIOUS
  <2> HIDE DEF entry, S, T
  <2>7. Injected \subseteq 1 .. Len(log) /\ Len(log) \in Nat /\ Len(faults) \in Nat BY <2>4, <2>5 DEF Injected
  <2>8. Injected' = Injected \cup {Len(log) + 1} BY <2>4, <2>6 DEF Injected
  <2>9. {log'[k].fault : k \in Injected'} = {log[k].fault : k \in Injected} \cup {f}
    <3>1. \A k \in Injected : log'[k].fault = log[k].fault BY <2>4, <2>7
    <3>2. log'[Len(log) + 1].fault = f BY <2>4, <2>6
    <3> QED BY <2>8, <3>1, <3>2
  <2>10. InForce' = InForce \cup {f}
    <3>1. 1 .. Len(faults') = (1 .. Len(faults)) \cup {Len(faults) + 1} BY <2>5, <2>7
    <3> QED BY <2>5, <3>1 DEF InForce
  <2>11. TruthFollowsTheLog'
    <3> SUFFICES ASSUME NEW i \in DOMAIN log' \ Injected'
                 PROVE  \E n \in 0 .. Len(faults') :
                          /\ {faults'[j] : j \in 1 .. n} = LoggedBefore(i)'
                          /\ log'[i].defects = TruthByLane(SubSeq(faults', 1, n), log'[i].part.serial,
                                                           log'[i].part.carrier, log'[i].part.work, log'[i].at)
      BY DEF TruthFollowsTheLog
    <3>1. i \in DOMAIN log \ Injected BY <2>4, <2>8
    <3>2. TruthFollowsTheLog /\ Len(log) <= Len(log') /\ Len(faults) <= Len(faults')
      BY <2>4, <2>5, <2>7 DEF LogInv
    <3> QED BY <2>4, <2>5, <3>1, <3>2, OldPartsStay
  <2> QED BY <2>4, <2>5, <2>9, <2>10, <2>11 DEF LogInv
<1> QED BY <1>1, <1>2, <1>3

\* Every step keeps it: only a boot, S3 and the panel touch the log or the faults.
LEMMA LogInvStep == LogInv /\ [Next]_vars => LogInv'
<1> SUFFICES ASSUME LogInv, [Next]_vars PROVE LogInv'
  OBVIOUS
<1>1. CASE Records BY <1>1, LogInvRecords
<1>2. CASE \E r \in Requests : Injects(r) BY <1>2, LogInvInjects
<1>3. CASE Boot
  <2>1. (\E scenario : faults = FaultSet(scenario) /\ log = LogOf(scenario))' BY <1>3 DEF Boot, Boots
  <2> QED BY <2>1, BootLogs, PTL
<1>4. CASE Suspends \/ Feeds \/ Joins \/ Declares \/ Inspects \/ Fails \/ Judges \/ Sorts \/ Resumes
           \/ ReachesTheHorizon \/ Polls \/ GoesLive \/ Ticks \/ (\E stream \in Streams : Stores(stream))
           \/ UNCHANGED vars
  <2>1. UNCHANGED truthVars
    BY <1>4 DEF Suspends, Feeds, Joins, Declares, Inspects, Fails, Judges, Sorts, Resumes, ReachesTheHorizon,
                Polls, GoesLive, Ticks, Stores, vars, truthVars
  <2> QED BY <2>1, LogInvStutters
<1> QED BY <1>1, <1>2, <1>3, <1>4 DEF Next, Driver

LEMMA LogInvInit == Init => LogInv
BY BootLogs DEF Init

\* TruthFollowsTheLog holds of every run: what a part on record is said to have is what the
\* injections on record before it give it (ground_truth.py, faults.py).
THEOREM TruthIsOnRecord == Spec => []TruthFollowsTheLog
<1>1. LogInv => TruthFollowsTheLog BY DEF LogInv
<1> QED BY <1>1, LogInvInit, LogInvStep, PTL DEF Spec
-----------------------------------------------------------------------------
(* The verdict.                                                              *)

OnRecord(serial, truth) ==
  \E i \in DOMAIN log \ Injected : log[i].part.serial = serial /\ ClassesOf(log[i].defects) = truth

\* What the driver holds between S3's beginning and its outcome: a part whose truth is on record,
\* that the service knows once it was told, and that was judged on it once it was asked.
HandIsOnRecord ==
  /\ {"serial", "truth", "judged", "found"} \subseteq DOMAIN line.hand
  /\ OnRecord(line.hand.serial, line.hand.truth)
  /\ driver.posts \in {<<"truth", "inspect">>, <<"inspect">>, <<>>}
  /\ driver.posts = <<"inspect">> =>
       line.hand.serial \in DOMAIN service /\ service[line.hand.serial] = line.hand.truth
  /\ driver.posts = <<>> => line.hand.judged = line.hand.truth

VerdictInv ==
  /\ \E S : log \in Seq(S)
  /\ {"pc", "posts", "station", "at", "cycles"} \subseteq DOMAIN driver /\ "hand" \in DOMAIN line
  /\ driver.pc = "await" => HandIsOnRecord
  /\ VerdictIsOnItsOwnTruth

\* A cycle's end is no wait for the service.
LEMMA CycleEnds ==
  ASSUME {"pc", "posts", "station", "at", "cycles"} \subseteq DOMAIN driver, CycleIsDone
  PROVE  driver'.pc # "await" /\ DOMAIN driver' = DOMAIN driver
<1> DEFINE next == [Onward(driver) EXCEPT !.posts = <<>>, !.cycles = (@ + 1) % BatchSize]
<1>1. DOMAIN Onward(driver) = DOMAIN driver BY DEF Onward
<1>2. DOMAIN next = DOMAIN driver BY <1>1
<1> HIDE DEF next
<1>3. driver' = IF driver.live THEN [next EXCEPT !.pc = "sleep", !.cycles = 0]
                ELSE [next EXCEPT !.pc = IF next.cycles = 0 THEN "pause" ELSE "step"]
  BY DEF CycleIsDone, AfterCycle, next
<1> QED BY <1>2, <1>3

\* A record is never taken back while the plant is up.
LEMMA RecordsStay ==
  ASSUME NEW S, log \in Seq(S), NEW e, log' = log \/ log' = Append(log, e)
  PROVE  /\ \A serial, truth : OnRecord(serial, truth) => OnRecord(serial, truth)'
         /\ \E T : log' \in Seq(T)
<1>1. CASE log' = log BY <1>1 DEF OnRecord, Injected
<1>2. CASE log' = Append(log, e)
  <2>1. log \in Seq(S \cup {e}) OBVIOUS
  <2>2. /\ log' \in Seq(S \cup {e}) /\ DOMAIN log' = 1 .. Len(log) + 1 /\ DOMAIN log = 1 .. Len(log)
        /\ \A k \in DOMAIN log : log'[k] = log[k] /\ k \in DOMAIN log'
    BY <1>2, <2>1
  <2>3. \A k \in DOMAIN log : k \in Injected' <=> k \in Injected BY <2>2 DEF Injected
  <2> QED BY <2>2, <2>3 DEF OnRecord
<1> QED BY <1>1, <1>2

\* The strip keeps what it shows, or shows a part on record.
LEMMA StripIsOnRecord ==
  ASSUME VerdictIsOnItsOwnTruth, recent' = recent,
         \A serial, truth : OnRecord(serial, truth) => OnRecord(serial, truth)'
  PROVE  VerdictIsOnItsOwnTruth'
BY DEF VerdictIsOnItsOwnTruth, OnRecord

\* A boot shows no part, and waits for nothing.
LEMMA VerdictInvBoots ==
  driver = Idle /\ line = NewLine /\ recent = NoPart /\ (\E scenario : log = LogOf(scenario)) => VerdictInv
<1> SUFFICES ASSUME driver = Idle, line = NewLine, recent = NoPart, NEW scenario, log = LogOf(scenario)
             PROVE  VerdictInv
  OBVIOUS
<1> DEFINE set == FaultSet(scenario)
<1>2. PICK S : set \in Seq(S) BY FaultSetIsASequence
<1>3. log = [i \in 1 .. Len(set) |-> [record |-> "injection", source |-> "scenario", fault |-> set[i]]]
      /\ Len(set) \in Nat
  BY <1>2 DEF LogOf
<1> HIDE DEF set
<1>4. log \in Seq({log[i] : i \in 1 .. Len(set)}) BY <1>3
<1> QED BY <1>4 DEF VerdictInv, Idle, NewLine, VerdictIsOnItsOwnTruth
\* A step that shows nothing new, and waits for nothing or for what is on record.
LEMMA VerdictInvKept ==
  ASSUME VerdictInv, recent' = recent, NEW e, log' = log \/ log' = Append(log, e),
         {"pc", "posts", "station", "at", "cycles"} \subseteq DOMAIN driver', "hand" \in DOMAIN line',
         driver'.pc = "await" => HandIsOnRecord'
  PROVE  VerdictInv'
<1>1. PICK S : log \in Seq(S) BY DEF VerdictInv
<1>2. (\A serial, truth : OnRecord(serial, truth) => OnRecord(serial, truth)') /\ \E T : log' \in Seq(T)
  BY <1>1, RecordsStay
<1>3. VerdictIsOnItsOwnTruth' BY <1>2, StripIsOnRecord DEF VerdictInv
<1> QED BY <1>2, <1>3 DEF VerdictInv

\* S3 begins: the truth goes on record before anybody is told or asked.
LEMMA VerdictInvRecords == VerdictInv /\ Records => VerdictInv'
<1> SUFFICES ASSUME VerdictInv, Records PROVE VerdictInv'
  OBVIOUS
<1> DEFINE part == Head(line.belts[3])
           defects == TruthByLane(faults, part.serial, part.carrier, part.work, driver.at)
           entry == [record |-> "part", part |-> part, at |-> driver.at, defects |-> defects]
           hand == [serial |-> part.serial, carrier |-> part.carrier, work |-> part.work,
                    truth |-> ClassesOf(defects), judged |-> {}, found |-> {}]
<1>1. log' = Append(log, entry) /\ recent' = recent BY DEF Records
<1>2. DOMAIN line' = DOMAIN line /\ line'.hand = hand BY DEF Records, VerdictInv
<1>3. entry.record = "part" /\ entry.part.serial = part.serial /\ entry.defects = defects OBVIOUS
<1>4. hand.serial = part.serial /\ hand.truth = ClassesOf(defects)
      /\ {"serial", "truth", "judged", "found"} \subseteq DOMAIN hand
  OBVIOUS
<1>5. DOMAIN driver' = DOMAIN driver /\ (driver'.pc = "await" => driver'.posts = <<"truth", "inspect">>)
  BY DEF Records, Requested, VerdictInv
<1>6. PICK S : log \in Seq(S) BY DEF VerdictInv
<1> HIDE DEF entry, hand, defects, part
<1>7. log' \in Seq(S \cup {entry}) /\ Len(log) + 1 \in DOMAIN log' /\ log'[Len(log) + 1] = entry
  BY <1>1, <1>6
<1>8. OnRecord(line.hand.serial, line.hand.truth)'
  <2>1. Len(log) + 1 \in DOMAIN log' \ Injected' BY <1>3, <1>7 DEF Injected
  <2>2. log'[Len(log) + 1].part.serial = line'.hand.serial /\ ClassesOf(log'[Len(log) + 1].defects) = line'.hand.truth
    BY <1>2, <1>3, <1>4, <1>7
  <2> QED BY <2>1, <2>2 DEF OnRecord
<1>9. driver'.pc = "await" => HandIsOnRecord'
  <2>1. <<"truth", "inspect">> # <<"inspect">> /\ <<"truth", "inspect">> # <<>> OBVIOUS
  <2>2. {"serial", "truth", "judged", "found"} \subseteq DOMAIN line'.hand BY <1>2, <1>4
  <2> QED BY <1>5, <1>8, <2>1, <2>2 DEF HandIsOnRecord
<1> QED BY <1>1, <1>2, <1>5, <1>9, VerdictInvKept DEF VerdictInv

\* The service is told: it knows the part in hand.
LEMMA VerdictInvDeclares == VerdictInv /\ Declares => VerdictInv'
<1> SUFFICES ASSUME VerdictInv, Declares PROVE VerdictInv'
  OBVIOUS
<1>1. driver.pc = "await" /\ driver.posts = <<"truth", "inspect">> /\ HandIsOnRecord
  BY DEF Declares, Awaits, VerdictInv, HandIsOnRecord
<1>2. DOMAIN driver' = DOMAIN driver /\ driver'.posts = <<"inspect">> BY <1>1 DEF Declares, VerdictInv
<1>3. UNCHANGED <<line, log, recent>> BY DEF Declares, lineVars, truthVars
<1>4. line.hand.serial \in DOMAIN service' /\ service'[line.hand.serial] = line.hand.truth
  BY DEF Declares, Declared
<1>5. OnRecord(line.hand.serial, line.hand.truth)' BY <1>1, <1>3 DEF HandIsOnRecord, OnRecord, Injected
<1>6. HandIsOnRecord' BY <1>1, <1>2, <1>3, <1>4, <1>5 DEF HandIsOnRecord
<1> QED BY <1>2, <1>3, <1>6, VerdictInvKept DEF VerdictInv

\* The service is asked: it judges by what it was told.
LEMMA VerdictInvInspects == VerdictInv /\ Inspects => VerdictInv'
<1> SUFFICES ASSUME VerdictInv, Inspects PROVE VerdictInv'
  OBVIOUS
<1>1. driver.pc = "await" /\ driver.posts = <<"inspect">> /\ HandIsOnRecord
  BY DEF Inspects, Awaits, VerdictInv, HandIsOnRecord
<1>2. DOMAIN driver' = DOMAIN driver /\ driver'.posts = <<>> BY <1>1 DEF Inspects, VerdictInv
<1>3. UNCHANGED <<log, recent>> BY DEF Inspects, truthVars
<1>4. Lookup(line.hand.serial) = line.hand.truth BY <1>1 DEF Lookup, HandIsOnRecord
<1>5. PICK found : line' = [line EXCEPT !.hand = [@ EXCEPT !.found = found, !.judged = line.hand.truth]]
  BY <1>4 DEF Inspects
<1>6. DOMAIN line' = DOMAIN line /\ line'.hand = [line.hand EXCEPT !.found = found, !.judged = line.hand.truth]
  BY <1>5 DEF VerdictInv
<1>7. /\ DOMAIN line'.hand = DOMAIN line.hand /\ line'.hand.judged = line.hand.truth
      /\ line'.hand.serial = line.hand.serial /\ line'.hand.truth = line.hand.truth
  BY <1>1, <1>6 DEF HandIsOnRecord
<1>8. OnRecord(line.hand.serial, line.hand.truth)' BY <1>1, <1>3, <1>7 DEF HandIsOnRecord, OnRecord, Injected
<1>9. HandIsOnRecord' BY <1>1, <1>2, <1>7, <1>8 DEF HandIsOnRecord
<1> QED BY <1>2, <1>3, <1>6, <1>9, VerdictInvKept DEF VerdictInv

\* The outcome goes on the strip.
LEMMA VerdictInvJudges == VerdictInv /\ Judges => VerdictInv'
<1> SUFFICES ASSUME VerdictInv, Judges PROVE VerdictInv'
  OBVIOUS
<1>1. driver.pc = "await" /\ driver.posts = <<>> /\ HandIsOnRecord BY DEF Judges, VerdictInv
<1>2. OnRecord(line.hand.serial, line.hand.judged) BY <1>1 DEF HandIsOnRecord
<1>3. log' = log /\ recent'.serial = line.hand.serial /\ recent'.judged = line.hand.judged BY DEF Judges, truthVars
<1>4. VerdictIsOnItsOwnTruth' BY <1>2, <1>3 DEF OnRecord, Injected, VerdictIsOnItsOwnTruth
<1>5. driver'.pc # "await" /\ DOMAIN driver' = DOMAIN driver
  <2>1. CycleIsDone BY DEF Judges
  <2> QED BY <2>1, CycleEnds DEF VerdictInv
<1>6. "hand" \in DOMAIN line' BY DEF Judges, VerdictInv
<1> QED BY <1>3, <1>4, <1>5, <1>6 DEF VerdictInv
\* What the driver does elsewhere.
LEMMA VerdictInvElsewhere ==
  VerdictInv /\ (Suspends \/ Feeds \/ Joins \/ Fails \/ Sorts \/ Resumes \/ ReachesTheHorizon \/ Polls \/ GoesLive)
    => VerdictInv'
<1> SUFFICES ASSUME VerdictInv,
                    Suspends \/ Feeds \/ Joins \/ Fails \/ Sorts \/ Resumes \/ ReachesTheHorizon \/ Polls \/ GoesLive
             PROVE  VerdictInv'
  OBVIOUS
<1> DEFINE Quietly == /\ log' = log /\ recent' = recent /\ driver'.pc # "await"
                      /\ DOMAIN driver' = DOMAIN driver /\ "hand" \in DOMAIN line'
<1>1. ASSUME CycleIsDone, Suspends \/ Feeds \/ Joins \/ Sorts PROVE Quietly
  <2>1. driver'.pc # "await" /\ DOMAIN driver' = DOMAIN driver BY <1>1, CycleEnds DEF VerdictInv
  <2>2. log' = log /\ recent' = recent BY <1>1 DEF Suspends, Feeds, Joins, Sorts, truthVars
  <2>3. "hand" \in DOMAIN line' BY <1>1 DEF Suspends, Feeds, Joins, Sorts, lineVars, VerdictInv
  <2> QED BY <2>1, <2>2, <2>3
<1>2. ASSUME Joins, ~CycleIsDone PROVE Quietly
  <2>1. driver' = [driver EXCEPT !.pc = "down"] /\ line' = line BY <1>2 DEF Joins
  <2> QED BY <1>2, <2>1 DEF Joins, truthVars, VerdictInv
<1>3. ASSUME Fails PROVE Quietly BY <1>3 DEF Fails, lineVars, truthVars, VerdictInv
<1>4. ASSUME Resumes \/ ReachesTheHorizon \/ GoesLive PROVE Quietly
  BY <1>4 DEF Resumes, ReachesTheHorizon, GoesLive, lineVars, truthVars, VerdictInv
<1>5. ASSUME Polls PROVE Quietly
  <2>1. driver.pc = "reconcile" /\ line' = line /\ log' = log /\ recent' = recent
    BY <1>5 DEF Polls, lineVars, truthVars
  <2>2. \E still, polls, seen :
          driver' \in {Settled("waiting"), Settled("refused"),
                       [driver EXCEPT !.still = still, !.seen = seen, !.polls = polls]}
    BY <1>5 DEF Polls
  <2>3. driver'.pc # "await" /\ DOMAIN driver' = DOMAIN driver BY <2>1, <2>2 DEF Settled, VerdictInv
  <2> QED BY <2>1, <2>3 DEF VerdictInv
<1>6. Quietly BY <1>1, <1>2, <1>3, <1>4, <1>5 DEF Suspends, Feeds, Sorts
<1> QED BY <1>6, VerdictInvKept DEF VerdictInv

\* What runs beside the driver: the record grows at most.
LEMMA VerdictInvBeside ==
  VerdictInv /\ (Ticks \/ (\E stream \in Streams : Stores(stream)) \/ (\E r \in Requests : Injects(r)) \/ UNCHANGED vars)
    => VerdictInv'
<1> SUFFICES ASSUME VerdictInv,
                    Ticks \/ (\E stream \in Streams : Stores(stream)) \/ (\E r \in Requests : Injects(r))
                      \/ UNCHANGED vars
             PROVE  VerdictInv'
  OBVIOUS
<1>1. UNCHANGED <<driver, line, service, recent>>
  BY DEF Ticks, Stores, Injects, lineVars, truthVars, vars
<1>2. PICK e : log' = log \/ log' = Append(log, e)
  BY DEF Ticks, Stores, Injects, lineVars, truthVars, vars
<1>3. PICK S : log \in Seq(S) BY DEF VerdictInv
<1>4. driver'.pc = "await" => HandIsOnRecord'
  <2>1. \A serial, truth : OnRecord(serial, truth) => OnRecord(serial, truth)' BY <1>2, <1>3, RecordsStay
  <2>2. OnRecord(line.hand.serial, line.hand.truth) => OnRecord(line.hand.serial, line.hand.truth)'
    BY <1>1, <2>1 DEF OnRecord
  <2> QED BY <1>1, <2>2 DEF VerdictInv, HandIsOnRecord
<1> QED BY <1>1, <1>2, <1>4, VerdictInvKept DEF VerdictInv

LEMMA VerdictInvStep == VerdictInv /\ [Next]_vars => VerdictInv'
<1>1. VerdictInv /\ Boot => VerdictInv'
  <2>1. Boot => (driver = Idle /\ line = NewLine /\ recent = NoPart /\ (\E scenario : log = LogOf(scenario)))'
    BY DEF Boot, Boots
  <2> QED BY <2>1, VerdictInvBoots, PTL
<1> QED
  BY <1>1, VerdictInvRecords, VerdictInvDeclares, VerdictInvInspects, VerdictInvJudges, VerdictInvElsewhere,
     VerdictInvBeside DEF Next, Driver

LEMMA VerdictInvInit == Init => VerdictInv
BY VerdictInvBoots DEF Init

\* VerdictIsOnItsOwnTruth holds of every run: a verdict on the strip was given on the truth on record
\* for its part, through restarts, failed requests and injections (inspection_client.py, hmi.py).
THEOREM VerdictsAreOnRecord == Spec => []VerdictIsOnItsOwnTruth
<1>1. VerdictInv => VerdictIsOnItsOwnTruth BY DEF VerdictInv
<1> QED BY <1>1, VerdictInvInit, VerdictInvStep, PTL DEF Spec

-----------------------------------------------------------------------------
(* Traceability of S1's components, for every lot size and every schedule of *)
(* faults: the lot a component was read from when it was fed is the one the  *)
(* lane's schedule names for that instant ever after, although the schedule  *)
(* keeps no component and a lot's end is written later than the reads it has *)
(* to exclude.                                                               *)

-----------------------------------------------------------------------------
(* One lane: its lots follow each other.                                     *)

Lot == [code : Nat, loaded : Nat, depleted : Nat \cup {Never}]

Supplies(lot, at) == lot.loaded <= at /\ (lot.depleted = Never \/ at < lot.depleted)

\* Every lot but the last is closed, before the next is loaded; none is loaded after an instant.
Chained(chain, at) ==
  /\ chain \in Seq(Lot) /\ Len(chain) > 0 /\ chain[Len(chain)].depleted = Never
  /\ \A i \in 1 .. Len(chain) : chain[i].loaded <= at
  /\ \A i, j \in 1 .. Len(chain) : i < j => chain[i].depleted # Never /\ chain[i].depleted <= chain[j].loaded

\* The lot that supplied an instant, and was the one to read then.
Supplied(chain, at, code) == \E i \in 1 .. Len(chain) : Supplies(chain[i], at) /\ chain[i].code = code

\* The chain once another lot is loaded.
Lengthened(chain, at, code) == Append([chain EXCEPT ![Len(chain)].depleted = at], Loaded(code, at))

\* A lane's next lot: what was supplied before stays so.
LEMMA NextLotFollows ==
  ASSUME NEW chain, NEW at \in Nat, NEW code \in Nat, Chained(chain, at)
  PROVE  /\ Chained(Lengthened(chain, at, code), at)
         /\ \A t \in Nat : \A c :
              t < at /\ Supplied(chain, t, c) => Supplied(Lengthened(chain, at, code), t, c)
<1> DEFINE longer == Lengthened(chain, at, code)
           last == Len(chain)
           closed == [chain EXCEPT ![last].depleted = at]
           new == Loaded(code, at)
<1>1. chain \in Seq(Lot) /\ last \in Nat /\ last > 0 /\ last \in 1 .. last /\ chain[last] \in Lot
  BY DEF Chained
<1>2. new \in Lot /\ new.depleted = Never /\ new.loaded = at BY DEF Loaded, Lot
<1>3. [chain[last] EXCEPT !.depleted = at] \in Lot BY <1>1 DEF Lot
<1>4. /\ closed \in Seq(Lot) /\ Len(closed) = last
      /\ \A i \in 1 .. last : closed[i] = IF i = last THEN [chain[last] EXCEPT !.depleted = at] ELSE chain[i]
  BY <1>1, <1>3
<1>15. \A i \in 1 .. last : chain[i] \in Lot BY <1>1
<1> HIDE DEF closed, new
<1>5. longer = Append(closed, new) BY DEF closed, new, Lengthened
<1> HIDE DEF longer
<1>6. /\ longer \in Seq(Lot) /\ Len(longer) = last + 1
      /\ \A i \in 1 .. last + 1 : longer[i] = IF i = last + 1 THEN new ELSE closed[i]
  <2> HIDE DEF last
  <2>1. closed \in Seq(Lot) /\ Len(closed) = last /\ last \in Nat BY <1>1, <1>4
  <2> QED BY <1>2, <1>5, <2>1
<1>7. \A i \in 1 .. last : longer[i].code = chain[i].code /\ longer[i].loaded = chain[i].loaded
                           /\ longer[i].depleted = IF i = last THEN at ELSE chain[i].depleted
  <2> SUFFICES ASSUME NEW i \in 1 .. last
               PROVE  longer[i].code = chain[i].code /\ longer[i].loaded = chain[i].loaded
                      /\ longer[i].depleted = IF i = last THEN at ELSE chain[i].depleted
    OBVIOUS
  <2>1. longer[i] = closed[i] BY <1>1, <1>6
  <2>2. CASE i = last
    <3>1. longer[i] = [chain[last] EXCEPT !.depleted = at] BY <1>4, <2>1, <2>2
    <3> QED BY <1>1, <2>2, <3>1 DEF Lot
  <2>3. CASE i # last BY <1>4, <2>1, <2>3
  <2> QED BY <2>2, <2>3
<1>8. longer[last + 1] = new BY <1>1, <1>6
<1> HIDE DEF last
<1>9. \A i \in 1 .. last : chain[i].loaded <= at /\ chain[i].loaded \in Nat 
  BY <1>15 DEF Chained, Lot, last
<1>10. \A i, j \in 1 .. last : i < j => chain[i].depleted # Never /\ chain[i].depleted <= chain[j].loaded
                                        /\ chain[i].depleted \in Nat
  BY <1>15 DEF Chained, Lot, last
<1>11. ASSUME NEW i \in 1 .. last + 1 PROVE longer[i].loaded <= at
  <2>1. CASE i = last + 1
    <3>1. longer[i].loaded = at BY <1>2, <1>8, <2>1
    <3> QED BY <3>1
  <2>2. CASE i # last + 1
    <3>1. i \in 1 .. last BY <1>1, <2>2
    <3> QED BY <1>7, <1>9, <3>1
  <2> QED BY <2>1, <2>2
<1>12. ASSUME NEW i \in 1 .. last + 1, NEW j \in 1 .. last + 1, i < j
       PROVE  longer[i].depleted # Never /\ longer[i].depleted <= longer[j].loaded
  <2>1. i \in 1 .. last BY <1>1, <1>12
  <2>2. CASE j = last + 1
    <3>1. longer[j].loaded = at BY <1>2, <1>8, <2>2
    <3>2. CASE i = last
      <4>1. longer[i].depleted = at BY <1>7, <2>1, <3>2
      <4> QED BY <3>1, <4>1 DEF Never
    <3>3. CASE i # last
      <4>1. i < last /\ last \in 1 .. last BY <1>1, <2>1, <3>3
      <4>2. chain[i].depleted # Never /\ chain[i].depleted <= chain[last].loaded /\ chain[i].depleted \in Nat
        BY <1>10, <2>1, <4>1
      <4>3. chain[last].loaded <= at /\ chain[last].loaded \in Nat BY <1>9, <4>1
      <4>4. longer[i].depleted = chain[i].depleted BY <1>7, <2>1, <3>3
      <4>5. longer[i].depleted # Never BY <4>2, <4>4
      <4> QED BY <3>1, <4>2, <4>3, <4>4, <4>5
    <3> QED BY <3>2, <3>3
  <2>3. CASE j # last + 1
    <3>1. j \in 1 .. last /\ i # last BY <1>1, <1>12, <2>3
    <3>2. longer[i].depleted = chain[i].depleted /\ longer[j].loaded = chain[j].loaded BY <1>7, <2>1, <3>1
    <3> QED BY <1>10, <1>12, <2>1, <3>1, <3>2
  <2> QED BY <2>2, <2>3
<1>13. Chained(longer, at) BY <1>1, <1>2, <1>6, <1>8, <1>11, <1>12 DEF Chained
<1>14. ASSUME NEW t \in Nat, NEW c, t < at, Supplied(chain, t, c) PROVE Supplied(longer, t, c)
  <2>1. PICK i \in 1 .. last : Supplies(chain[i], t) /\ chain[i].code = c BY <1>14 DEF Supplied, last
  <2>2. i \in 1 .. Len(longer) BY <1>1, <1>6
  <2>3. Supplies(longer[i], t) BY <1>7, <1>14, <2>1 DEF Supplies
  <2>4. longer[i].code = c BY <1>7, <2>1
  <2> QED BY <2>2, <2>3, <2>4 DEF Supplied
<1> QED BY <1>13, <1>14 DEF longer

\* One lot at most supplies an instant: the one a lookup finds.
LEMMA OneLotSupplies ==
  ASSUME NEW schedule, NEW lane, NEW at \in Nat, NEW t \in Nat, NEW c,
         Chained(schedule.lots[lane], at), Supplied(schedule.lots[lane], t, c)
  PROVE  LotAt(schedule, lane, t) # 0 /\ schedule.lots[lane][LotAt(schedule, lane, t)].code = c
<1> DEFINE chain == schedule.lots[lane]
           found == {k \in 1 .. Len(chain) : Supplies(chain[k], t)}
<1>1. LotAt(schedule, lane, t) = IF found # {} THEN Min(found) ELSE 0
  BY DEF LotAt, SelectInSeq, Supplies
<1> HIDE DEF chain
<1>2. PICK i \in 1 .. Len(chain) : Supplies(chain[i], t) /\ chain[i].code = c BY DEF Supplied, chain
<1>3. Chained(chain, at) BY DEF chain
<1>4. Len(chain) \in Nat /\ \A k \in 1 .. Len(chain) : chain[k] \in Lot BY <1>3 DEF Chained
<1>5. ASSUME NEW k \in 1 .. Len(chain), NEW l \in 1 .. Len(chain), k < l, Supplies(chain[k], t)
      PROVE  ~Supplies(chain[l], t)
  <2>1. chain[k].depleted # Never /\ chain[k].depleted <= chain[l].loaded BY <1>3, <1>5 DEF Chained
  <2>2. chain[k].depleted \in Nat /\ chain[l].loaded \in Nat BY <1>4, <2>1 DEF Lot
  <2> QED BY <1>5, <2>1, <2>2 DEF Supplies
<1>6. found = {i}
  <2>1. \A k \in found : k = i
    <3> SUFFICES ASSUME NEW k \in 1 .. Len(chain), Supplies(chain[k], t), k # i PROVE FALSE
      OBVIOUS
    <3>1. k < i \/ i < k BY <1>4
    <3> QED BY <1>2, <1>5, <3>1
  <2> QED BY <1>2, <2>1
<1>7. i \in Nat /\ i # 0 BY <1>4
<1>8. Min(found) = i BY <1>6, <1>7 DEF Min
<1> QED BY <1>1, <1>2, <1>6, <1>7, <1>8 DEF chain
-----------------------------------------------------------------------------
(* The schedule.                                                             *)

Scheduled(schedule, at) ==
  /\ {"lots", "drawn", "next"} \subseteq DOMAIN schedule /\ schedule.next \in Nat
  /\ DOMAIN schedule.lots = LANES /\ \A lane \in LANES : Chained(schedule.lots[lane], at)

LEMMA LastSupplies ==
  ASSUME NEW chain, NEW at \in Nat, Chained(chain, at) PROVE Supplied(chain, at, chain[Len(chain)].code)
<1>1. Len(chain) \in 1 .. Len(chain) BY DEF Chained
<1>2. Supplies(chain[Len(chain)], at) BY <1>1 DEF Chained, Supplies
<1> QED BY <1>1, <1>2 DEF Supplied

LEMMA StaysChained ==
  ASSUME NEW chain, NEW at \in Nat, NEW later \in Nat, at <= later, Chained(chain, at)
  PROVE  Chained(chain, later)
<1>1. \A i \in 1 .. Len(chain) : chain[i].loaded \in Nat
  <2>1. \A i \in 1 .. Len(chain) : chain[i] \in Lot BY DEF Chained
  <2> QED BY <2>1 DEF Lot
<1>2. \A i \in 1 .. Len(chain) : chain[i].loaded <= later BY <1>1 DEF Chained
<1> QED BY <1>2 DEF Chained

\* A component more off a lane: the lot in use supplied it, and the reads before it stay true.
LEMMA DrawFollows ==
  ASSUME NEW schedule, NEW at \in Nat, NEW lane \in LANES, Scheduled(schedule, at),
         NEW drawn, drawn = DrawFrom(schedule, lane, at)
  PROVE  /\ Scheduled(drawn, at) /\ Supplied(drawn.lots[lane], at, Current(drawn, lane))
         /\ \A l \in LANES \ {lane} : drawn.lots[l] = schedule.lots[l]
         /\ \A t \in Nat : \A c : t < at /\ Supplied(schedule.lots[lane], t, c) => Supplied(drawn.lots[lane], t, c)
<1>1. CASE schedule.drawn[lane] < Settings.lot_size
  <2>1. drawn = [schedule EXCEPT !.drawn[lane] = @ + 1] BY <1>1 DEF DrawFrom
  <2>2. DOMAIN drawn = DOMAIN schedule /\ drawn.lots = schedule.lots /\ drawn.next = schedule.next
    BY <2>1 DEF Scheduled
  <2>3. Scheduled(drawn, at) BY <2>2 DEF Scheduled
  <2>4. Chained(drawn.lots[lane], at) BY <2>3 DEF Scheduled
  <2>5. Supplied(drawn.lots[lane], at, Current(drawn, lane)) BY <2>4, LastSupplies DEF Current, Last
  <2> QED BY <2>2, <2>3, <2>5
<1>2. CASE ~(schedule.drawn[lane] < Settings.lot_size)
  <2> DEFINE chain == schedule.lots[lane]
             next == schedule.next
             longer == Lengthened(chain, at, next)
  <2>1. /\ drawn.lots = [schedule.lots EXCEPT ![lane] = longer] /\ drawn.next = next + 1
        /\ {"lots", "drawn", "next"} \subseteq DOMAIN drawn
    BY <1>2 DEF DrawFrom, Lengthened
  <2>2. Chained(chain, at) /\ next \in Nat /\ DOMAIN schedule.lots = LANES BY DEF Scheduled
  <2>3. Chained(longer, at) /\ \A t \in Nat : \A c : t < at /\ Supplied(chain, t, c) => Supplied(longer, t, c)
    BY <2>2, NextLotFollows
  <2> HIDE DEF longer
  <2>4. DOMAIN drawn.lots = LANES /\ drawn.lots[lane] = longer
        /\ \A l \in LANES \ {lane} : drawn.lots[l] = schedule.lots[l]
    BY <2>1, <2>2
  <2>5. \A l \in LANES : Chained(drawn.lots[l], at) BY <2>3, <2>4 DEF Scheduled
  <2>6. Scheduled(drawn, at) BY <2>1, <2>2, <2>4, <2>5 DEF Scheduled
  <2>7. Supplied(drawn.lots[lane], at, Current(drawn, lane))
    BY <2>3, <2>4, LastSupplies DEF Current, Last
  <2> QED BY <2>3, <2>4, <2>6, <2>7
<1> QED BY <1>1, <1>2

LEMMA NewScheduleFollows == Scheduled(NewSchedule, 0)
<1>1. NewSchedule.next \in Nat
  <2>1. IsFiniteSet(1 .. 2)
    <3>1. 1 \in Int /\ 2 \in Int OBVIOUS
    <3> QED BY <3>1, FS_Interval, Zenon
  <2>2. Cardinality(LANES) \in Nat BY <2>1, FS_CardinalityType DEF LANES
  <2> QED BY <2>2 DEF NewSchedule
<1>2. \A lane \in LANES : Chained(<<Loaded(lane, 0)>>, 0)
  <2> SUFFICES ASSUME NEW lane \in LANES PROVE Chained(<<Loaded(lane, 0)>>, 0)
    OBVIOUS
  <2>1. Loaded(lane, 0) \in Lot /\ Loaded(lane, 0).depleted = Never /\ Loaded(lane, 0).loaded = 0
    BY DEF Loaded, Lot, LANES
  <2> DEFINE lot == Loaded(lane, 0)
  <2> HIDE DEF lot
  <2>2. <<lot>> \in Seq(Lot) /\ Len(<<lot>>) = 1 /\ <<lot>>[1] = lot BY <2>1 DEF lot
  <2>3. lot.depleted = Never /\ lot.loaded = 0 BY <2>1 DEF lot
  <2>4. Chained(<<lot>>, 0) BY <2>2, <2>3 DEF Chained
  <2> QED BY <2>4 DEF lot
<1> QED BY <1>1, <1>2 DEF Scheduled, NewSchedule

-----------------------------------------------------------------------------
(* The plant.                                                                *)

\* Every read is an instant before the driver's, of a lot that still says so.
LotsInv ==
  /\ {"pc", "live", "at", "station", "cycles", "posts"} \subseteq DOMAIN driver /\ driver.at \in Nat
  /\ Scheduled(lots, driver.at)
  /\ \A r \in reads :
       r.lane \in LANES /\ r.at \in Nat /\ r.at < driver.at /\ Supplied(lots.lots[r.lane], r.at, r.lot)

LEMMA LotsAgree == LotsInv => ReadsAgreeWithTheSchedule
<1> SUFFICES ASSUME LotsInv, NEW r \in reads
             PROVE  LotAt(lots, r.lane, r.at) # 0 /\ lots.lots[r.lane][LotAt(lots, r.lane, r.at)].code = r.lot
  BY DEF ReadsAgreeWithTheSchedule
<1>1. /\ driver.at \in Nat /\ r.at \in Nat /\ Chained(lots.lots[r.lane], driver.at)
      /\ Supplied(lots.lots[r.lane], r.at, r.lot)
  BY DEF LotsInv, Scheduled
<1> DEFINE lane == r.lane
           t == r.at
           c == r.lot
           at == driver.at
<1>2. at \in Nat /\ t \in Nat /\ Chained(lots.lots[lane], at) /\ Supplied(lots.lots[lane], t, c) BY <1>1
<1> HIDE DEF lane, t, c, at
<1>3. LotAt(lots, lane, t) # 0 /\ lots.lots[lane][LotAt(lots, lane, t)].code = c BY <1>2, OneLotSupplies
<1> QED BY <1>3 DEF lane, t, c

\* A step that feeds nothing may only move the driver on.
LEMMA LotsStay ==
  ASSUME LotsInv, UNCHANGED <<lots, reads>>, DOMAIN driver' = DOMAIN driver,
         driver'.at \in {driver.at, driver.at + 1}
  PROVE  LotsInv'
<1>1. driver.at \in Nat /\ driver'.at \in Nat /\ driver.at <= driver'.at BY DEF LotsInv
<1>2. Scheduled(lots, driver'.at)
  <2>1. \A lane \in LANES : Chained(lots.lots[lane], driver'.at) BY <1>1, StaysChained DEF LotsInv, Scheduled
  <2> QED BY <2>1 DEF LotsInv, Scheduled
<1>3. \A r \in reads :
        r.lane \in LANES /\ r.at \in Nat /\ r.at < driver'.at /\ Supplied(lots.lots[r.lane], r.at, r.lot)
  BY <1>1 DEF LotsInv
<1> QED BY <1>1, <1>2, <1>3 DEF LotsInv

\* A cycle leaves the driver at its instant, or at the next one after S1's.
LEMMA CycleMovesOn ==
  ASSUME LotsInv, CycleIsDone
  PROVE  /\ DOMAIN driver' = DOMAIN driver /\ driver'.at \in {driver.at, driver.at + 1}
         /\ driver.station = 1 => driver'.at = driver.at + 1
BY DEF CycleIsDone, AfterCycle, Onward, LotsInv

\* S1 reads a lot of either lane; neither draw moves the other lane's.
LEMMA LotsFed == ASSUME LotsInv, Feeds PROVE LotsInv'
<1> DEFINE at == driver.at
           one == DrawFrom(lots, 1, at)
           both == DrawFrom(one, 2, at)
           fed == {[lane |-> lane, lot |-> Current(both, lane), at |-> at] : lane \in LANES}
<1>1. at \in Nat /\ Scheduled(lots, at) /\ 1 \in LANES /\ 2 \in LANES /\ LANES = {1, 2} BY DEF LotsInv, LANES
<1>2. lots' = both /\ reads' = reads \cup fed /\ driver.station = 1 /\ CycleIsDone BY DEF Feeds, AtStation
<1>3. DOMAIN driver' = DOMAIN driver /\ driver'.at = at + 1 BY <1>2, CycleMovesOn
<1>4. /\ Scheduled(one, at) /\ Supplied(one.lots[1], at, Current(one, 1)) /\ one.lots[2] = lots.lots[2]
      /\ \A t \in Nat : \A c : t < at /\ Supplied(lots.lots[1], t, c) => Supplied(one.lots[1], t, c)
  <2> HIDE DEF one, at
  <2>1. one = DrawFrom(lots, 1, at) BY DEF one
  <2> QED BY <1>1, <2>1, DrawFollows
<1>5. /\ Scheduled(both, at) /\ Supplied(both.lots[2], at, Current(both, 2)) /\ both.lots[1] = one.lots[1]
      /\ \A t \in Nat : \A c : t < at /\ Supplied(one.lots[2], t, c) => Supplied(both.lots[2], t, c)
  <2> HIDE DEF both, one, at
  <2>1. both = DrawFrom(one, 2, at) BY DEF both
  <2> QED BY <1>1, <1>4, <2>1, DrawFollows
<1>6. Current(both, 1) = Current(one, 1) BY <1>5 DEF Current
<1> HIDE DEF one, both
<1>7. Scheduled(both, at + 1)
  <2>1. \A lane \in LANES : Chained(both.lots[lane], at + 1) BY <1>1, <1>5, StaysChained DEF Scheduled
  <2> QED BY <1>5, <2>1 DEF Scheduled
<1>8. ASSUME NEW r \in reads
      PROVE  r.lane \in LANES /\ r.at \in Nat /\ r.at < at + 1 /\ Supplied(both.lots[r.lane], r.at, r.lot)
  <2>1. r.lane \in LANES /\ r.at \in Nat /\ r.at < at /\ Supplied(lots.lots[r.lane], r.at, r.lot) BY DEF LotsInv
  <2> DEFINE t == r.at
             c == r.lot
  <2>4. t \in Nat /\ t < at /\ Supplied(lots.lots[r.lane], t, c) BY <2>1
  <2> HIDE DEF t, c
  <2>2. CASE r.lane = 1
    <3>1. Supplied(both.lots[1], t, c) BY <1>4, <1>5, <2>2, <2>4
    <3> QED BY <1>1, <2>1, <2>2, <3>1 DEF t, c
  <2>3. CASE r.lane = 2
    <3>1. Supplied(both.lots[2], t, c) BY <1>4, <1>5, <2>3, <2>4
    <3> QED BY <1>1, <2>1, <2>3, <3>1 DEF t, c
  <2> QED BY <1>1, <2>1, <2>2, <2>3
<1>9. ASSUME NEW r \in fed
      PROVE  r.lane \in LANES /\ r.at \in Nat /\ r.at < at + 1 /\ Supplied(both.lots[r.lane], r.at, r.lot)
  <2>1. PICK lane \in LANES : r = [lane |-> lane, lot |-> Current(both, lane), at |-> at] OBVIOUS
  <2>2. r.lane = lane /\ r.lot = Current(both, lane) /\ r.at = at BY <2>1
  <2>3. Supplied(both.lots[lane], at, Current(both, lane)) BY <1>1, <1>4, <1>5, <1>6
  <2> QED BY <1>1, <2>2, <2>3
<1> HIDE DEF fed
<1>10. \A r \in reads' : r.lane \in LANES /\ r.at \in Nat /\ r.at < at + 1 /\ Supplied(both.lots[r.lane], r.at, r.lot)
  BY <1>2, <1>8, <1>9
<1> QED BY <1>1, <1>2, <1>3, <1>7, <1>10 DEF LotsInv

\* A boot starts a schedule nobody has read of.
LEMMA NewLots == driver = Idle /\ lots = NewSchedule /\ reads = {} => LotsInv
BY NewScheduleFollows DEF LotsInv, Idle

LEMMA InitLots == Init => LotsInv
BY NewLots DEF Init

LEMMA NextLots == LotsInv /\ [Next]_vars => LotsInv'
<1> SUFFICES ASSUME LotsInv, [Next]_vars PROVE LotsInv'
  OBVIOUS
<1>1. CASE Feeds BY <1>1, LotsFed
<1>2. CASE Suspends BY <1>2, CycleMovesOn, LotsStay DEF Suspends, lineVars
<1>3. CASE Joins
  <2>1. UNCHANGED <<lots, reads>> /\ (CycleIsDone \/ driver' = [driver EXCEPT !.pc = "down"])
    BY <1>3 DEF Joins
  <2> QED BY <2>1, CycleMovesOn, LotsStay DEF LotsInv
<1>4. CASE Records BY <1>4, LotsStay DEF Records, LotsInv
<1>5. CASE Declares BY <1>5, LotsStay DEF Declares, LotsInv, lineVars
<1>6. CASE Inspects BY <1>6, LotsStay DEF Inspects, LotsInv
<1>7. CASE Fails BY <1>7, LotsStay DEF Fails, LotsInv, lineVars
<1>8. CASE Judges BY <1>8, CycleMovesOn, LotsStay DEF Judges
<1>9. CASE Sorts BY <1>9, CycleMovesOn, LotsStay DEF Sorts
<1>10. CASE Resumes BY <1>10, LotsStay DEF Resumes, LotsInv, lineVars
<1>11. CASE ReachesTheHorizon BY <1>11, LotsStay DEF ReachesTheHorizon, LotsInv, lineVars
<1>12. CASE Polls
  <2>1. UNCHANGED <<lots, reads>> BY <1>12 DEF Polls, lineVars
  <2>2. \/ \E pc : driver' = Settled(pc)
        \/ \E still, seen, polls : driver' = [driver EXCEPT !.still = still, !.seen = seen, !.polls = polls]
    BY <1>12 DEF Polls
  <2>3. DOMAIN driver' = DOMAIN driver /\ driver'.at = driver.at BY <2>2 DEF Settled, LotsInv
  <2> QED BY <2>1, <2>3, LotsStay
<1>13. CASE GoesLive BY <1>13, LotsStay DEF GoesLive, LotsInv, lineVars
<1>14. CASE Boot
  <2>1. driver' = Idle /\ lots' = NewSchedule /\ reads' = {} BY <1>14 DEF Boot, Boots
  <2>2. (driver = Idle /\ lots = NewSchedule /\ reads = {} => LotsInv)' BY NewLots, PTL
  <2> QED BY <2>1, <2>2
<1>15. CASE Ticks BY <1>15, LotsStay DEF Ticks, lineVars
<1>16. CASE \E stream \in Streams : Stores(stream) BY <1>16, LotsStay DEF Stores, lineVars
<1>17. CASE \E r \in Requests : Injects(r) BY <1>17, LotsStay DEF Injects, lineVars
<1>18. CASE UNCHANGED vars BY <1>18, LotsStay DEF vars
<1> QED
  BY <1>1, <1>2, <1>3, <1>4, <1>5, <1>6, <1>7, <1>8, <1>9, <1>10, <1>11, <1>12, <1>13, <1>14, <1>15, <1>16,
     <1>17, <1>18
  DEF Next, Driver

\* What a component was read from when S1 fed it, LotSchedule.lot_at answers for it ever after: for
\* every lot size, in both lanes, over any number of lots, and after a restart.
THEOREM LotsAreTraceable == Spec => []ReadsAgreeWithTheSchedule
BY InitLots, NextLots, LotsAgree, PTL DEF Spec

-----------------------------------------------------------------------------
(* Reconciliation judges the history rightly, for every depth, speed and     *)
(* queue: that row counts agree means that nothing was lost, although the    *)
(* counts are all it looks at.  No induction over the rows is needed.  Each  *)
(* stream publishes 0, 1, 2, ... once, so a row's value tells how many were  *)
(* published before it, and the rows and notifications on either side of it  *)
(* bound it from below and from above; where nothing is missing the two      *)
(* bounds meet.                                                              *)

-----------------------------------------------------------------------------
(* One stream: r stored, q on their way, n published.                        *)

InOrder(r, q, n) ==
  /\ r \in Seq(Int) /\ q \in Seq(Int) /\ n \in Nat
  /\ \A i \in 1 .. Len(r) : i - 1 <= r[i] /\ r[i] <= n - 1 - (Len(r) - i) - Len(q)
  /\ \A i \in 1 .. Len(q) : Len(r) + i - 1 <= q[i] /\ q[i] <= n - 1 - (Len(q) - i)

\* A notification that falls out of a full queue leaves the others between their bounds.
LEMMA QueuedKeepsOrder ==
  ASSUME NEW r, NEW q, NEW n, InOrder(r, q, n) PROVE InOrder(r, Queued(q, n), n + 1)
<1> QueueCap \in Nat \ {0} BY PlantAssumption
<1> USE DEF InOrder
<1>1. CASE Len(q) # QueueCap
  <2>1. Queued(q, n) = Append(q, n) BY <1>1 DEF Queued
  <2>2. Append(q, n) \in Seq(Int) /\ Len(Append(q, n)) = Len(q) + 1 OBVIOUS
  <2>3. Len(r) + Len(q) <= n
    <3>1. CASE Len(q) > 0 BY <3>1
    <3>2. CASE Len(q) = 0 /\ Len(r) > 0 BY <3>2
    <3>3. CASE Len(q) = 0 /\ Len(r) = 0 BY <3>3
    <3> QED BY <3>1, <3>2, <3>3
  <2>4. \A i \in 1 .. Len(q) + 1 : Append(q, n)[i] = IF i = Len(q) + 1 THEN n ELSE q[i] OBVIOUS
  <2> QED BY <2>1, <2>2, <2>3, <2>4
<1>2. CASE Len(q) = QueueCap
  <2> DEFINE t == Tail(q)
             new == Append(t, n)
  <2>1. Queued(q, n) = new BY <1>2 DEF Queued
  <2>2. t \in Seq(Int) /\ Len(t) = Len(q) - 1 /\ Len(q) > 0 BY <1>2
  <2>3. \A i \in 1 .. Len(q) - 1 : t[i] = q[i + 1] BY <2>2
  <2> HIDE DEF t
  <2>4. new \in Seq(Int) /\ Len(new) = Len(q) BY <2>2
  <2>5. \A i \in 1 .. Len(q) : new[i] = IF i = Len(q) THEN n ELSE t[i] BY <2>2
  <2> HIDE DEF new, InOrder
  <2>6. Len(q) \in Nat /\ Len(r) \in Nat /\ n \in Nat BY DEF InOrder
  <2>7. Len(r) + Len(q) <= n
    <3>1. Len(q) \in 1 .. Len(q) BY <2>2, <2>6
    <3>2. Len(r) + Len(q) - 1 <= q[Len(q)] /\ q[Len(q)] <= n - 1 - (Len(q) - Len(q)) /\ q[Len(q)] \in Int
      BY <3>1 DEF InOrder
    <3> QED BY <2>6, <3>2
  <2>8. ASSUME NEW i \in 1 .. Len(q)
        PROVE  Len(r) + i - 1 <= new[i] /\ new[i] <= n - (Len(q) - i)
    <3>1. CASE i = Len(q) BY <2>5, <2>6, <2>7, <3>1
    <3>2. CASE i # Len(q)
      <4>1. i \in 1 .. Len(q) - 1 /\ i + 1 \in 1 .. Len(q) BY <2>6, <3>2
      <4>2. new[i] = q[i + 1] BY <2>3, <2>5, <3>2, <4>1
      <4>3. Len(r) + (i + 1) - 1 <= q[i + 1] /\ q[i + 1] <= n - 1 - (Len(q) - (i + 1)) /\ q[i + 1] \in Int
        BY <4>1 DEF InOrder
      <4> QED BY <2>6, <4>2, <4>3
    <3> QED BY <3>1, <3>2
  <2>9. InOrder(r, new, n + 1) BY <2>4, <2>6, <2>8 DEF InOrder
  <2> QED BY <2>1, <2>9
<1> QED BY <1>1, <1>2

\* A notification that is stored goes from one side to the other.
LEMMA StoredKeepsOrder ==
  ASSUME NEW r, NEW q, NEW n, InOrder(r, q, n), q # <<>>
  PROVE  InOrder(Append(r, Head(q)), Tail(q), n)
<1> USE DEF InOrder
<1>1. Len(q) > 0 /\ Head(q) = q[1] /\ q[1] \in Int OBVIOUS
<1>2. Tail(q) \in Seq(Int) /\ Len(Tail(q)) = Len(q) - 1 /\ \A i \in 1 .. Len(q) - 1 : Tail(q)[i] = q[i + 1]
  BY <1>1
<1>3. Append(r, q[1]) \in Seq(Int) /\ Len(Append(r, q[1])) = Len(r) + 1 BY <1>1
<1>4. \A i \in 1 .. Len(r) + 1 : Append(r, q[1])[i] = IF i = Len(r) + 1 THEN q[1] ELSE r[i] BY <1>1
<1> DEFINE row == Append(r, q[1])
           rest == Tail(q)
<1>5. Len(r) \in Nat /\ Len(q) \in Nat /\ n \in Nat /\ r \in Seq(Int) /\ q \in Seq(Int) OBVIOUS
<1> HIDE DEF row, rest, InOrder
<1>6. ASSUME NEW i \in 1 .. Len(r) + 1
      PROVE  i - 1 <= row[i] /\ row[i] <= n - 1 - (Len(r) + 1 - i) - (Len(q) - 1)
  <2>1. CASE i = Len(r) + 1
    <3>1. 1 \in 1 .. Len(q) BY <1>1, <1>5
    <3>2. Len(r) + 1 - 1 <= q[1] /\ q[1] <= n - 1 - (Len(q) - 1) BY <3>1 DEF InOrder
    <3>3. row[i] = q[1] BY <1>4, <2>1 DEF row
    <3> QED BY <1>1, <1>5, <2>1, <3>2, <3>3
  <2>2. CASE i # Len(r) + 1
    <3>1. i \in 1 .. Len(r) BY <1>5, <2>2
    <3>2. i - 1 <= r[i] /\ r[i] <= n - 1 - (Len(r) - i) - Len(q) /\ r[i] \in Int BY <3>1 DEF InOrder
    <3>3. row[i] = r[i] BY <1>4, <2>2 DEF row
    <3> QED BY <1>5, <3>1, <3>2, <3>3
  <2> QED BY <2>1, <2>2
<1>7. ASSUME NEW i \in 1 .. Len(q) - 1
      PROVE  Len(r) + 1 + i - 1 <= rest[i] /\ rest[i] <= n - 1 - (Len(q) - 1 - i)
  <2>1. i + 1 \in 1 .. Len(q) BY <1>5
  <2>2. Len(r) + (i + 1) - 1 <= q[i + 1] /\ q[i + 1] <= n - 1 - (Len(q) - (i + 1)) /\ q[i + 1] \in Int
    BY <2>1 DEF InOrder
  <2>3. rest[i] = q[i + 1] BY <1>2 DEF rest
  <2> QED BY <1>5, <2>2, <2>3
<1>8. row \in Seq(Int) /\ Len(row) = Len(r) + 1 /\ rest \in Seq(Int) /\ Len(rest) = Len(q) - 1
  BY <1>2, <1>3 DEF row, rest
<1>9. InOrder(row, rest, n) BY <1>5, <1>6, <1>7, <1>8 DEF InOrder
<1> QED BY <1>1, <1>9 DEF row, rest

\* As many rows as were published are all of them, in their order, and nothing is on its way.
LEMMA EnoughIsWhole ==
  ASSUME NEW r, NEW q, NEW n, InOrder(r, q, n), Len(r) = n
  PROVE  q = <<>> /\ r = [i \in 1 .. n |-> i - 1]
<1> USE DEF InOrder
<1>1. Len(q) = 0
  <2>1. CASE Len(q) > 0 BY <2>1
  <2> QED BY <2>1
<1>2. \A i \in 1 .. n : r[i] = i - 1 BY <1>1
<1> QED BY <1>1, <1>2
-----------------------------------------------------------------------------
(* The parts between S1 and S3: the next serials, in their order.            *)

IsSeq(s) == \E S : s \in Seq(S)
Serial(part, n) == "serial" \in DOMAIN part /\ part.serial = n

\* b to be joined, c joined and waiting for S3, n the serial it takes next.
Numbered(b, c, n) ==
  /\ IsSeq(b) /\ IsSeq(c) /\ n \in Nat
  /\ \A i \in 1 .. Len(c) : Serial(c[i], n + i - 1)
  /\ \A i \in 1 .. Len(b) : Serial(b[i], n + Len(c) + i - 1)

LEMMA AppendsAny ==
  ASSUME NEW s, NEW x, IsSeq(s)
  PROVE  /\ IsSeq(Append(s, x)) /\ Len(s) \in Nat /\ Len(Append(s, x)) = Len(s) + 1
         /\ \A i \in 1 .. Len(s) + 1 : Append(s, x)[i] = IF i = Len(s) + 1 THEN x ELSE s[i]
<1>1. PICK S : s \in Seq(S) BY DEF IsSeq
<1>2. s \in Seq(S \cup {x}) BY <1>1
<1>3. Append(s, x) \in Seq(S \cup {x}) BY <1>2
<1>4. Len(s) \in Nat /\ Len(Append(s, x)) = Len(s) + 1
      /\ \A i \in 1 .. Len(s) + 1 : Append(s, x)[i] = IF i = Len(s) + 1 THEN x ELSE s[i]
  BY <1>2
<1> QED BY <1>3, <1>4 DEF IsSeq

LEMMA TailsAny ==
  ASSUME NEW s, IsSeq(s), s # <<>>
  PROVE  /\ IsSeq(Tail(s)) /\ Len(s) \in Nat /\ Len(s) > 0 /\ Len(Tail(s)) = Len(s) - 1
         /\ Head(s) = s[1] /\ \A i \in 1 .. Len(s) - 1 : Tail(s)[i] = s[i + 1]
<1>1. PICK S : s \in Seq(S) BY DEF IsSeq
<1>2. Tail(s) \in Seq(S) BY <1>1
<1>3. Len(s) \in Nat /\ Len(s) > 0 /\ Len(Tail(s)) = Len(s) - 1
      /\ Head(s) = s[1] /\ \A i \in 1 .. Len(s) - 1 : Tail(s)[i] = s[i + 1]
  BY <1>1
<1> QED BY <1>2, <1>3 DEF IsSeq

LEMMA FedInOrder ==
  ASSUME NEW b, NEW c, NEW n, NEW p, Numbered(b, c, n), Serial(p, n + Len(c) + Len(b))
  PROVE  Numbered(Append(b, p), c, n) /\ Len(b) \in Nat /\ Len(Append(b, p)) = Len(b) + 1
<1> DEFINE new == Append(b, p)
<1>1. IsSeq(new) /\ Len(b) \in Nat /\ Len(new) = Len(b) + 1
      /\ \A i \in 1 .. Len(b) + 1 : new[i] = IF i = Len(b) + 1 THEN p ELSE b[i]
  BY AppendsAny DEF Numbered
<1>2. Len(c) \in Nat BY AppendsAny DEF Numbered
<1> HIDE DEF new
<1>3. ASSUME NEW i \in 1 .. Len(new) PROVE Serial(new[i], n + Len(c) + i - 1)
  <2>1. CASE i = Len(b) + 1
    <3>1. n + Len(c) + i - 1 = n + Len(c) + Len(b) BY <1>1, <1>2, <2>1 DEF Numbered
    <3> QED BY <1>1, <2>1, <3>1
  <2>2. CASE i # Len(b) + 1
    <3>1. i \in 1 .. Len(b) /\ new[i] = b[i] BY <1>1, <2>2
    <3> QED BY <3>1 DEF Numbered
  <2> QED BY <2>1, <2>2
<1>4. Numbered(new, c, n) BY <1>1, <1>3 DEF Numbered
<1> QED BY <1>1, <1>4 DEF new

LEMMA JoinedInOrder ==
  ASSUME NEW b, NEW c, NEW n, NEW p, Numbered(b, c, n), b # <<>>,
         Serial(Head(b), n + Len(c)) => Serial(p, n + Len(c))
  PROVE  Numbered(Tail(b), Append(c, p), n) /\ Len(b) \in Nat /\ Len(c) \in Nat
         /\ Len(Tail(b)) = Len(b) - 1 /\ Len(Append(c, p)) = Len(c) + 1
<1> DEFINE t == Tail(b)
           new == Append(c, p)
<1>1. IsSeq(new) /\ Len(c) \in Nat /\ Len(new) = Len(c) + 1
      /\ \A i \in 1 .. Len(c) + 1 : new[i] = IF i = Len(c) + 1 THEN p ELSE c[i]
  BY AppendsAny DEF Numbered
<1>2. IsSeq(t) /\ Len(b) \in Nat /\ Len(b) > 0 /\ Len(t) = Len(b) - 1
      /\ Head(b) = b[1] /\ \A i \in 1 .. Len(b) - 1 : t[i] = b[i + 1]
  BY TailsAny DEF Numbered
<1> HIDE DEF t, new
<1>3. n \in Nat BY DEF Numbered
<1>4. Serial(p, n + Len(c))
  <2>1. 1 \in 1 .. Len(b) BY <1>2
  <2>2. Serial(b[1], n + Len(c) + 1 - 1) BY <2>1 DEF Numbered
  <2>3. n + Len(c) + 1 - 1 = n + Len(c) BY <1>1, <1>3
  <2> QED BY <1>2, <2>2, <2>3
<1>5. ASSUME NEW i \in 1 .. Len(new) PROVE Serial(new[i], n + i - 1)
  <2>1. CASE i = Len(c) + 1
    <3>1. n + i - 1 = n + Len(c) BY <1>1, <1>3, <2>1
    <3> QED BY <1>1, <1>4, <2>1, <3>1
  <2>2. CASE i # Len(c) + 1
    <3>1. i \in 1 .. Len(c) /\ new[i] = c[i] BY <1>1, <2>2
    <3> QED BY <3>1 DEF Numbered
  <2> QED BY <2>1, <2>2
<1>6. ASSUME NEW i \in 1 .. Len(t) PROVE Serial(t[i], n + Len(new) + i - 1)
  <2>1. i + 1 \in 1 .. Len(b) /\ t[i] = b[i + 1] BY <1>2
  <2>2. Serial(b[i + 1], n + Len(c) + (i + 1) - 1) BY <2>1 DEF Numbered
  <2>3. n + Len(c) + (i + 1) - 1 = n + Len(new) + i - 1 BY <1>1, <1>3
  <2> QED BY <2>1, <2>2, <2>3
<1>7. Numbered(t, new, n) BY <1>1, <1>2, <1>3, <1>5, <1>6 DEF Numbered
<1> QED BY <1>1, <1>2, <1>7 DEF t, new

LEMMA TakenInOrder ==
  ASSUME NEW b, NEW c, NEW n, Numbered(b, c, n), c # <<>>
  PROVE  Numbered(b, Tail(c), n + 1) /\ Serial(Head(c), n) /\ Len(c) \in Nat /\ Len(Tail(c)) = Len(c) - 1
         /\ Len(b) \in Nat
<1> DEFINE t == Tail(c)
<1>1. IsSeq(t) /\ Len(c) \in Nat /\ Len(c) > 0 /\ Len(t) = Len(c) - 1
      /\ Head(c) = c[1] /\ \A i \in 1 .. Len(c) - 1 : t[i] = c[i + 1]
  BY TailsAny DEF Numbered
<1>2. Len(b) \in Nat BY AppendsAny DEF Numbered
<1> HIDE DEF t
<1>3. n \in Nat BY DEF Numbered
<1>4. Serial(Head(c), n)
  <2>1. 1 \in 1 .. Len(c) BY <1>1
  <2>2. Serial(c[1], n + 1 - 1) BY <2>1 DEF Numbered
  <2>3. n + 1 - 1 = n BY <1>3
  <2> QED BY <1>1, <2>2, <2>3
<1>5. ASSUME NEW i \in 1 .. Len(t) PROVE Serial(t[i], n + 1 + i - 1)
  <2>1. i + 1 \in 1 .. Len(c) /\ t[i] = c[i + 1] BY <1>1
  <2>2. Serial(c[i + 1], n + (i + 1) - 1) BY <2>1 DEF Numbered
  <2>3. n + (i + 1) - 1 = n + 1 + i - 1 BY <1>3
  <2> QED BY <2>1, <2>2, <2>3
<1>6. ASSUME NEW i \in 1 .. Len(b) PROVE Serial(b[i], n + 1 + Len(t) + i - 1)
  <2>1. Serial(b[i], n + Len(c) + i - 1) BY DEF Numbered
  <2>2. n + Len(c) + i - 1 = n + 1 + Len(t) + i - 1 BY <1>1, <1>3
  <2> QED BY <2>1, <2>2
<1>7. IsSeq(b) /\ n + 1 \in Nat BY <1>3 DEF Numbered
<1>8. Numbered(b, t, n + 1) BY <1>1, <1>5, <1>6, <1>7 DEF Numbered
<1> QED BY <1>1, <1>2, <1>4, <1>8 DEF t
-----------------------------------------------------------------------------
(* The plant.                                                                *)

\* The streams: what is stored and on its way tells how much was published.
StreamsInv ==
  /\ rows \in [Streams -> Seq(Int)] /\ queue \in [Streams -> Seq(Int)]
  /\ ledger \in [Streams -> [rows : Nat, last : Int]]
  /\ \A s \in Streams : InOrder(rows[s], queue[s], ledger[s].rows)

\* Rejects are published as they are counted.
RejectsInv ==
  line.reject \in Nat /\ ledger[REJECTS].rows = line.reject + 1 /\ ledger[REJECTS].last = line.reject

\* The serial of the first part S3 has not taken: the one in its hand is not published yet.
Ahead == IF driver.pc = "await" THEN ledger[EVENTS].rows + 1 ELSE ledger[EVENTS].rows

PartsInv ==
  /\ {"belts", "fed", "reject", "hand"} \subseteq DOMAIN line /\ DOMAIN line.belts = Working
  /\ {"pc", "live", "at", "station", "cycles", "posts"} \subseteq DOMAIN driver
  /\ Numbered(line.belts[2], line.belts[3], Ahead)
  /\ line.fed = Ahead + Len(line.belts[3]) + Len(line.belts[2])
  /\ driver.pc = "await" => Serial(line.hand, ledger[EVENTS].rows)

HistoryInv ==
  /\ Up => StreamsInv /\ RejectsInv /\ PartsInv
  /\ ReconcileIsRight

\* A row more of a stream: what every publication of the line is, but for a count that repeats.
LEMMA PublishedInOrder ==
  ASSUME StreamsInv, NEW s \in Streams, Publish(s, ledger[s].rows),
         s = EVENTS \/ ledger[s].last # ledger[s].rows
  PROVE  /\ StreamsInv' /\ ledger'[s] = [rows |-> ledger[s].rows + 1, last |-> ledger[s].rows]
         /\ \A t \in Streams \ {s} : ledger'[t] = ledger[t]
<1> DEFINE n == ledger[s].rows
<1>1. n \in Nat /\ n \in Int BY DEF StreamsInv
<1>2. Counts(s, n) /\ Reports(s, n) BY DEF Counts, Reports
<1>3. /\ ledger' = [ledger EXCEPT ![s] = [rows |-> n + 1, last |-> n]]
      /\ queue' = [queue EXCEPT ![s] = Queued(queue[s], n)] /\ rows' = rows
  BY <1>2 DEF Publish, StreamsInv
<1>4. InOrder(rows[s], Queued(queue[s], n), n + 1) BY QueuedKeepsOrder DEF StreamsInv
<1>5. Queued(queue[s], n) \in Seq(Int) BY <1>4 DEF InOrder
<1>6. ledger'[s] = [rows |-> n + 1, last |-> n] /\ \A t \in Streams \ {s} : ledger'[t] = ledger[t]
  BY <1>3 DEF StreamsInv
<1>7. ledger' \in [Streams -> [rows : Nat, last : Int]] BY <1>1, <1>3 DEF StreamsInv
<1>8. queue' \in [Streams -> Seq(Int)] /\ rows' \in [Streams -> Seq(Int)] BY <1>3, <1>5 DEF StreamsInv
<1>9. \A t \in Streams : InOrder(rows'[t], queue'[t], ledger'[t].rows)
  <2> SUFFICES ASSUME NEW t \in Streams PROVE InOrder(rows'[t], queue'[t], ledger'[t].rows)
    OBVIOUS
  <2>1. CASE t = s
    <3>1. queue'[s] = Queued(queue[s], n) BY <1>3 DEF StreamsInv
    <3>2. ledger'[s].rows = n + 1 BY <1>6
    <3> QED BY <1>3, <1>4, <2>1, <3>1, <3>2
  <2>2. CASE t # s
    <3>1. queue'[t] = queue[t] BY <1>3, <2>2 DEF StreamsInv
    <3>2. ledger'[t] = ledger[t] BY <1>6, <2>2
    <3> QED BY <1>3, <3>1, <3>2 DEF StreamsInv
  <2> QED BY <2>1, <2>2
<1>10. StreamsInv' BY <1>7, <1>8, <1>9 DEF StreamsInv
<1> QED BY <1>6, <1>10

\* A count that repeats is no row.
LEMMA RepeatsNothing ==
  ASSUME StreamsInv, Publish(REJECTS, ledger[REJECTS].last) PROVE UNCHANGED historyVars
<1>1. REJECTS # EVENTS /\ REJECTS \in Streams BY DEF REJECTS, EVENTS, Streams
<1>2. ~Counts(REJECTS, ledger[REJECTS].last) /\ ~Reports(REJECTS, ledger[REJECTS].last)
  BY <1>1 DEF Counts, Reports
<1>3. /\ ledger' = [ledger EXCEPT ![REJECTS] = [rows |-> ledger[REJECTS].rows, last |-> ledger[REJECTS].last]]
      /\ queue' = [queue EXCEPT ![REJECTS] = queue[REJECTS]] /\ rows' = rows
  BY <1>1, <1>2 DEF Publish, StreamsInv
<1>4. ledger[REJECTS] = [rows |-> ledger[REJECTS].rows, last |-> ledger[REJECTS].last]
  BY <1>1 DEF StreamsInv
<1>5. ledger' = ledger BY <1>3, <1>4 DEF StreamsInv
<1>6. queue' = queue BY <1>3 DEF StreamsInv
<1> QED BY <1>3, <1>5, <1>6 DEF historyVars

\* The driver after a cycle: somewhere the next one begins.
LEMMA CycleGoesOn ==
  ASSUME {"pc", "live", "at", "station", "cycles", "posts"} \subseteq DOMAIN driver, CycleIsDone
  PROVE  DOMAIN driver' = DOMAIN driver /\ driver'.pc \in {"sleep", "pause", "step"}
BY DEF CycleIsDone, AfterCycle, Onward

\* Nothing of the history is looked at but at the seam.
LEMMA SeamIsElsewhere ==
  driver'.pc \notin {"waiting", "refused"} => ReconcileIsRight'
BY DEF ReconcileIsRight
-----------------------------------------------------------------------------
(* The steps.                                                                *)

\* A step that leaves the history, the line and the driver's place as they are.
LEMMA HistoryStutters ==
  ASSUME HistoryInv, UNCHANGED <<historyVars, line, driver>> PROVE HistoryInv'
BY DEF HistoryInv, historyVars, StreamsInv, RejectsInv, PartsInv, Ahead, ReconcileIsRight, HistoryIsWhole, Up

\* The history starts in order: a row of zero rejects is on its way.
LEMMA NothingYet ==
  ASSUME driver = Idle, line = NewLine, ledger = PrimedLedger, queue = PrimedQueue,
         rows = [s \in Streams |-> <<>>]
  PROVE  HistoryInv
<1>1. REJECTS # EVENTS /\ Streams = {REJECTS, EVENTS} BY DEF REJECTS, EVENTS, Streams
<1>2. /\ ledger[REJECTS] = [rows |-> 1, last |-> 0] /\ ledger[EVENTS] = [rows |-> 0, last |-> 0]
      /\ ledger \in [Streams -> [rows : Nat, last : Int]]
  BY <1>1 DEF PrimedLedger
<1>3. queue[REJECTS] = <<0>> /\ queue[EVENTS] = <<>> /\ queue \in [Streams -> Seq(Int)]
  BY <1>1 DEF PrimedQueue
<1>4. rows[REJECTS] = <<>> /\ rows[EVENTS] = <<>> /\ rows \in [Streams -> Seq(Int)] BY <1>1
<1>5. InOrder(<<>>, <<0>>, 1) /\ InOrder(<<>>, <<>>, 0) BY DEF InOrder
<1>6. \A s \in Streams : InOrder(rows[s], queue[s], ledger[s].rows) BY <1>1, <1>2, <1>3, <1>4, <1>5
<1>7. StreamsInv BY <1>2, <1>3, <1>4, <1>6 DEF StreamsInv
<1>8. RejectsInv BY <1>2 DEF RejectsInv, NewLine
<1>9. PartsInv
  <2>1. DOMAIN line = {"belts", "fed", "good", "reject", "hand"} /\ DOMAIN line.belts = Working /\ line.fed = 0
        /\ line.belts[2] = <<>> /\ line.belts[3] = <<>>
    BY DEF NewLine, Working
  <2>2. driver.pc = "step" /\ {"pc", "live", "at", "station", "cycles", "posts"} \subseteq DOMAIN driver BY DEF Idle
  <2>3. Ahead = 0 BY <1>2, <2>2 DEF Ahead
  <2>4. <<>> \in Seq({}) /\ Len(<<>>) = 0 OBVIOUS
  <2>5. Numbered(<<>>, <<>>, 0) BY <2>4 DEF Numbered, IsSeq
  <2> QED BY <2>1, <2>2, <2>3, <2>4, <2>5 DEF PartsInv
<1>10. ReconcileIsRight BY DEF ReconcileIsRight, Idle
<1> QED BY <1>7, <1>8, <1>9, <1>10 DEF HistoryInv

\* A step of the driver that neither makes nor publishes anything, and does not end at the seam.
LEMMA DriverMoves ==
  ASSUME HistoryInv, Up, UNCHANGED <<historyVars, line>>, DOMAIN driver' = DOMAIN driver,
         driver'.pc \notin {"waiting", "refused"},
         driver'.pc = "await" <=> driver.pc = "await"
  PROVE  HistoryInv'
<1>1. StreamsInv' /\ RejectsInv' BY DEF HistoryInv, StreamsInv, RejectsInv, historyVars
<1>2. Ahead' = Ahead BY DEF Ahead, historyVars
<1>3. PartsInv' BY <1>2 DEF HistoryInv, PartsInv, historyVars
<1> QED BY <1>1, <1>3, SeamIsElsewhere DEF HistoryInv

\* A step after which the plant is down, and was not refused.
LEMMA GoesDown == ASSUME driver'.pc = "down" PROVE HistoryInv'
BY SeamIsElsewhere DEF HistoryInv, Up

\* S1 takes the next serial.
LEMMA FeedsInOrder == ASSUME HistoryInv, Feeds PROVE HistoryInv'
<1>1. /\ driver.pc = "step" /\ Up /\ CycleIsDone /\ UNCHANGED historyVars
  BY DEF Feeds, AtStation, Up
<1>2. StreamsInv /\ RejectsInv /\ PartsInv BY <1>1 DEF HistoryInv
<1> DEFINE part == [serial |-> line.fed, carrier |-> line.fed % Cardinality(DOMAIN Propensity), work |-> Whole(0),
                    disposition |-> "none"]
<1>3. line' = [line EXCEPT !.fed = @ + 1, !.belts[2] = Append(@, part)] BY DEF Feeds
<1>4. "serial" \in DOMAIN part /\ part.serial = line.fed OBVIOUS
<1> HIDE DEF part
<1>5. Serial(part, Ahead + Len(line.belts[3]) + Len(line.belts[2])) BY <1>2, <1>4 DEF Serial, PartsInv
<1>6. /\ DOMAIN line' = DOMAIN line /\ DOMAIN line'.belts = Working /\ line'.fed = line.fed + 1
      /\ line'.belts[2] = Append(line.belts[2], part) /\ line'.belts[3] = line.belts[3]
      /\ line'.reject = line.reject /\ line'.hand = line.hand
  BY <1>2, <1>3 DEF PartsInv, Working
<1>7. DOMAIN driver' = DOMAIN driver /\ driver'.pc \in {"sleep", "pause", "step"}
  BY <1>1, <1>2, CycleGoesOn DEF PartsInv
<1>8. Ahead' = Ahead /\ Ahead \in Nat BY <1>1, <1>2, <1>7 DEF Ahead, historyVars, PartsInv, Numbered
<1>9. /\ Numbered(line'.belts[2], line'.belts[3], Ahead) /\ Len(line.belts[2]) \in Nat
      /\ Len(line'.belts[2]) = Len(line.belts[2]) + 1
  BY <1>2, <1>5, <1>6, FedInOrder DEF PartsInv
<1>10. Len(line.belts[3]) \in Nat BY <1>2, AppendsAny DEF PartsInv, Numbered
<1>11. line'.fed = Ahead + Len(line'.belts[3]) + Len(line'.belts[2])
  <2> DEFINE b == line.belts[2]
             c == line.belts[3]
  <2>1. line.fed = Ahead + Len(c) + Len(b) BY <1>2 DEF PartsInv
  <2>2. Len(line'.belts[3]) = Len(c) /\ line'.fed = line.fed + 1 BY <1>6
  <2>3. Ahead \in Nat /\ Len(c) \in Nat BY <1>8, <1>10
  <2>4. Len(b) \in Nat /\ Len(line'.belts[2]) = Len(b) + 1 BY <1>9
  <2> HIDE DEF b, c
  <2> QED BY <2>1, <2>2, <2>3, <2>4
<1>12. PartsInv' BY <1>2, <1>6, <1>7, <1>8, <1>9, <1>11 DEF PartsInv
<1>13. StreamsInv' /\ RejectsInv' BY <1>1, <1>2, <1>6 DEF StreamsInv, RejectsInv, historyVars
<1> QED BY <1>7, <1>12, <1>13, SeamIsElsewhere DEF HistoryInv

\* S2 hands the oldest of its parts on, as it came but for its work.
LEMMA JoinsInOrder == ASSUME HistoryInv, Joins PROVE HistoryInv'
<1>1. driver.pc = "step" /\ Up /\ UNCHANGED historyVars BY DEF Joins, AtStation, Up
<1>2. StreamsInv /\ RejectsInv /\ PartsInv BY <1>1 DEF HistoryInv
<1>3. CASE driver' = [driver EXCEPT !.pc = "down"]
  <2>1. driver'.pc = "down" BY <1>2, <1>3 DEF PartsInv
  <2> QED BY <2>1, GoesDown
<1>4. CASE driver' # [driver EXCEPT !.pc = "down"]
  <2> DEFINE work == WorkOf(Clamp(faults, driver.at), Contact(faults, driver.at))
             b == line.belts[2]
             c == line.belts[3]
             part == [Head(b) EXCEPT !.work = work]
  <2>1. /\ line' = [line EXCEPT !.belts[2] = Tail(@), !.belts[3] = Append(@, part)]
        /\ CycleIsDone
    BY <1>4 DEF Joins
  <2>2. b # <<>> BY DEF Joins, Suspended, Working
  <2>3. Serial(Head(b), Ahead + Len(c)) => Serial(part, Ahead + Len(c)) BY DEF Serial
  <2> HIDE DEF part
  <2>4. /\ DOMAIN line' = DOMAIN line /\ DOMAIN line'.belts = Working /\ line'.fed = line.fed
        /\ line'.belts[2] = Tail(b) /\ line'.belts[3] = Append(c, part)
        /\ line'.reject = line.reject /\ line'.hand = line.hand
    <3>1. line' = [line EXCEPT !.belts[2] = Tail(b), !.belts[3] = Append(c, part)] BY <2>1
    <3>2. {"belts", "fed", "reject", "hand"} \subseteq DOMAIN line /\ DOMAIN line.belts = {2, 3, 4}
      BY <1>2 DEF PartsInv, Working
    <3> HIDE DEF b, c
    <3> QED BY <3>1, <3>2 DEF Working
  <2>5. DOMAIN driver' = DOMAIN driver /\ driver'.pc \in {"sleep", "pause", "step"}
    BY <1>2, <2>1, CycleGoesOn DEF PartsInv
  <2>6. Ahead' = Ahead /\ Ahead \in Nat BY <1>1, <1>2, <2>5 DEF Ahead, historyVars, PartsInv, Numbered
  <2>7. /\ Numbered(line'.belts[2], line'.belts[3], Ahead) /\ Len(b) \in Nat /\ Len(c) \in Nat
        /\ Len(line'.belts[2]) = Len(b) - 1 /\ Len(line'.belts[3]) = Len(c) + 1
    <3> HIDE DEF b, c
    <3>1. Numbered(b, c, Ahead) BY <1>2 DEF PartsInv, b, c
    <3> QED BY <2>2, <2>3, <2>4, <3>1, JoinedInOrder
  <2>8. line'.fed = Ahead + Len(line'.belts[3]) + Len(line'.belts[2])
    <3>1. line.fed = Ahead + Len(c) + Len(b) BY <1>2 DEF PartsInv
    <3>2. line'.fed = line.fed BY <2>4
    <3>3. Ahead \in Nat BY <2>6
    <3>4. Len(b) \in Nat /\ Len(c) \in Nat /\ Len(line'.belts[2]) = Len(b) - 1
          /\ Len(line'.belts[3]) = Len(c) + 1
      BY <2>7
    <3> HIDE DEF b, c
    <3> QED BY <3>1, <3>2, <3>3, <3>4
  <2>9. PartsInv' BY <1>2, <2>4, <2>5, <2>6, <2>7, <2>8 DEF PartsInv
  <2>10. StreamsInv' /\ RejectsInv' BY <1>1, <1>2, <2>4 DEF StreamsInv, RejectsInv, historyVars
  <2> QED BY <2>5, <2>9, <2>10, SeamIsElsewhere DEF HistoryInv
<1> QED BY <1>3, <1>4

\* S3 takes the oldest joined part into its hand.
LEMMA RecordsInOrder == ASSUME HistoryInv, Records PROVE HistoryInv'
<1>1. driver.pc = "step" /\ Up /\ UNCHANGED historyVars BY DEF Records, AtStation, Up
<1>2. StreamsInv /\ RejectsInv /\ PartsInv BY <1>1 DEF HistoryInv
<1>3. CASE driver' = [driver EXCEPT !.pc = "down"]
  <2>1. driver'.pc = "down" BY <1>2, <1>3 DEF PartsInv
  <2> QED BY <2>1, GoesDown
<1>4. CASE driver' # [driver EXCEPT !.pc = "down"]
  <2> DEFINE b == line.belts[2]
             c == line.belts[3]
             n == ledger[EVENTS].rows
             hand == [serial |-> Head(c).serial, carrier |-> Head(c).carrier, work |-> Head(c).work,
                      truth |-> ClassesOf(TruthByLane(faults, Head(c).serial, Head(c).carrier, Head(c).work,
                                                      driver.at)),
                      judged |-> {}, found |-> {}]
  <2>1. /\ line' = [line EXCEPT !.belts[3] = Tail(@), !.hand = hand]
        /\ driver' = [driver EXCEPT !.pc = "await", !.posts = Requested]
    BY <1>4 DEF Records
  <2>2. c # <<>> BY DEF Records, Suspended, Working
  <2>3. "serial" \in DOMAIN hand /\ hand.serial = Head(c).serial OBVIOUS
  <2> HIDE DEF hand
  <2>4. /\ DOMAIN line' = DOMAIN line /\ DOMAIN line'.belts = Working /\ line'.fed = line.fed
        /\ line'.belts[2] = b /\ line'.belts[3] = Tail(c)
        /\ line'.reject = line.reject /\ line'.hand = hand
    BY <1>2, <2>1 DEF PartsInv, Working
  <2>5. DOMAIN driver' = DOMAIN driver /\ driver'.pc = "await" BY <1>2, <2>1 DEF PartsInv
  <2>6. Ahead = n /\ Ahead' = n + 1 /\ n \in Nat /\ ledger'[EVENTS].rows = n
    BY <1>1, <1>2, <2>5 DEF Ahead, historyVars, PartsInv, Numbered
  <2>7. /\ Numbered(line'.belts[2], line'.belts[3], n + 1) /\ Len(b) \in Nat /\ Len(c) \in Nat
        /\ Len(line'.belts[3]) = Len(c) - 1 /\ Serial(Head(c), n)
    <3> HIDE DEF b, c
    <3>1. Numbered(b, c, n) BY <1>2, <2>6 DEF PartsInv, b, c
    <3> QED BY <2>2, <2>4, <3>1, TakenInOrder
  <2>8. line'.fed = n + 1 + Len(line'.belts[3]) + Len(line'.belts[2])
    <3>1. line.fed = n + Len(c) + Len(b) BY <1>2, <2>6 DEF PartsInv
    <3>2. line'.fed = line.fed /\ Len(line'.belts[2]) = Len(b) BY <2>4
    <3>3. n \in Nat BY <2>6
    <3>4. Len(b) \in Nat /\ Len(c) \in Nat /\ Len(line'.belts[3]) = Len(c) - 1 BY <2>7
    <3> HIDE DEF b, c, n
    <3> QED BY <3>1, <3>2, <3>3, <3>4
  <2>9. Serial(line'.hand, ledger'[EVENTS].rows) BY <2>3, <2>4, <2>6, <2>7 DEF Serial
  <2>10. PartsInv' BY <1>2, <2>4, <2>5, <2>6, <2>7, <2>8, <2>9 DEF PartsInv
  <2>11. StreamsInv' /\ RejectsInv' BY <1>1, <1>2, <2>4 DEF StreamsInv, RejectsInv, historyVars
  <2> QED BY <2>5, <2>10, <2>11, SeamIsElsewhere DEF HistoryInv
<1> QED BY <1>3, <1>4

\* What the service finds is not the part's serial.
LEMMA InspectsInOrder == ASSUME HistoryInv, Inspects PROVE HistoryInv'
<1>1. /\ driver.pc = "await" /\ Up /\ UNCHANGED historyVars
      /\ driver' = [driver EXCEPT !.posts = Tail(@)]
  BY DEF Inspects, Awaits, Up
<1>2. StreamsInv /\ RejectsInv /\ PartsInv BY <1>1 DEF HistoryInv
<1>3. PICK found, judged : line' = [line EXCEPT !.hand = [@ EXCEPT !.found = found, !.judged = judged]]
  BY DEF Inspects
<1>4. /\ DOMAIN line' = DOMAIN line /\ line'.fed = line.fed /\ line'.belts = line.belts
      /\ line'.reject = line.reject
      /\ line'.hand = [line.hand EXCEPT !.found = found, !.judged = judged]
  BY <1>2, <1>3 DEF PartsInv
<1>5. DOMAIN driver' = DOMAIN driver /\ driver'.pc = "await" BY <1>1, <1>2 DEF PartsInv
<1>6. ledger' = ledger /\ Ahead' = Ahead BY <1>1, <1>5 DEF Ahead, historyVars
<1>7. Serial(line'.hand, ledger[EVENTS].rows) BY <1>1, <1>2, <1>4 DEF PartsInv, Serial
<1>8. PartsInv' BY <1>2, <1>4, <1>5, <1>6, <1>7 DEF PartsInv
<1>9. StreamsInv' /\ RejectsInv' BY <1>1, <1>2, <1>4 DEF StreamsInv, RejectsInv, historyVars
<1> QED BY <1>5, <1>8, <1>9, SeamIsElsewhere DEF HistoryInv

\* S3 publishes the part in its hand: the next row of its events.
LEMMA JudgesInOrder == ASSUME HistoryInv, Judges PROVE HistoryInv'
<1>1. driver.pc = "await" /\ Up /\ CycleIsDone BY DEF Judges, Up
<1>2. StreamsInv /\ RejectsInv /\ PartsInv BY <1>1 DEF HistoryInv
<1>3. EVENTS \in Streams /\ REJECTS \in Streams \ {EVENTS} BY DEF REJECTS, EVENTS, Streams
<1>4. Publish(EVENTS, ledger[EVENTS].rows) BY <1>1, <1>2 DEF Judges, PartsInv, Serial
<1>5. /\ StreamsInv' /\ ledger'[REJECTS] = ledger[REJECTS]
      /\ ledger'[EVENTS] = [rows |-> ledger[EVENTS].rows + 1, last |-> ledger[EVENTS].rows]
  BY <1>2, <1>3, <1>4, PublishedInOrder
<1>6. PICK part : line' = [line EXCEPT !.hand = NoPart, !.belts[4] = Append(@, part)] BY DEF Judges
<1>7. /\ DOMAIN line' = DOMAIN line /\ DOMAIN line'.belts = Working /\ line'.fed = line.fed
      /\ line'.belts[2] = line.belts[2] /\ line'.belts[3] = line.belts[3] /\ line'.reject = line.reject
  BY <1>2, <1>6 DEF PartsInv, Working
<1>8. DOMAIN driver' = DOMAIN driver /\ driver'.pc \in {"sleep", "pause", "step"}
  BY <1>1, <1>2, CycleGoesOn DEF PartsInv
<1>9. Ahead' = Ahead BY <1>1, <1>5, <1>8 DEF Ahead
<1>10. PartsInv' BY <1>2, <1>7, <1>8, <1>9 DEF PartsInv
<1>11. RejectsInv' BY <1>2, <1>5, <1>7 DEF RejectsInv
<1> QED BY <1>5, <1>8, <1>10, <1>11, SeamIsElsewhere DEF HistoryInv

\* S4 publishes the count of rejects: the next row of it, or none.
LEMMA SortsInOrder == ASSUME HistoryInv, Sorts PROVE HistoryInv'
<1>1. driver.pc = "step" /\ Up /\ CycleIsDone BY DEF Sorts, AtStation, Up
<1>2. StreamsInv /\ RejectsInv /\ PartsInv BY <1>1 DEF HistoryInv
<1>3. REJECTS \in Streams /\ EVENTS \in Streams \ {REJECTS} BY DEF REJECTS, EVENTS, Streams
<1> DEFINE disposition == Head(line.belts[4]).disposition
           rejected == line.reject + (IF disposition = "reject" THEN 1 ELSE 0)
           good == line.good + (IF disposition = "good" THEN 1 ELSE 0)
<1>4. /\ line' = [line EXCEPT !.belts[4] = Tail(@), !.reject = rejected, !.good = good]
      /\ Publish(REJECTS, rejected)
  BY DEF Sorts
<1>10. rejected \in {line.reject, line.reject + 1} BY <1>2 DEF RejectsInv
<1> HIDE DEF rejected, good
<1>5. /\ DOMAIN line' = DOMAIN line /\ DOMAIN line'.belts = Working /\ line'.fed = line.fed
      /\ line'.belts[2] = line.belts[2] /\ line'.belts[3] = line.belts[3] /\ line'.reject = rejected
      /\ line'.hand = line.hand
  BY <1>2, <1>4 DEF PartsInv, Working
<1>6. StreamsInv' /\ ledger'[EVENTS] = ledger[EVENTS] /\ RejectsInv'
  <2>1. CASE rejected = line.reject
    <3>1. UNCHANGED historyVars BY <1>2, <1>4, <2>1, RepeatsNothing DEF RejectsInv
    <3> QED BY <1>2, <1>5, <2>1, <3>1 DEF historyVars, StreamsInv, RejectsInv
  <2>2. CASE rejected = line.reject + 1
    <3>1. rejected = ledger[REJECTS].rows /\ ledger[REJECTS].last # ledger[REJECTS].rows
      BY <1>2, <2>2 DEF RejectsInv
    <3>2. /\ StreamsInv' /\ ledger'[EVENTS] = ledger[EVENTS]
          /\ ledger'[REJECTS] = [rows |-> ledger[REJECTS].rows + 1, last |-> ledger[REJECTS].rows]
      BY <1>2, <1>3, <1>4, <3>1, PublishedInOrder
    <3> QED BY <1>2, <1>5, <2>2, <3>1, <3>2 DEF RejectsInv
  <2> QED BY <1>10, <2>1, <2>2
<1>7. DOMAIN driver' = DOMAIN driver /\ driver'.pc \in {"sleep", "pause", "step"}
  BY <1>1, <1>2, CycleGoesOn DEF PartsInv
<1>8. Ahead' = Ahead BY <1>1, <1>6, <1>7 DEF Ahead
<1>9. PartsInv' BY <1>1, <1>2, <1>5, <1>6, <1>7, <1>8 DEF PartsInv
<1> QED BY <1>6, <1>7, <1>9, SeamIsElsewhere DEF HistoryInv
\* The historian stores what was published, in its order. Where the counts agreed there is nothing to store.
LEMMA StoresInOrder ==
  ASSUME HistoryInv, NEW stream \in Streams, Stores(stream) PROVE HistoryInv'
<1>1. /\ Yields /\ Up /\ queue[stream] # <<>> /\ driver' = driver /\ line' = line /\ ledger' = ledger
      /\ rows' = [rows EXCEPT ![stream] = Append(@, Head(queue[stream]))]
      /\ queue' = [queue EXCEPT ![stream] = Tail(@)]
  BY DEF Stores, Yields, Up, lineVars
<1>2. StreamsInv /\ RejectsInv /\ PartsInv /\ ReconcileIsRight BY <1>1 DEF HistoryInv
<1> DEFINE r == rows[stream]
           q == queue[stream]
           n == ledger[stream].rows
<1>3. InOrder(r, q, n) BY <1>2 DEF StreamsInv
<1>4. InOrder(Append(r, Head(q)), Tail(q), n)
  <2> HIDE DEF r, q, n
  <2>1. q # <<>> BY <1>1 DEF q
  <2> QED BY <1>3, <2>1, StoredKeepsOrder
<1>5. rows' = [rows EXCEPT ![stream] = Append(r, Head(q))] /\ queue' = [queue EXCEPT ![stream] = Tail(q)]
  BY <1>1
<1>6. Append(r, Head(q)) \in Seq(Int) /\ Tail(q) \in Seq(Int) BY <1>4 DEF InOrder
<1>7. StreamsInv'
  <2>1. rows' \in [Streams -> Seq(Int)] /\ queue' \in [Streams -> Seq(Int)]
    BY <1>2, <1>5, <1>6 DEF StreamsInv
  <2>2. \A t \in Streams : InOrder(rows'[t], queue'[t], ledger'[t].rows)
    <3> SUFFICES ASSUME NEW t \in Streams PROVE InOrder(rows'[t], queue'[t], ledger[t].rows)
      BY <1>1
    <3>1. CASE t = stream
      <4>1. rows'[t] = Append(r, Head(q)) /\ queue'[t] = Tail(q) BY <1>2, <1>5, <3>1 DEF StreamsInv
      <4> QED BY <1>4, <3>1, <4>1
    <3>2. CASE t # stream
      <4>1. rows'[t] = rows[t] /\ queue'[t] = queue[t] BY <1>2, <1>5, <3>2 DEF StreamsInv
      <4> QED BY <1>2, <4>1 DEF StreamsInv
    <3> QED BY <3>1, <3>2
  <2> QED BY <1>1, <1>2, <2>1, <2>2 DEF StreamsInv
<1>8. RejectsInv' /\ PartsInv' BY <1>1, <1>2 DEF RejectsInv, PartsInv, Ahead
<1>9. driver.pc # "waiting"
  <2> SUFFICES ASSUME driver.pc = "waiting" PROVE FALSE
    OBVIOUS
  <2>1. HistoryIsWhole BY <1>2 DEF ReconcileIsRight
  <2>2. Len(r) = n
    <3>1. CASE stream = EVENTS
      <4>1. r = [i \in 1 .. n |-> i - 1] /\ n \in Nat BY <1>2, <2>1, <3>1 DEF HistoryIsWhole, StreamsInv
      <4> HIDE DEF r, n
      <4> QED BY <4>1
    <3>2. CASE stream = REJECTS
      <4>1. r = [i \in 1 .. n |-> i - 1] /\ n \in Nat
        BY <1>2, <2>1, <3>2 DEF HistoryIsWhole, StreamsInv, RejectsInv
      <4> HIDE DEF r, n
      <4> QED BY <4>1
    <3> QED BY <3>1, <3>2 DEF Streams
  <2> HIDE DEF r, q, n
  <2>3. q = <<>> BY <1>3, <2>2, EnoughIsWhole
  <2> QED BY <1>1, <2>3 DEF q
<1>10. ReconcileIsRight' BY <1>1, <1>9 DEF ReconcileIsRight, Yields
<1> QED BY <1>7, <1>8, <1>10 DEF HistoryInv

\* Reconciliation takes equal counts for a whole history, and they are one.
LEMMA PollsRightly == ASSUME HistoryInv, Polls PROVE HistoryInv'
<1>1. driver.pc = "reconcile" /\ Up /\ UNCHANGED historyVars /\ line' = line BY DEF Polls, Up, lineVars
<1>2. StreamsInv /\ RejectsInv /\ PartsInv BY <1>1 DEF HistoryInv
<1> DEFINE counts == [s \in Streams |-> Len(rows[s])]
<1>3. Streams = {REJECTS, EVENTS} BY DEF Streams
<1>4. Agrees(counts) <=> HistoryIsWhole
  <2>1. \A s \in Streams : Len(rows[s]) = ledger[s].rows => rows[s] = [i \in 1 .. ledger[s].rows |-> i - 1]
    <3> SUFFICES ASSUME NEW s \in Streams, Len(rows[s]) = ledger[s].rows
                 PROVE  rows[s] = [i \in 1 .. ledger[s].rows |-> i - 1]
      OBVIOUS
    <3>1. InOrder(rows[s], queue[s], ledger[s].rows) BY <1>2 DEF StreamsInv
    <3> QED BY <3>1, EnoughIsWhole
  <2>2. \A s \in Streams : rows[s] = [i \in 1 .. ledger[s].rows |-> i - 1] => Len(rows[s]) = ledger[s].rows
    <3> SUFFICES ASSUME NEW s \in Streams, rows[s] = [i \in 1 .. ledger[s].rows |-> i - 1]
                 PROVE  Len(rows[s]) = ledger[s].rows
      OBVIOUS
    <3>1. ledger[s].rows \in Nat BY <1>2 DEF StreamsInv
    <3> QED BY <3>1
  <2>3. HistoryIsWhole <=> \A s \in Streams : rows[s] = [i \in 1 .. ledger[s].rows |-> i - 1]
    BY <1>2, <1>3 DEF HistoryIsWhole, RejectsInv
  <2>4. Agrees(counts) <=> \A s \in Streams : Len(rows[s]) = ledger[s].rows BY DEF Agrees
  <2> QED BY <2>1, <2>2, <2>3, <2>4
<1>5. HistoryIsWhole' <=> HistoryIsWhole BY <1>1 DEF HistoryIsWhole, historyVars
<1>6. StreamsInv' /\ RejectsInv' BY <1>1, <1>2 DEF StreamsInv, RejectsInv, historyVars
<1>7. ASSUME DOMAIN driver' = DOMAIN driver, driver'.pc # "await" PROVE PartsInv'
  <2>1. Ahead' = Ahead BY <1>1, <1>7 DEF Ahead, historyVars
  <2> QED BY <1>1, <1>2, <1>7, <2>1 DEF PartsInv, historyVars
<1> HIDE DEF counts
<1>8. CASE Agrees(counts)
  <2>1. driver' = Settled("waiting") BY <1>8 DEF Polls, counts
  <2>2. DOMAIN driver' = DOMAIN driver /\ driver'.pc = "waiting" BY <1>2, <2>1 DEF Settled, PartsInv
  <2> QED BY <1>4, <1>5, <1>6, <1>7, <1>8, <2>2 DEF HistoryInv, ReconcileIsRight
<1>9. CASE ~Agrees(counts)
  <2>1. \/ driver' = Settled("refused")
        \/ \E still, seen, polls : driver' = [driver EXCEPT !.still = still, !.seen = seen, !.polls = polls]
    BY <1>9 DEF Polls, counts
  <2>2. CASE driver' = Settled("refused")
    <3>1. driver'.pc = "refused" BY <1>2, <2>2 DEF Settled, PartsInv
    <3> QED BY <1>4, <1>5, <1>9, <3>1 DEF HistoryInv, ReconcileIsRight, Up
  <2>3. CASE \E still, seen, polls : driver' = [driver EXCEPT !.still = still, !.seen = seen, !.polls = polls]
    <3>1. DOMAIN driver' = DOMAIN driver /\ driver'.pc = "reconcile" BY <1>1, <1>2, <2>3 DEF PartsInv
    <3> QED BY <1>6, <1>7, <3>1, SeamIsElsewhere DEF HistoryInv
  <2> QED BY <2>1, <2>2, <2>3
<1> QED BY <1>8, <1>9

LEMMA InitHistory == Init => HistoryInv
BY NothingYet DEF Init

LEMMA NextHistory == HistoryInv /\ [Next]_vars => HistoryInv'
<1> SUFFICES ASSUME HistoryInv, [Next]_vars PROVE HistoryInv'
  OBVIOUS
<1>1. CASE Suspends
  <2>1. driver.pc = "step" /\ Up /\ CycleIsDone /\ UNCHANGED <<historyVars, line>>
    BY <1>1 DEF Suspends, AtStation, Up, lineVars
  <2>2. DOMAIN driver' = DOMAIN driver /\ driver'.pc \in {"sleep", "pause", "step"}
    BY <2>1, CycleGoesOn DEF HistoryInv, PartsInv
  <2> QED BY <2>1, <2>2, DriverMoves
<1>2. CASE Feeds BY <1>2, FeedsInOrder
<1>3. CASE Joins BY <1>3, JoinsInOrder
<1>4. CASE Records BY <1>4, RecordsInOrder
<1>5. CASE Declares
  <2>1. driver.pc = "await" /\ Up /\ driver' = [driver EXCEPT !.posts = Tail(@)] /\ UNCHANGED <<historyVars, line>>
    BY <1>5 DEF Declares, Awaits, Up, lineVars
  <2>2. DOMAIN driver' = DOMAIN driver /\ driver'.pc = "await" BY <2>1 DEF HistoryInv, PartsInv
  <2> QED BY <2>1, <2>2, DriverMoves
<1>6. CASE Inspects BY <1>6, InspectsInOrder
<1>7. CASE Fails
  <2>1. driver'.pc = "down" BY <1>7 DEF Fails, HistoryInv, PartsInv, Up
  <2> QED BY <2>1, GoesDown
<1>8. CASE Judges BY <1>8, JudgesInOrder
<1>9. CASE Sorts BY <1>9, SortsInOrder
<1>10. CASE Resumes
  <2>1. /\ driver.pc \in {"pause", "sleep"} /\ Up /\ driver' = [driver EXCEPT !.pc = "step"]
        /\ UNCHANGED <<historyVars, line>>
    BY <1>10 DEF Resumes, Up, lineVars
  <2>2. DOMAIN driver' = DOMAIN driver /\ driver'.pc = "step" BY <2>1 DEF HistoryInv, PartsInv
  <2> QED BY <2>1, <2>2, DriverMoves
<1>11. CASE ReachesTheHorizon
  <2>1. /\ driver.pc = "step" /\ Up /\ driver' = [driver EXCEPT !.pc = "reconcile", !.cycles = 0]
        /\ UNCHANGED <<historyVars, line>>
    BY <1>11 DEF ReachesTheHorizon, Up, lineVars
  <2>2. DOMAIN driver' = DOMAIN driver /\ driver'.pc = "reconcile" BY <2>1 DEF HistoryInv, PartsInv
  <2> QED BY <2>1, <2>2, DriverMoves
<1>12. CASE Polls BY <1>12, PollsRightly
<1>13. CASE GoesLive
  <2>1. /\ driver.pc = "waiting" /\ Up /\ driver' = [driver EXCEPT !.pc = "step", !.live = TRUE]
        /\ UNCHANGED <<historyVars, line>>
    BY <1>13 DEF GoesLive, Up, lineVars
  <2>2. DOMAIN driver' = DOMAIN driver /\ driver'.pc = "step" BY <2>1 DEF HistoryInv, PartsInv
  <2> QED BY <2>1, <2>2, DriverMoves
<1>14. CASE Boot
  <2>1. /\ driver' = Idle /\ line' = NewLine /\ ledger' = PrimedLedger /\ queue' = PrimedQueue
        /\ rows' = [s \in Streams |-> <<>>]
    BY <1>14 DEF Boot, Boots
  <2>2. (driver = Idle /\ line = NewLine /\ ledger = PrimedLedger /\ queue = PrimedQueue
           /\ rows = [s \in Streams |-> <<>>] => HistoryInv)'
    BY NothingYet, PTL
  <2> QED BY <2>1, <2>2
<1>15. CASE Ticks BY <1>15, HistoryStutters DEF Ticks, lineVars
<1>16. ASSUME NEW stream \in Streams, Stores(stream) PROVE HistoryInv'
  BY <1>16, StoresInOrder
<1>17. ASSUME NEW request \in Requests, Injects(request) PROVE HistoryInv'
  BY <1>17, HistoryStutters DEF Injects, lineVars
<1>18. CASE UNCHANGED vars BY <1>18, HistoryStutters DEF vars, lineVars, historyVars
<1> QED
  BY <1>1, <1>2, <1>3, <1>4, <1>5, <1>6, <1>7, <1>8, <1>9, <1>10, <1>11, <1>12, <1>13, <1>14, <1>15, <1>16,
     <1>17, <1>18
  DEF Next, Driver

\* Catch-up passes a history if and only if it holds every event and every count the line
\* published, in their order, for every depth, speed, batch, queue, buffer, scenario and request:
\* reconcile's counts are enough, because the streams publish every value once and in order.
THEOREM HistoryIsRightlyJudged == Spec => []ReconcileIsRight
<1>1. HistoryInv => ReconcileIsRight BY DEF HistoryInv
<1> QED BY <1>1, InitHistory, NextHistory, PTL DEF Spec
=============================================================================
