---------------------------- MODULE GatewayProofs ----------------------------
(***************************************************************************)
(* That the gaps a backfill leaves are the named ones, and that no         *)
(* subscription outlives the teardown into a catch-up: for every set of    *)
(* streams, depth of history, width of a window, length of a run and       *)
(* number of crashes, drops, restarts and faults, wherever they fall.      *)
(***************************************************************************)
EXTENDS Gateway, Integers, TLAPS

-----------------------------------------------------------------------------
(* The inductive invariant.                                                  *)

\* Neither on its way to storage, nor known to be missing, nor let go of.
Owed(x) == x \notin accepted \cup pending \cup exposed /\ x[2] \notin gaps

\* A row the backfill under way has not come to, in its window or in a later one.
Unread(x) == bf.start <= x[2] /\ x[2] <= bf.to /\ (x[1] \in bf.unread \/ WindowEnd < x[2])
InWindow(x) == x[1] \in bf.unread /\ bf.start <= x[2] /\ x[2] <= WindowEnd

PlantOK ==
  /\ now \in Times /\ written \in Nat /\ written <= now
  /\ phase \in {"catchup", "live"} /\ link \in {"up", "down", "back"}
  /\ subscribed \in {"own", "stale", "lost", "none"} /\ signals \in Nat
  /\ accepted \subseteq Samples /\ pending \subseteq Samples /\ wire \subseteq history

\* What the resume point will be is the instant of an accepted row.
QueueOK ==
  /\ rising \subseteq Times /\ lastStored \in Times
  /\ \A t \in rising \cup {lastStored} : t = 0 \/ \E y \in accepted : t <= y[2]

BackfillOK ==
  step = "read" => /\ bf.start \in Times /\ bf.to \in Times /\ bf.kept \in Nat
                   /\ bf = [to |-> bf.to, start |-> bf.start, unread |-> bf.unread,
                            kept |-> bf.kept]
                   /\ bf.unread \subseteq Streams /\ bf.unread # {}

\* Nothing is owed that is as old as something on its way to storage, save in the window being
\* read: the resume point is safe, whatever the drain has done.
ResumeSafe ==
  \A x \in Samples, y \in accepted \cup pending :
    x[2] <= y[2] /\ Owed(x) => step = "read" /\ x \in history /\ InWindow(x)

\* What is owed of history is still to be read by the backfill, or on the own subscription's
\* wire.
ReadSafe == step = "read" => \A x \in history : Owed(x) => Unread(x)
SubscribeSafe == step = "subscribe" => \A x \in history : ~Owed(x)
LiveSafe == subscribed = "own" => \A x \in history : Owed(x) => x \in wire

\* Between the teardown and StartAsync there is no subscription, nor one of a dead process.
\* From the poll on, a plant that catches up has lost its session to the gateway, and the
\* supervisor is still to hear of it.
SessionOK ==
  /\ step \in {"down", "phase", "window", "read", "subscribe"} => subscribed = "none" /\ wire = {}
  /\ step \in {"claim", "live"} /\ link = "up" /\ signals = 0 => subscribed = "own"
  /\ step \in {"window", "read", "subscribe"} /\ phase = "catchup" => link # "up" \/ signals > 0

IInv ==
  /\ PlantOK /\ QueueOK /\ BackfillOK /\ ResumeSafe /\ ReadSafe /\ SubscribeSafe /\ LiveSafe
  /\ SessionOK /\ SubscribedOnlyPastCatchUp

-----------------------------------------------------------------------------
(* Samples, and what becomes of what is owed.                                *)

LEMMA SamplesHaveTimes ==
  /\ \A x \in Samples : x[1] \in Streams /\ x[2] \in Nat /\ 1 <= x[2] /\ x[2] <= MaxTime
  /\ \A w \in Nat : w <= MaxTime =>
       \A x : x \in Streams \X (1 .. w) <=> x \in Samples /\ x[2] <= w
BY GatewayAssumption DEF Samples

LEMMA HistoryIsOfSamples ==
  PlantOK => /\ now \in Nat /\ now <= MaxTime /\ written <= MaxTime /\ MaxTime \in Nat
             /\ \A x : x \in history <=> x \in Samples /\ x[2] <= written
             /\ Earliest \in Times /\ Earliest <= now
BY GatewayAssumption, SamplesHaveTimes DEF PlantOK, Times, history, Earliest

LEMMA WindowsHaveTimes ==
  BackfillOK /\ step = "read" => /\ WindowEnd \in Times /\ WindowEnd <= bf.to
                                 /\ bf.start \in Nat /\ bf.to \in Nat /\ bf.to <= MaxTime
                                 /\ Reading \in bf.unread
<1> SUFFICES ASSUME BackfillOK, step = "read"
             PROVE  /\ WindowEnd \in Times /\ WindowEnd <= bf.to
                    /\ bf.start \in Nat /\ bf.to \in Nat /\ bf.to <= MaxTime
                    /\ Reading \in bf.unread
  OBVIOUS
<1>1. bf.start \in 0 .. MaxTime /\ bf.to \in 0 .. MaxTime /\ Window \in Nat /\ MaxTime \in Nat
  BY GatewayAssumption DEF BackfillOK, Times
<1>2. WindowEnd \in Times /\ WindowEnd <= bf.to BY <1>1 DEF WindowEnd, Lesser, Times
<1>3. Reading \in bf.unread BY DEF BackfillOK, Reading
<1> QED BY <1>1, <1>2, <1>3

\* Rows only stop being owed, and start being waited for as they are accepted.
LEMMA LessIsOwed ==
  ASSUME ResumeSafe,
         accepted \cup pending \subseteq accepted' \cup pending',
         exposed \subseteq exposed' \cup accepted', gaps \subseteq gaps'
  PROVE  \A x : Owed(x)' => Owed(x)
BY DEF Owed

\* A step that moves no row, and leaves the backfill's window where it is.
LEMMA ResumeStaysSafe ==
  ASSUME IInv, step' = step, bf' = bf, accepted' \cup pending' = accepted \cup pending,
         \A x : Owed(x)' => Owed(x), history \subseteq history'
  PROVE  ResumeSafe'
<1> SUFFICES ASSUME NEW x \in Samples, NEW y \in accepted \cup pending, x[2] <= y[2], Owed(x)'
             PROVE  step = "read" /\ x \in history' /\ InWindow(x)'
  BY DEF ResumeSafe
<1>1. step = "read" /\ x \in history /\ InWindow(x) BY DEF IInv, ResumeSafe
<1> QED BY <1>1 DEF InWindow, WindowEnd, Lesser

-----------------------------------------------------------------------------
LEMMA InitIInv == Init => IInv
<1> SUFFICES ASSUME Init PROVE IInv OBVIOUS
<1>1. Start \in Nat /\ MaxTime \in Nat /\ Start <= MaxTime /\ lastStored \in 0 .. Start
  BY GatewayAssumption DEF Init
<1>2. PlantOK
  <2>1. accepted \subseteq Samples BY <1>1, SamplesHaveTimes DEF Init
  <2> QED BY <1>1, <2>1 DEF Init, PlantOK, Times
<1>3. QueueOK
  <2>1. lastStored = 0 \/ \E y \in accepted : lastStored <= y[2]
    <3> SUFFICES ASSUME lastStored # 0 PROVE \E y \in accepted : lastStored <= y[2] OBVIOUS
    <3>1. PICK s \in Streams : TRUE BY GatewayAssumption
    <3>2. <<s, lastStored>> \in accepted BY <1>1, <3>1 DEF Init
    <3> QED BY <1>1, <3>2
  <2> QED BY <1>1, <2>1 DEF Init, QueueOK, Times
<1>4. ResumeSafe
  <2> SUFFICES ASSUME NEW x \in Samples, NEW y \in accepted, x[2] <= y[2] PROVE x \in accepted
    BY DEF ResumeSafe, Owed, Init
  <2>1. y[2] \in 1 .. lastStored BY DEF Init
  <2>2. x[1] \in Streams /\ x[2] \in 1 .. lastStored /\ x = <<x[1], x[2]>>
    BY <1>1, <2>1 DEF Samples
  <2> QED BY <2>2 DEF Init
<1> QED BY <1>2, <1>3, <1>4
        DEF Init, IInv, BackfillOK, ReadSafe, SubscribeSafe, LiveSafe, SessionOK, Open,
            SubscribedOnlyPastCatchUp

-----------------------------------------------------------------------------
(* The plant.                                                                *)

LEMMA ProduceIInv ==
  ASSUME IInv, Produce(written + 1), now' \in Times, written + 1 <= now',
         UNCHANGED <<phase, link, subscribed, signals, queue, lastStored, task, pending>>
  PROVE  IInv'
<1> USE DEF queue, task
<1>1. /\ now \in Nat /\ written \in Nat /\ MaxTime \in Nat /\ now' \in Nat /\ now' <= MaxTime
      /\ \A x : x \in history <=> x \in Samples /\ x[2] <= written
      /\ written' = written + 1
  BY HistoryIsOfSamples, GatewayAssumption DEF IInv, PlantOK, Times, Produce
<1>2. \A x : x \in history' <=> x \in Samples /\ x[2] <= written + 1
  <2>1. written + 1 \in Nat /\ written + 1 <= MaxTime BY <1>1
  <2>2. history' = Streams \X (1 .. (written + 1)) BY <1>1 DEF history
  <2> QED BY <2>1, <2>2, SamplesHaveTimes
<1>3. \A x \in Streams \X {written + 1} : x \in history' /\ x[1] \in Streams /\ x[2] = written + 1
  BY <1>1 DEF history
<1>4. \A x \in history' : x \notin history => x \in Streams \X {written + 1}
  BY <1>1 DEF history
<1>5. history \subseteq history' BY <1>1, <1>2, SamplesHaveTimes
<1>6. exposed \subseteq exposed' BY DEF Produce
<1>7. \A x : Owed(x)' => Owed(x) BY <1>6, LessIsOwed DEF IInv
<1>8. PlantOK' BY <1>1, <1>3, <1>5 DEF IInv, PlantOK, Produce
<1>9. QueueOK' /\ BackfillOK' BY DEF IInv, QueueOK, BackfillOK
<1>10. ResumeSafe' BY <1>5, <1>7, ResumeStaysSafe
<1>11. step = "read" \/ step = "subscribe" => \A x \in Passed(written + 1) : ~Owed(x)'
  BY DEF IInv, SessionOK, Open, Produce, Owed
<1>12. ReadSafe'
  <2> SUFFICES ASSUME step = "read", NEW x \in history', Owed(x)' PROVE Unread(x)'
    BY DEF ReadSafe
  <2>1. Unread(x)' <=> Unread(x) BY DEF Unread, WindowEnd, Lesser
  <2>2. CASE x \in history BY <1>7, <2>1, <2>2 DEF IInv, ReadSafe
  <2>3. CASE x \notin history
    <3>1. x \in Streams \X {written + 1} /\ x[2] = written + 1 BY <1>3, <1>4, <2>3
    <3>2. x \notin Passed(written + 1) BY <1>11
    <3>3. ~(written + 1 > bf.to) /\ ~(written + 1 < bf.start)
          /\ ~(x[1] \notin bf.unread /\ written + 1 <= WindowEnd)
      BY <3>1, <3>2 DEF Passed
    <3> QED BY <1>1, <2>1, <3>1, <3>3, WindowsHaveTimes DEF Unread, IInv, Times
  <2> QED BY <2>2, <2>3
<1>13. SubscribeSafe'
  <2> SUFFICES ASSUME step = "subscribe", NEW x \in history' PROVE ~Owed(x)'
    BY DEF SubscribeSafe
  <2>1. CASE x \in history BY <1>7, <2>1 DEF IInv, SubscribeSafe
  <2>2. CASE x \notin history
    <3>1. x \in Passed(written + 1) BY <1>4, <2>2 DEF Passed
    <3> QED BY <1>11, <3>1
  <2> QED BY <2>1, <2>2
<1>14. LiveSafe' BY <1>4, <1>7 DEF IInv, LiveSafe, Produce, Open
<1>15. SessionOK' /\ SubscribedOnlyPastCatchUp'
  BY DEF IInv, SessionOK, SubscribedOnlyPastCatchUp, Open, Produce
<1> QED BY <1>8, <1>9, <1>10, <1>12, <1>13, <1>14, <1>15 DEF IInv

LEMMA PlantIInv ==
  ASSUME IInv, Tick \/ Rebuild \/ CatchUpEnds PROVE IInv'
<1> USE DEF session, queue, task, plant
<1>1. now \in Nat /\ written \in Nat /\ written <= now /\ MaxTime \in Nat /\ now <= MaxTime
  BY HistoryIsOfSamples DEF IInv, PlantOK
<1>2. CASE Tick /\ written = now
  <2>1. Produce(written + 1) /\ now' \in Times /\ written + 1 <= now'
    BY <1>1, <1>2 DEF Tick, Times
  <2> QED BY <1>2, <2>1, ProduceIInv DEF Tick
<1>3. CASE Rebuild
  <2>1. Produce(written + 1) /\ now' \in Times /\ written + 1 <= now'
    BY <1>1, <1>3 DEF Rebuild, IInv, PlantOK
  <2> QED BY <1>3, <2>1, ProduceIInv DEF Rebuild
<1>4. CASE (Tick /\ written # now) \/ CatchUpEnds
  <2>1. /\ now' \in Times /\ written <= now' /\ phase' \in {phase, "live"}
        /\ UNCHANGED <<written, session, queue, lastStored, task, pending, exposed>>
    BY <1>1, <1>4 DEF Tick, CatchUpEnds, Times, IInv, PlantOK
  <2>2. history' = history /\ \A x : Owed(x)' <=> Owed(x)
    BY <2>1 DEF history, Owed
  <2>3. PlantOK' /\ QueueOK' /\ BackfillOK'
    BY <2>1, <2>2 DEF IInv, PlantOK, QueueOK, BackfillOK
  <2>4. ResumeSafe' BY <2>1, <2>2, ResumeStaysSafe
  <2>5. ReadSafe' BY <2>1, <2>2 DEF IInv, ReadSafe, Unread, WindowEnd, Lesser
  <2>6. SubscribeSafe' /\ LiveSafe' BY <2>1, <2>2 DEF IInv, SubscribeSafe, LiveSafe
  <2>7. SessionOK' /\ SubscribedOnlyPastCatchUp'
    BY <2>1 DEF IInv, SessionOK, SubscribedOnlyPastCatchUp, Open
  <2> QED BY <2>3, <2>4, <2>5, <2>6, <2>7 DEF IInv
<1> QED BY <1>2, <1>3, <1>4

-----------------------------------------------------------------------------
(* The session.                                                              *)

\* What a step that interrupts the backfill lets go of is all that is owed behind what the
\* queue has: the rows it had just read (fresh) and those before them.
LEMMA AbandonedSafe ==
  ASSUME IInv, NEW fresh, accepted' = accepted \cup fresh, fresh \subseteq history,
         fresh # {} => step = "read",
         step = "read" => \A y \in fresh : y[2] <= WindowEnd,
         pending' = pending \/ pending' = {}, gaps' = gaps,
         exposed \cup Abandoned \cup ((pending \ pending') \cap Behind(accepted'))
           \subseteq exposed' \cup accepted'
  PROVE  \A x \in Samples, y \in accepted' \cup pending' : x[2] <= y[2] => ~Owed(x)'
<1> SUFFICES ASSUME NEW x \in Samples, NEW y \in accepted' \cup pending', x[2] <= y[2], Owed(x)'
             PROVE  FALSE
  OBVIOUS
<1>1. /\ x \notin accepted' /\ x \notin pending' /\ x \notin exposed /\ x \notin accepted
      /\ x \notin Abandoned /\ x[2] \notin gaps
      /\ x \in pending => x \notin Behind(accepted')
  BY DEF Owed
<1>2. /\ MaxTime \in Nat /\ written \in Nat /\ x[2] \in Nat /\ y[2] \in Nat /\ 1 <= x[2]
      /\ \A z \in history : z \in Samples /\ z[2] <= written
      /\ \A z \in Samples : z[2] <= written => z \in history
    <2>1. fresh \subseteq Samples /\ accepted \subseteq Samples /\ pending \subseteq Samples
      BY HistoryIsOfSamples DEF IInv, PlantOK
    <2>2. y \in Samples BY <2>1
    <2> QED BY <2>2, HistoryIsOfSamples, SamplesHaveTimes DEF IInv, PlantOK
<1>3. x \notin pending
  <2> SUFFICES ASSUME x \in pending PROVE FALSE OBVIOUS
  <2>1. pending' = {} /\ y \in accepted' BY <1>1
  <2>2. x \in Behind(accepted') BY <2>1 DEF Behind
  <2> QED BY <1>1, <2>2
<1>4. Owed(x) BY <1>1, <1>3 DEF Owed
<1>5. step = "read" /\ x \in history /\ InWindow(x)
  <2>1. CASE y \in accepted \cup pending BY <1>4, <2>1 DEF IInv, ResumeSafe
  <2>2. CASE y \in fresh
    <3>1. step = "read" /\ y[2] <= WindowEnd /\ y[2] <= written BY <1>2, <2>2
    <3>2. x \in history BY <1>2, <3>1
    <3>3. Unread(x) BY <1>4, <3>1, <3>2 DEF IInv, ReadSafe
    <3>4. WindowEnd \in Nat BY <3>1, WindowsHaveTimes DEF IInv, Times
    <3>5. x[2] <= WindowEnd BY <1>2, <3>1, <3>4
    <3> QED BY <1>2, <3>1, <3>2, <3>3, <3>4, <3>5 DEF Unread, InWindow
  <2> QED BY <2>1, <2>2
<1>6. x \in bf.unread \X (bf.start .. WindowEnd)
  <2>1. bf.start \in Nat /\ WindowEnd \in Nat BY <1>5, WindowsHaveTimes DEF IInv, Times
  <2>2. x = <<x[1], x[2]>> BY DEF Samples
  <2> QED BY <1>2, <1>5, <2>1, <2>2 DEF InWindow
<1>7. x \in Behind(accepted' \cup pending') BY DEF Behind
<1> QED BY <1>1, <1>5, <1>6, <1>7 DEF Abandoned

\* A step that leaves every row, and the backfill, where they are: only the session moves, or
\* what a later step does with it.
LEMMA RowsStay ==
  ASSUME IInv, UNCHANGED <<now, written, accepted, pending, exposed, gaps, rising, lastStored>>
  PROVE  /\ history' = history /\ \A x : Owed(x)' <=> Owed(x)
         /\ QueueOK' /\ (step' = step /\ bf' = bf => BackfillOK' /\ ResumeSafe' /\ ReadSafe')
         /\ step # "read" /\ step' # "read" => BackfillOK' /\ ResumeSafe' /\ ReadSafe'
<1>1. history' = history BY DEF history
<1>2. \A x : Owed(x)' <=> Owed(x) BY DEF Owed
<1>3. QueueOK' BY DEF IInv, QueueOK
<1>4. ASSUME step' = step, bf' = bf PROVE BackfillOK' /\ ResumeSafe' /\ ReadSafe'
  <2>1. ResumeSafe' BY <1>1, <1>2, <1>4, ResumeStaysSafe
  <2> QED BY <1>1, <1>2, <1>4, <2>1
          DEF IInv, BackfillOK, ReadSafe, Unread, WindowEnd, Lesser
<1>5. ASSUME step # "read", step' # "read" PROVE BackfillOK' /\ ResumeSafe' /\ ReadSafe'
  BY <1>1, <1>2, <1>5 DEF IInv, BackfillOK, ReadSafe, ResumeSafe
<1> QED BY <1>1, <1>2, <1>3, <1>4, <1>5

LEMMA DropIInv == ASSUME IInv, Drop PROVE IInv'
<1> USE DEF queue
<1>1. CASE UNCHANGED <<written, phase, subscribed, wire, bf, exposed>>
  <2>1. /\ UNCHANGED <<now, written, accepted, pending, exposed, gaps, rising, lastStored>>
        /\ UNCHANGED <<step, bf, signals>> /\ link' = "down"
    BY <1>1 DEF Drop
  <2>2. /\ history' = history /\ \A x : Owed(x)' <=> Owed(x)
        /\ QueueOK' /\ BackfillOK' /\ ResumeSafe' /\ ReadSafe'
    BY <2>1, RowsStay
  <2>3. PlantOK' BY <1>1, <2>1, <2>2 DEF IInv, PlantOK
  <2>4. SubscribeSafe' /\ LiveSafe' BY <1>1, <2>1, <2>2 DEF IInv, SubscribeSafe, LiveSafe
  <2>5. SessionOK' /\ SubscribedOnlyPastCatchUp'
    BY <1>1, <2>1 DEF IInv, SessionOK, SubscribedOnlyPastCatchUp
  <2> QED BY <2>2, <2>3, <2>4, <2>5 DEF IInv
<1>2. CASE ~UNCHANGED <<written, phase, subscribed, wire, bf, exposed>>
  <2>1. /\ written' = Lesser(written, Earliest) /\ phase' = "catchup" /\ wire' = {}
        /\ bf' = IF step = "read" THEN [bf EXCEPT !.kept = Earliest] ELSE bf
        /\ subscribed' = IF subscribed = "none" THEN "none" ELSE "lost"
        /\ exposed' = (exposed \cup Abandoned) \ accepted'
        /\ link' = "down"
        /\ UNCHANGED <<now, signals, accepted, gaps, rising, lastStored, step, pending>>
    BY <1>2 DEF Drop
  <2>2. /\ written' \in Nat /\ written' <= written /\ written <= now /\ now \in Nat
        /\ written \in Nat /\ now <= MaxTime /\ MaxTime \in Nat /\ Earliest \in Nat
    BY <2>1, HistoryIsOfSamples DEF IInv, PlantOK, Lesser, Times
  <2>3. /\ \A x : x \in history' <=> x \in Samples /\ x[2] <= written'
        /\ \A x : x \in history <=> x \in Samples /\ x[2] <= written
    <3>1. written' \in Nat /\ written' <= MaxTime /\ history' = Streams \X (1 .. written')
      BY <2>2 DEF history
    <3> QED BY <3>1, SamplesHaveTimes, HistoryIsOfSamples DEF IInv
  <2>4. history' \subseteq history BY <2>2, <2>3, SamplesHaveTimes
  <2>5. \A x \in Samples, y \in accepted' \cup pending' : x[2] <= y[2] => ~Owed(x)'
    <3> DEFINE fresh == {}
    <3>1. /\ accepted' = accepted \cup fresh /\ fresh \subseteq history
          /\ fresh # {} => step = "read"
          /\ step = "read" => \A y \in fresh : y[2] <= WindowEnd
          /\ pending' = pending \/ pending' = {}
          /\ gaps' = gaps
          /\ exposed \cup Abandoned \cup ((pending \ pending') \cap Behind(accepted'))
               \subseteq exposed' \cup accepted'
      BY <2>1
    <3> HIDE DEF fresh
    <3> QED BY <3>1, AbandonedSafe
  <2>6. \A x : Owed(x)' => Owed(x) BY <2>1, LessIsOwed DEF IInv
  <2>7. PlantOK' BY <2>1, <2>2 DEF IInv, PlantOK
  <2>8. QueueOK' BY <2>1 DEF IInv, QueueOK
  <2>9. ResumeSafe' BY <2>5 DEF ResumeSafe
  <2>10. step = "read" => /\ bf'.start = bf.start /\ bf'.to = bf.to /\ bf'.unread = bf.unread
                          /\ bf'.kept = Earliest
                          /\ bf' = [to |-> bf.to, start |-> bf.start, unread |-> bf.unread,
                                    kept |-> Earliest]
    BY <2>1 DEF IInv, BackfillOK
  <2>11. BackfillOK' BY <2>1, <2>2, <2>10 DEF IInv, BackfillOK
  <2>12. ReadSafe'
    BY <2>1, <2>4, <2>6, <2>10 DEF IInv, ReadSafe, Unread, WindowEnd, Lesser
  <2>13. SubscribeSafe' BY <2>1, <2>4, <2>6 DEF IInv, SubscribeSafe
  <2>14. LiveSafe' BY <2>1 DEF LiveSafe
  <2>15. SessionOK' /\ SubscribedOnlyPastCatchUp'
    BY <2>1 DEF IInv, SessionOK, SubscribedOnlyPastCatchUp
  <2> QED BY <2>7, <2>8, <2>9, <2>11, <2>12, <2>13, <2>14, <2>15 DEF IInv
<1> QED BY <1>1, <1>2

LEMMA CurrentValuesAreHistory == CurrentValues \subseteq history BY DEF CurrentValues

LEMMA SessionIInv == ASSUME IInv, Restore \/ Reconnect PROVE IInv'
<1> USE DEF queue, plant, task
<1>1. /\ UNCHANGED <<now, written, accepted, pending, exposed, gaps, rising, lastStored>>
      /\ UNCHANGED <<step, bf, phase>> /\ wire' \in {wire, CurrentValues, {}}
      /\ \/ UNCHANGED <<subscribed, wire>>
         \/ subscribed # "none" /\ subscribed' \in {"stale", "lost"} /\ link' = "back"
      /\ \/ link' = "back" /\ signals' = signals
         \/ /\ link' = "up" /\ link = "back" /\ subscribed' = subscribed
            /\ signals' = IF step = "down" THEN 0 ELSE signals + 1
  BY DEF Restore, Reconnect, Released
<1>2. /\ history' = history /\ \A x : Owed(x)' <=> Owed(x)
      /\ QueueOK' /\ BackfillOK' /\ ResumeSafe' /\ ReadSafe'
  BY <1>1, RowsStay
<1>3. PlantOK' BY <1>1, <1>2, CurrentValuesAreHistory DEF IInv, PlantOK
<1>4. SubscribeSafe' /\ LiveSafe' BY <1>1, <1>2 DEF IInv, SubscribeSafe, LiveSafe
<1>5. signals' # 0 \/ link' # "up" \/ step = "down"
  BY <1>1 DEF IInv, PlantOK
<1>6. SessionOK'
  <2>1. step \in {"down", "phase", "window", "read", "subscribe"} =>
          subscribed' = "none" /\ wire' = {}
    BY <1>1 DEF IInv, SessionOK
  <2>2. link' # "up" \/ signals' > 0 \/ step = "down" BY <1>1 DEF IInv, PlantOK
  <2>3. ~(link' # "up" /\ link' = "up") /\ ~(signals' > 0 /\ signals' = 0) OBVIOUS
  <2> QED BY <1>1, <2>1, <2>2, <2>3 DEF SessionOK
<1>7. SubscribedOnlyPastCatchUp'
  BY <1>1, <1>3, <1>5 DEF IInv, SubscribedOnlyPastCatchUp, SessionOK, Open, PlantOK
<1> QED BY <1>2, <1>3, <1>4, <1>6, <1>7 DEF IInv

-----------------------------------------------------------------------------
(* The live path and the drain.                                              *)

LEMMA PublishIInv == ASSUME IInv, Publish PROVE IInv'
<1> USE DEF queue, plant, task
<1>1. /\ Open /\ pending' = pending \cup (wire \ accepted) /\ wire' = {}
      /\ exposed' = IF subscribed = "stale"
                      THEN exposed \cup (Behind(wire \ accepted) \ (accepted \cup pending'))
                      ELSE exposed
      /\ UNCHANGED <<now, written, phase, link, subscribed, signals, accepted, rising, gaps,
                     lastStored, step, bf>>
  BY DEF Publish
<1>2. history' = history BY <1>1 DEF history
<1>3. /\ \A x : x \in history <=> x \in Samples /\ x[2] <= written
      /\ \A x \in Samples : x[2] \in Nat
      /\ wire \subseteq history /\ written \in Nat
  BY HistoryIsOfSamples, SamplesHaveTimes DEF IInv, PlantOK
<1>4. step \notin {"down", "phase", "window", "read", "subscribe"}
  BY <1>1 DEF IInv, SessionOK, Open
<1>5. \A x : Owed(x)' => Owed(x) BY <1>1 DEF Owed
<1>6. PlantOK' BY <1>1, <1>2, <1>3 DEF IInv, PlantOK
<1>7. QueueOK' BY <1>1 DEF IInv, QueueOK
<1>8. ResumeSafe'
  <2> SUFFICES ASSUME NEW x \in Samples, NEW y \in accepted \cup pending \cup wire, x[2] <= y[2],
                      Owed(x)'
               PROVE  FALSE
    BY <1>1 DEF ResumeSafe
  <2>1. CASE y \in accepted \cup pending BY <1>4, <1>5, <2>1 DEF IInv, ResumeSafe
  <2>2. CASE y \in wire \ accepted /\ subscribed = "own"
    <3>1. x \in history BY <1>3, <2>2
    <3>2. x \in wire BY <1>5, <2>2, <3>1 DEF IInv, LiveSafe
    <3> QED BY <1>1, <3>2 DEF Owed
  <2>3. CASE y \in wire \ accepted /\ subscribed = "stale"
    <3>1. x \in Behind(wire \ accepted) BY <2>3 DEF Behind
    <3> QED BY <1>1, <2>3, <3>1 DEF Owed
  <2> QED BY <1>1, <2>1, <2>2, <2>3 DEF Open
<1>9. LiveSafe' BY <1>1, <1>2, <1>5 DEF IInv, LiveSafe, Owed
<1>10. BackfillOK' /\ ReadSafe' /\ SubscribeSafe'
  BY <1>1, <1>4 DEF BackfillOK, ReadSafe, SubscribeSafe
<1>11. SessionOK' /\ SubscribedOnlyPastCatchUp'
  BY <1>1 DEF IInv, SessionOK, SubscribedOnlyPastCatchUp, Open
<1> QED BY <1>6, <1>7, <1>8, <1>9, <1>10, <1>11 DEF IInv

\* What every entry into the queue keeps.
LEMMA EnqueueIsOK ==
  ASSUME IInv, NEW samples \in SUBSET Samples, Enqueue(samples), lastStored' = lastStored
  PROVE  QueueOK'
<1>1. /\ accepted' = accepted \cup samples
      /\ rising' = rising \cup {t \in Times : /\ \E x \in samples \ accepted : x[2] = t
                                            /\ \A u \in rising \cup {lastStored} : u < t}
  BY DEF Enqueue
<1>2. rising' \subseteq Times /\ lastStored' \in Times BY <1>1 DEF IInv, QueueOK
<1>3. ASSUME NEW t \in rising' \cup {lastStored'}
      PROVE  t = 0 \/ \E y \in accepted' : t <= y[2]
  <2>1. CASE t \in rising \cup {lastStored} BY <1>1, <2>1 DEF IInv, QueueOK
  <2>2. CASE t \notin rising \cup {lastStored}
    <3>1. PICK x \in samples \ accepted : x[2] = t BY <1>1, <2>2
    <3>2. t <= x[2] BY <3>1, SamplesHaveTimes
    <3> QED BY <1>1, <3>1, <3>2
  <2> QED BY <2>1, <2>2
<1> QED BY <1>2, <1>3 DEF QueueOK

LEMMA EnqueuesIInv ==
  ASSUME IInv, NEW x \in pending, EnqueueEnds(x) \/ EnqueueFails(x) PROVE IInv'
<1> USE DEF queue, plant, task, session
<1>1. /\ pending' = pending \ {x}
      /\ \/ accepted' = accepted \cup {x} /\ exposed' = exposed \ {x}
         \/ accepted' = accepted /\ exposed' = exposed \cup {x} /\ rising' = rising
      /\ UNCHANGED <<now, written, phase, link, subscribed, wire, signals, gaps, lastStored, step,
                     bf>>
  BY DEF EnqueueEnds, EnqueueFails, Enqueue
<1>2. history' = history BY <1>1 DEF history
<1>3. \A z : Owed(z)' => Owed(z) BY <1>1 DEF Owed
<1>4. x \in Samples BY DEF IInv, PlantOK
<1>5. PlantOK' BY <1>1, <1>2, <1>4 DEF IInv, PlantOK
<1>6. QueueOK'
  <2>1. CASE EnqueueEnds(x) BY <1>4, <2>1, EnqueueIsOK DEF EnqueueEnds
  <2>2. CASE EnqueueFails(x) BY <1>1, <2>2 DEF IInv, QueueOK, EnqueueFails
  <2> QED BY <2>1, <2>2
<1>7. ResumeSafe'
  <2>1. accepted' \cup pending' \subseteq accepted \cup pending BY <1>1
  <2> QED BY <1>1, <1>2, <1>3, <2>1 DEF IInv, ResumeSafe, InWindow, WindowEnd, Lesser
<1>8. BackfillOK' BY <1>1 DEF IInv, BackfillOK
<1>9. ReadSafe' BY <1>1, <1>2, <1>3 DEF IInv, ReadSafe, Unread, WindowEnd, Lesser
<1>10. SubscribeSafe' /\ LiveSafe' BY <1>1, <1>2, <1>3 DEF IInv, SubscribeSafe, LiveSafe
<1>11. SessionOK' /\ SubscribedOnlyPastCatchUp'
  BY <1>1 DEF IInv, SessionOK, SubscribedOnlyPastCatchUp, Open
<1> QED BY <1>5, <1>6, <1>7, <1>8, <1>9, <1>10, <1>11 DEF IInv

LEMMA DrainIInv == ASSUME IInv, Drain \/ DrainFaults PROVE IInv'
<1> USE DEF queue, plant, task, session
<1>1. /\ UNCHANGED <<now, written, phase, link, subscribed, wire, signals, accepted, pending,
                     exposed, gaps, step, bf>>
      /\ rising' \cup {lastStored'} \subseteq rising \cup {lastStored}
  BY DEF Drain, DrainFaults
<1>2. history' = history /\ \A x : Owed(x)' <=> Owed(x) BY <1>1 DEF history, Owed
<1>3. PlantOK' BY <1>1, <1>2 DEF IInv, PlantOK
<1>4. QueueOK' BY <1>1 DEF IInv, QueueOK
<1>5. ResumeSafe' BY <1>1, <1>2, ResumeStaysSafe
<1>6. BackfillOK' /\ ReadSafe'
  BY <1>1, <1>2 DEF IInv, BackfillOK, ReadSafe, Unread, WindowEnd, Lesser
<1>7. SubscribeSafe' /\ LiveSafe' BY <1>1, <1>2 DEF IInv, SubscribeSafe, LiveSafe
<1>8. SessionOK' /\ SubscribedOnlyPastCatchUp'
  BY <1>1 DEF IInv, SessionOK, SubscribedOnlyPastCatchUp, Open
<1> QED BY <1>3, <1>4, <1>5, <1>6, <1>7, <1>8 DEF IInv

-----------------------------------------------------------------------------
(* The ingest task.                                                          *)

LEMMA TaskIInv ==
  ASSUME IInv, Boot \/ PollPhase \/ ClaimLive \/ CloseTheGap \/ TakeDown PROVE IInv'
<1> USE DEF queue, plant, task, session
<1>1. /\ UNCHANGED <<now, written, phase, link, accepted, pending, exposed, gaps, rising,
                     lastStored>>
      /\ step # "read" /\ step' \notin {"read", "subscribe"}
      /\ \/ UNCHANGED <<subscribed, wire, signals>>
         \/ UNCHANGED <<subscribed, wire>> /\ signals' = 0 /\ step' = "teardown"
         \/ subscribed' = "none" /\ wire' = {} /\ signals' = signals /\ step' = "phase"
      /\ \/ step = "down" /\ step' = "phase"
         \/ step = "phase" /\ step' = "window" /\ phase # "catchup"
         \/ step = "claim" /\ step' = "live"
         \/ step = "live" /\ step' = "teardown"
         \/ step = "teardown" /\ step' = "phase" /\ subscribed' = "none" /\ wire' = {}
  BY DEF Boot, PollPhase, CatchingUp, ClaimLive, CloseTheGap, TakeDown, Removed
<1>2. /\ history' = history /\ \A x : Owed(x)' <=> Owed(x)
      /\ QueueOK' /\ BackfillOK' /\ ResumeSafe' /\ ReadSafe'
  BY <1>1, RowsStay
<1>3. PlantOK' BY <1>1, <1>2 DEF IInv, PlantOK
<1>4. SubscribeSafe' /\ LiveSafe' BY <1>1, <1>2 DEF IInv, SubscribeSafe, LiveSafe
<1>5. SessionOK' BY <1>1 DEF IInv, SessionOK
<1>6. SubscribedOnlyPastCatchUp'
  BY <1>1 DEF IInv, SubscribedOnlyPastCatchUp, SessionOK, Open
<1> QED BY <1>2, <1>3, <1>4, <1>5, <1>6 DEF IInv

LEMMA SubscribeIInv == ASSUME IInv, Subscribe PROVE IInv'
<1> USE DEF queue, plant, task, session
<1>1. /\ UNCHANGED <<now, written, phase, link, signals, accepted, pending, exposed, gaps, rising,
                     lastStored>>
      /\ step = "subscribe" /\ step' = "claim" /\ subscribed' = "own" /\ wire' = CurrentValues
  BY DEF Subscribe
<1>2. /\ history' = history /\ \A x : Owed(x)' <=> Owed(x)
      /\ QueueOK' /\ BackfillOK' /\ ResumeSafe' /\ ReadSafe'
  BY <1>1, RowsStay
<1>3. PlantOK' BY <1>1, <1>2, CurrentValuesAreHistory DEF IInv, PlantOK
<1>4. SubscribeSafe' /\ LiveSafe' BY <1>1, <1>2 DEF IInv, SubscribeSafe, LiveSafe
<1>5. SessionOK' /\ SubscribedOnlyPastCatchUp'
  BY <1>1 DEF IInv, SessionOK, SubscribedOnlyPastCatchUp
<1> QED BY <1>2, <1>3, <1>4, <1>5 DEF IInv

LEMMA OpenBackfillIInv == ASSUME IInv, OpenBackfill PROVE IInv'
<1> USE DEF queue, plant, task, session
<1> DEFINE resume == IF lastStored = 0 THEN Earliest ELSE lastStored
           from == IF resume < Earliest THEN Earliest ELSE resume
<1>1. /\ UNCHANGED <<now, written, phase, link, subscribed, wire, signals, accepted, pending,
                     rising, lastStored>>
      /\ step = "window" /\ step' = "read"
      /\ bf' = [to |-> now, start |-> from, unread |-> Streams, kept |-> Earliest]
      /\ gaps' = gaps \cup (resume .. (Earliest - 1))
      /\ exposed' = IF lastStored = 0 THEN exposed \cup Older(from) ELSE exposed
  BY DEF OpenBackfill, GapMarker
<1>2. /\ now \in Nat /\ MaxTime \in Nat /\ now <= MaxTime /\ Earliest \in Nat /\ Earliest <= MaxTime
      /\ lastStored \in Nat /\ lastStored <= MaxTime /\ written \in Nat /\ written <= now
      /\ \A x : x \in history <=> x \in Samples /\ x[2] <= written
      /\ \A x \in Samples : x[1] \in Streams /\ x[2] \in Nat /\ 1 <= x[2]
  BY HistoryIsOfSamples, SamplesHaveTimes DEF IInv, PlantOK, QueueOK, Times
<1>3. /\ from \in Times /\ Earliest <= from /\ from \in Nat /\ resume <= from /\ resume \in Nat
      /\ from = resume \/ from = Earliest
  BY <1>2 DEF Times
<1>4. wire = {} BY <1>1 DEF IInv, SessionOK
<1> HIDE DEF resume, from
<1>5. history' = history BY <1>1 DEF history
<1>6. \A x : Owed(x)' => Owed(x) BY <1>1 DEF Owed
<1>7. \A x \in Samples, y \in accepted \cup pending : x[2] <= y[2] => ~Owed(x)
  BY <1>1 DEF IInv, ResumeSafe
<1>8. \A x \in Samples : Owed(x)' => from <= x[2]
  <2> SUFFICES ASSUME NEW x \in Samples, Owed(x)', x[2] < from PROVE FALSE BY <1>2, <1>3
  <2>1. CASE lastStored = 0
    <3>1. x \in Older(from) BY <1>4, <1>6, <2>1 DEF Older, Owed
    <3> QED BY <1>1, <2>1, <3>1 DEF Owed
  <2>2. CASE lastStored # 0 /\ x[2] <= lastStored
    <3>1. \E y \in accepted : lastStored <= y[2] BY <2>2 DEF IInv, QueueOK
    <3>2. PICK y \in accepted : lastStored <= y[2] BY <3>1
    <3>3. y[2] \in Nat BY <1>2 DEF IInv, PlantOK
    <3>4. x[2] <= y[2] BY <1>2, <2>2, <3>2, <3>3
    <3> QED BY <1>6, <1>7, <3>4
  <2>3. CASE lastStored # 0 /\ ~(x[2] <= lastStored)
    <3>1. resume = lastStored BY <2>3 DEF resume
    <3>2. x[2] \in resume .. (Earliest - 1) BY <1>2, <1>3, <2>3, <3>1
    <3> QED BY <1>1, <3>2 DEF Owed
  <2> QED BY <2>1, <2>2, <2>3
<1>9. PlantOK' BY <1>1, <1>5 DEF IInv, PlantOK
<1>10. QueueOK' BY <1>1 DEF IInv, QueueOK
<1>11. BackfillOK' BY <1>1, <1>2, <1>3, GatewayAssumption DEF BackfillOK, Times
<1>12. ResumeSafe' BY <1>1, <1>6, <1>7 DEF ResumeSafe
<1>13. ReadSafe'
  <2> SUFFICES ASSUME NEW x \in history, Owed(x)' PROVE Unread(x)' BY <1>5 DEF ReadSafe
  <2>1. x \in Samples /\ x[1] \in Streams /\ x[2] <= now /\ from <= x[2] BY <1>2, <1>8
  <2>2. bf'.start = from /\ bf'.to = now /\ bf'.unread = Streams BY <1>1
  <2> QED BY <2>1, <2>2 DEF Unread
<1>14. SubscribeSafe' /\ LiveSafe' BY <1>1 DEF IInv, SubscribeSafe, LiveSafe, SessionOK
<1>15. SessionOK' /\ SubscribedOnlyPastCatchUp'
  BY <1>1 DEF IInv, SessionOK, SubscribedOnlyPastCatchUp, Open
<1> QED BY <1>9, <1>10, <1>11, <1>12, <1>13, <1>14, <1>15 DEF IInv

LEMMA ReadWindowIInv == ASSUME IInv, ReadWindow PROVE IInv'
<1> USE DEF queue, plant, task, session
<1> DEFINE rows == ReadHistory(Reading, bf.start, WindowEnd)
           old == TooOld \cap ({Reading} \X (bf.start .. WindowEnd))
           rest == bf.unread \ {Reading}
           last == rest = {} /\ WindowEnd = bf.to
<1>1. /\ UNCHANGED <<now, written, phase, link, subscribed, wire, signals, gaps, lastStored,
                     pending>>
      /\ step = "read" /\ step' = IF last THEN "subscribe" ELSE "read"
      /\ Enqueue(rows) /\ accepted' = accepted \cup rows
      /\ exposed' = (exposed \cup old) \ accepted'
      /\ bf' = [bf EXCEPT !.unread = IF rest = {} /\ ~(WindowEnd = bf.to) THEN Streams ELSE rest,
                          !.start = IF rest = {} THEN WindowEnd ELSE @]
  BY DEF ReadWindow, Enqueue
<1>2. /\ WindowEnd \in Times /\ WindowEnd \in Nat /\ WindowEnd <= bf.to /\ Reading \in bf.unread
      /\ bf.start \in Nat /\ bf.to \in Nat
      /\ bf.unread \subseteq Streams /\ bf.start \in Times /\ bf.to \in Times /\ bf.kept \in Nat
      /\ bf = [to |-> bf.to, start |-> bf.start, unread |-> bf.unread, kept |-> bf.kept]
  BY <1>1, WindowsHaveTimes DEF IInv, BackfillOK, Times
<1>3. /\ bf'.to = bf.to /\ bf'.kept = bf.kept
      /\ bf'.unread = IF rest = {} /\ ~(WindowEnd = bf.to) THEN Streams ELSE rest
      /\ bf'.start = IF rest = {} THEN WindowEnd ELSE bf.start
      /\ bf' = [to |-> bf'.to, start |-> bf'.start, unread |-> bf'.unread, kept |-> bf'.kept]
  <2> DEFINE u == IF rest = {} /\ ~(WindowEnd = bf.to) THEN Streams ELSE rest
             a == IF rest = {} THEN WindowEnd ELSE bf.start
  <2>1. bf' = [bf EXCEPT !.unread = u, !.start = a] BY <1>1
  <2> HIDE DEF u, a
  <2>2. bf' = [to |-> bf.to, start |-> a, unread |-> u, kept |-> bf.kept] BY <1>2, <2>1
  <2> QED BY <2>2 DEF u, a
<1>4. /\ \A x : x \in history <=> x \in Samples /\ x[2] <= written
      /\ \A x \in Samples : x[1] \in Streams /\ x[2] \in Nat /\ 1 <= x[2]
      /\ \A x \in Samples : x = <<x[1], x[2]>>
      /\ written \in Nat
  BY HistoryIsOfSamples, SamplesHaveTimes DEF IInv, PlantOK, Samples
<1>5. \A x \in rows : x \in history /\ x[1] = Reading /\ x[2] <= WindowEnd
  BY DEF ReadHistory
<1>6. \A x \in history : x[1] = Reading /\ bf.start <= x[2] /\ x[2] <= WindowEnd => ~Owed(x)'
  <2> SUFFICES ASSUME NEW x \in history, x[1] = Reading, bf.start <= x[2], x[2] <= WindowEnd,
                      x \notin accepted'
               PROVE  x \in exposed'
    BY DEF Owed
  <2>1. x \notin rows BY <1>1
  <2>2. x \in TooOld BY <2>1 DEF ReadHistory
  <2>3. x \in {Reading} \X (bf.start .. WindowEnd) BY <1>2, <1>4
  <2> QED BY <1>1, <2>2, <2>3
<1> HIDE DEF rows, old, rest, last
<1>7. history' = history BY <1>1 DEF history
<1>8. \A x : Owed(x)' => Owed(x) BY <1>1, LessIsOwed DEF IInv
<1>9. \A x \in history : Owed(x)' => Unread(x) /\ (x[1] \in rest \/ WindowEnd < x[2])
  <2> SUFFICES ASSUME NEW x \in history, Owed(x)', ~(WindowEnd < x[2]) PROVE Unread(x) /\ x[1] \in rest
    BY <1>1, <1>8 DEF IInv, ReadSafe
  <2>1. Unread(x) BY <1>1, <1>8 DEF IInv, ReadSafe
  <2>2. x[2] \in Nat /\ x[2] <= WindowEnd BY <1>2, <1>4
  <2>3. x[1] \in bf.unread /\ bf.start <= x[2] BY <1>2, <2>1, <2>2 DEF Unread
  <2>4. x[1] # Reading BY <1>6, <2>2, <2>3
  <2> QED BY <2>1, <2>3, <2>4 DEF rest
<1>10. PlantOK' BY <1>1, <1>4, <1>5, <1>7 DEF IInv, PlantOK
<1>11. QueueOK'
  <2>1. rows \in SUBSET Samples BY <1>4, <1>5
  <2> QED BY <1>1, <2>1, EnqueueIsOK
<1>12. BackfillOK'
  <2> SUFFICES ASSUME ~last PROVE bf'.start \in Times /\ bf'.unread \subseteq Streams /\ bf'.unread # {}
    BY <1>1, <1>2, <1>3 DEF BackfillOK
  <2> QED BY <1>2, <1>3, GatewayAssumption DEF last, rest
<1>13. \A x \in Samples, y \in accepted' \cup pending' :
         x[2] <= y[2] /\ Owed(x)' =>
           x \in history /\ x[1] \in rest /\ bf.start <= x[2] /\ x[2] <= WindowEnd
  <2> SUFFICES ASSUME NEW x \in Samples, NEW y \in accepted' \cup pending', x[2] <= y[2], Owed(x)'
               PROVE  x \in history /\ x[1] \in rest /\ bf.start <= x[2] /\ x[2] <= WindowEnd
    OBVIOUS
  <2>1. CASE y \in accepted \cup pending
    <3>1. x \in history /\ InWindow(x) BY <1>8, <2>1 DEF IInv, ResumeSafe
    <3>2. x[1] # Reading BY <1>6, <3>1 DEF InWindow
    <3> QED BY <3>1, <3>2 DEF InWindow, rest
  <2>2. CASE y \in rows
    <3>1. y[2] <= written /\ y[2] <= WindowEnd /\ y[2] \in Nat BY <1>4, <1>5, <2>2
    <3>2. x[2] <= written /\ x[2] <= WindowEnd /\ x[2] \in Nat BY <1>2, <1>4, <3>1
    <3>3. x \in history BY <1>4, <3>2
    <3>4. ~(WindowEnd < x[2]) BY <1>2, <3>2
    <3>5. Unread(x) /\ x[1] \in rest BY <1>9, <3>3, <3>4
    <3> QED BY <3>2, <3>3, <3>5 DEF Unread
  <2> QED BY <1>1, <2>1, <2>2
<1>14. ResumeSafe'
  <2> SUFFICES ASSUME NEW x \in Samples, NEW y \in accepted' \cup pending', x[2] <= y[2], Owed(x)'
               PROVE  step' = "read" /\ x \in history' /\ InWindow(x)'
    BY DEF ResumeSafe
  <2>1. x \in history /\ x[1] \in rest /\ bf.start <= x[2] /\ x[2] <= WindowEnd BY <1>13
  <2>2. rest # {} /\ ~last BY <2>1 DEF last
  <2>3. step' = "read" /\ bf'.start = bf.start /\ bf'.to = bf.to /\ bf'.unread = rest
    BY <1>1, <1>3, <2>2
  <2> QED BY <1>7, <2>1, <2>3 DEF InWindow, WindowEnd, Lesser
<1>15. ReadSafe'
  <2> SUFFICES ASSUME ~last, NEW x \in history, Owed(x)' PROVE Unread(x)'
    BY <1>1, <1>7 DEF ReadSafe
  <2>1. /\ bf.start <= x[2] /\ x[2] <= bf.to /\ x[2] \in Nat /\ x[1] \in Streams
        /\ x[1] \in rest \/ WindowEnd < x[2]
    BY <1>4, <1>9 DEF Unread
  <2>2. CASE rest = {}
    <3>1. bf'.start = WindowEnd /\ bf'.to = bf.to /\ bf'.unread = Streams
      BY <1>3, <2>2 DEF last
    <3>2. WindowEnd <= x[2] BY <1>2, <2>1, <2>2
    <3> QED BY <2>1, <3>1, <3>2 DEF Unread
  <2>3. CASE rest # {}
    <3>1. bf'.start = bf.start /\ bf'.to = bf.to /\ bf'.unread = rest BY <1>3, <2>3
    <3> QED BY <2>1, <3>1 DEF Unread, WindowEnd, Lesser
  <2> QED BY <2>2, <2>3
<1>16. SubscribeSafe'
  <2> SUFFICES ASSUME last, NEW x \in history, Owed(x)' PROVE FALSE
    BY <1>1, <1>7 DEF SubscribeSafe
  <2>1. x[2] <= bf.to /\ WindowEnd < x[2] /\ WindowEnd = bf.to /\ x[2] \in Nat
    BY <1>4, <1>9 DEF Unread, last
  <2> QED BY <1>2, <2>1
<1>17. LiveSafe' BY <1>1 DEF IInv, LiveSafe, SessionOK
<1>18. SessionOK' /\ SubscribedOnlyPastCatchUp'
  BY <1>1 DEF IInv, SessionOK, SubscribedOnlyPastCatchUp, Open
<1> QED BY <1>10, <1>11, <1>12, <1>14, <1>15, <1>16, <1>17, <1>18 DEF IInv

-----------------------------------------------------------------------------
(* The ends.                                                                 *)

\* The rows of the read that an end cuts short.
LEMMA PartlyReadRows ==
  ASSUME IInv, PartlyRead, gaps' = gaps, lastStored' = lastStored
  PROVE  /\ QueueOK' /\ accepted' \subseteq Samples
         /\ \E fresh : /\ accepted' = accepted \cup fresh /\ fresh \subseteq history
                       /\ fresh # {} => step = "read"
                       /\ step = "read" => \A y \in fresh : y[2] <= WindowEnd
<1>1. CASE step # "read"
  <2>1. accepted' = accepted /\ rising' = rising BY <1>1 DEF PartlyRead
  <2> DEFINE fresh == {}
  <2>2. /\ accepted' = accepted \cup fresh /\ fresh \subseteq history
        /\ fresh # {} => step = "read"
        /\ step = "read" => \A y \in fresh : y[2] <= WindowEnd
    BY <2>1
  <2> HIDE DEF fresh
  <2> QED BY <2>1, <2>2 DEF IInv, PlantOK, QueueOK
<1>2. CASE step = "read"
  <2>1. PICK h \in 0 .. WindowEnd : Enqueue(ReadHistory(Reading, bf.start, h))
    BY <1>2 DEF PartlyRead
  <2> DEFINE fresh == ReadHistory(Reading, bf.start, h)
  <2>2. WindowEnd \in Nat BY <1>2, WindowsHaveTimes DEF IInv, Times
  <2>3. \A x \in fresh : x \in history /\ x[2] <= h BY DEF ReadHistory
  <2>4. \A x \in history : x \in Samples /\ x[2] \in Nat
    BY HistoryIsOfSamples, SamplesHaveTimes DEF IInv
  <2>5. \A y \in fresh : y[2] <= WindowEnd BY <2>1, <2>2, <2>3, <2>4
  <2>6. accepted' = accepted \cup fresh BY <2>1 DEF Enqueue
  <2> HIDE DEF fresh
  <2>7. fresh \in SUBSET Samples /\ fresh \subseteq history BY <2>3, <2>4
  <2>8. QueueOK' BY <2>1, <2>7, EnqueueIsOK DEF fresh
  <2>9. accepted' \subseteq Samples BY <2>6, <2>7 DEF IInv, PlantOK
  <2> QED BY <1>2, <2>5, <2>6, <2>7, <2>8, <2>9
<1> QED BY <1>1, <1>2

LEMMA ProcessEndsIInv ==
  ASSUME IInv, PartlyRead, ProcessEnds, UNCHANGED <<plant, gaps, lastStored>> PROVE IInv'
<1>1. /\ UNCHANGED <<now, written, phase, gaps, lastStored>>
      /\ step' = "down" /\ signals' = 0 /\ subscribed' = "none" /\ wire' = {} /\ pending' = {}
      /\ exposed' = (exposed \cup Abandoned \cup (pending \cap Behind(accepted'))) \ accepted'
      /\ link' = IF link = "back" THEN "up" ELSE link
  BY DEF ProcessEnds, plant
<1>2. PICK fresh : /\ accepted' = accepted \cup fresh /\ fresh \subseteq history
                   /\ fresh # {} => step = "read"
                   /\ step = "read" => \A y \in fresh : y[2] <= WindowEnd
  BY <1>1, PartlyReadRows
<1>3. QueueOK' /\ accepted' \subseteq Samples BY <1>1, PartlyReadRows
<1>4. \A x \in Samples, y \in accepted' \cup pending' : x[2] <= y[2] => ~Owed(x)'
  <2>1. exposed \cup Abandoned \cup ((pending \ pending') \cap Behind(accepted'))
          \subseteq exposed' \cup accepted'
    BY <1>1
  <2> QED BY <1>1, <1>2, <2>1, AbandonedSafe
<1>5. PlantOK' BY <1>1, <1>3 DEF IInv, PlantOK
<1>6. ResumeSafe' BY <1>4 DEF ResumeSafe
<1>7. BackfillOK' /\ ReadSafe' /\ SubscribeSafe' /\ LiveSafe'
  BY <1>1 DEF BackfillOK, ReadSafe, SubscribeSafe, LiveSafe
<1>8. SessionOK' /\ SubscribedOnlyPastCatchUp'
  BY <1>1 DEF SessionOK, SubscribedOnlyPastCatchUp, Open
<1> QED BY <1>3, <1>5, <1>6, <1>7, <1>8 DEF IInv

LEMMA EndsIInv ==
  ASSUME IInv, TaskFails \/ ApplicationStops \/ Crash PROVE IInv'
<1>1. CASE (TaskFails /\ booting) \/ Crash
  <2>1. PartlyRead /\ ProcessEnds /\ UNCHANGED <<plant, gaps, lastStored>>
    BY <1>1 DEF TaskFails, Crash
  <2> QED BY <2>1, ProcessEndsIInv
<1>2. CASE ApplicationStops
  <2>1. PartlyRead /\ ProcessEnds /\ UNCHANGED <<plant, gaps, lastStored>>
    BY <1>2 DEF ApplicationStops, PartlyRead, queue
  <2> QED BY <2>1, ProcessEndsIInv
<1>3. CASE TaskFails /\ ~booting
  <2>1. /\ UNCHANGED <<now, written, phase, link, subscribed, wire, signals, gaps, lastStored,
                       pending>>
        /\ step # "live" /\ step' = "dead"
        /\ exposed' = (exposed \cup Abandoned) \ accepted'
        /\ PartlyRead
    BY <1>3 DEF TaskFails, plant, session
  <2>2. PICK fresh : /\ accepted' = accepted \cup fresh /\ fresh \subseteq history
                     /\ fresh # {} => step = "read"
                     /\ step = "read" => \A y \in fresh : y[2] <= WindowEnd
    BY <2>1, PartlyReadRows
  <2>3. QueueOK' /\ accepted' \subseteq Samples BY <2>1, PartlyReadRows
  <2>4. \A x \in Samples, y \in accepted' \cup pending' : x[2] <= y[2] => ~Owed(x)'
    <3>1. exposed \cup Abandoned \cup ((pending \ pending') \cap Behind(accepted'))
            \subseteq exposed' \cup accepted'
      BY <2>1
    <3> QED BY <2>1, <2>2, <3>1, AbandonedSafe
  <2>5. history' = history /\ \A x : Owed(x)' => Owed(x) BY <2>1, <2>2 DEF history, Owed
  <2>6. PlantOK' BY <2>1, <2>3, <2>5 DEF IInv, PlantOK
  <2>7. ResumeSafe' BY <2>4 DEF ResumeSafe
  <2>8. BackfillOK' /\ ReadSafe' /\ SubscribeSafe' BY <2>1 DEF BackfillOK, ReadSafe, SubscribeSafe
  <2>9. LiveSafe' BY <2>1, <2>5 DEF IInv, LiveSafe
  <2>10. SessionOK' /\ SubscribedOnlyPastCatchUp' BY <2>1 DEF SessionOK, SubscribedOnlyPastCatchUp
  <2> QED BY <2>3, <2>6, <2>7, <2>8, <2>9, <2>10 DEF IInv
<1> QED BY <1>1, <1>2, <1>3

-----------------------------------------------------------------------------
(* The theorems.                                                             *)

LEMMA NextIInv == IInv /\ [Next]_vars => IInv'
<1> SUFFICES ASSUME IInv, [Next]_vars PROVE IInv' OBVIOUS
<1>1. CASE Tick \/ Rebuild \/ CatchUpEnds BY <1>1, PlantIInv
<1>2. CASE Drop BY <1>2, DropIInv
<1>3. CASE Restore \/ Reconnect BY <1>3, SessionIInv
<1>4. CASE Publish BY <1>4, PublishIInv
<1>5. CASE \E x \in pending : EnqueueEnds(x) \/ EnqueueFails(x) BY <1>5, EnqueuesIInv
<1>6. CASE Drain \/ DrainFaults BY <1>6, DrainIInv
<1>7. CASE Boot \/ PollPhase \/ ClaimLive \/ CloseTheGap \/ TakeDown BY <1>7, TaskIInv
<1>8. CASE OpenBackfill BY <1>8, OpenBackfillIInv
<1>9. CASE ReadWindow BY <1>9, ReadWindowIInv
<1>10. CASE Subscribe BY <1>10, SubscribeIInv
<1>11. CASE TaskFails \/ ApplicationStops \/ Crash BY <1>11, EndsIInv
<1>12. CASE UNCHANGED vars
  <2>1. /\ UNCHANGED <<now, written, accepted, pending, exposed, gaps, rising, lastStored>>
        /\ UNCHANGED <<step, bf, signals, link, phase, subscribed, wire>>
    BY <1>12 DEF vars, plant, session, queue, task
  <2>2. /\ history' = history /\ \A x : Owed(x)' <=> Owed(x)
        /\ QueueOK' /\ BackfillOK' /\ ResumeSafe' /\ ReadSafe'
    BY <2>1, RowsStay
  <2>3. PlantOK' BY <2>1, <2>2 DEF IInv, PlantOK
  <2>4. SubscribeSafe' /\ LiveSafe' BY <2>1, <2>2 DEF IInv, SubscribeSafe, LiveSafe
  <2>5. SessionOK' /\ SubscribedOnlyPastCatchUp'
    BY <2>1 DEF IInv, SessionOK, SubscribedOnlyPastCatchUp, Open
  <2> QED BY <2>2, <2>3, <2>4, <2>5 DEF IInv
<1> QED BY <1>1, <1>2, <1>3, <1>4, <1>5, <1>6, <1>7, <1>8, <1>9, <1>10, <1>11, <1>12
        DEF Next, GatewayStep

LEMMA GatewayInvariant == Spec => []IInv
<1> QED BY InitIInv, NextIInv, PTL DEF Spec

\* Whatever is interfered with and when, what a settled gateway has neither stored, nor under
\* way, nor marked, it let go of in one of the six places (BackfillFromStorageAsync,
\* Program.cs:149-194).
THEOREM GapsAreNamed == Spec => []OnlyNamedGapsStayOpen
<1>1. IInv => OnlyNamedGapsStayOpen
  <2> SUFFICES ASSUME IInv, Settled, NEW x \in history, ~Covered(x) PROVE x \in exposed
    BY DEF OnlyNamedGapsStayOpen
  <2>1. subscribed = "own" BY DEF IInv, SessionOK, Settled
  <2> QED BY <2>1 DEF IInv, LiveSafe, Owed, Covered
<1> QED BY <1>1, GatewayInvariant, PTL

\* The order the supervisor works in, teardown, poll, backfill, subscription, keeps every
\* subscription out of a catch-up it is not already tearing down (CloseTheGapAsync,
\* Program.cs:241-284).
THEOREM SubscriptionsWait == Spec => []SubscribedOnlyPastCatchUp
<1>1. IInv => SubscribedOnlyPastCatchUp BY DEF IInv
<1> QED BY <1>1, GatewayInvariant, PTL

=============================================================================
