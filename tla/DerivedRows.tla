----------------------------- MODULE DerivedRows -----------------------------
(***************************************************************************)
(* What PostgresWriter derives from the queue's records inside one         *)
(* transaction, and the memories it keeps between transactions: the state  *)
(* changes of one station, one alarm's row, one lot's row and cached id.   *)
(*                                                                         *)
(* Records reach the writer in queue order, and the queue repeats a batch  *)
(* it could not acknowledge. What arrives in the queue is not in source    *)
(* order: State and StateReason are two streams, a truncated window is     *)
(* read again from its start, a page boundary re-delivers a row, an outage *)
(* longer than the history or a full notification queue skips some, and    *)
(* the three events of an alarm fall on either side of a horizon.          *)
(***************************************************************************)
EXTENDS Naturals, Sequences, FiniteSets, SequencesExt

CONSTANTS
  States,          \* PackML states the station passes through
  First,           \* the state its history starts in
  Suspended,       \* the one that carries a reason
  Transitions,     \* how many transitions the station makes, at instants 1..Transitions
  DrainBatchSize,
  MaxDeliveries,   \* bound: records ever queued
  MaxIds           \* bound: values the lot table's sequence hands out

None == "none"
Instants == 1 .. Transitions

\* The records that exist: the two halves of each transition, the three events of one alarm,
\* and the reads of two components drawn from one lot.
Records == [kind : {"State", "StateReason"}, at : Instants]
             \cup [kind : {"Raise", "Ack", "Clear"}, at : {1}]
             \cup [kind : {"ComponentRead"}, at : {1, 2}]

ASSUME DerivedAssumption ==
  /\ {First, Suspended} \subseteq States /\ None \notin States
  /\ Transitions \in Nat \ {0} /\ DrainBatchSize \in Nat \ {0}
  /\ MaxDeliveries \in Nat /\ MaxIds \in Nat \ {0}

VARIABLES
  truth,    \* the station's state from each instant on, as the plant published it
  queued,   \* every record queued, oldest first
  acked,    \* how many of them the queue has deleted
  db,       \* committed rows
  ids,      \* component_lots' sequence, which no rollback moves back
  seen,     \* _lastStates: the last State of the station and its instant
  lotId,    \* _lotIds: 0 while the lot is not cached
  txn,      \* the open transaction: how many records its batch has, how many are applied,
            \* what it sees of the tables, and the batch's own dictionaries
  since     \* ghost: what was acknowledged before this process started

vars == <<truth, queued, acked, db, ids, seen, lotId, txn, since>>
memoryVars == <<seen, lotId>>

NoRow == [to |-> None, from |-> None, reason |-> FALSE]
NoMemory == [state |-> None, at |-> 0]

\* raised, acked_at, cleared_at as "the column is filled, with the instant of ..." marks; a
\* lot of id 0 is not in its table.
NoAlarm == [row |-> FALSE, acked |-> None, cleared |-> None]
NoLot == [id |-> 0, loaded |-> 0]
Nothing == [rows |-> [i \in Instants |-> NoRow], alarm |-> NoAlarm, lot |-> NoLot]

\* No transaction is open.
NoTxn == [size |-> 0, done |-> 0, db |-> Nothing, seen |-> NoMemory, lotId |-> 0]

Init ==
  /\ truth \in {f \in [Instants -> States] :
                  /\ f[1] = First
                  /\ \A i \in Instants : i + 1 \in Instants => f[i] # f[i + 1]}
  /\ queued = <<>> /\ acked = 0 /\ since = 0
  /\ db = Nothing /\ ids = 0 /\ seen = NoMemory /\ lotId = 0 /\ txn = NoTxn

------------------------------------------------------------------------------
\* Deliveries.

\* A reason at an instant: the text while suspended, and the empty string otherwise.
HasReason(i) == truth[i] = Suspended

\* A record enters the queue, any of them after any other: the State stream goes on to its
\* next row, back to a row it is read again from, or ahead of rows that were lost. The memory
\* of the last state is not cleared when the session comes back.
Deliver(r) ==
  /\ Len(queued) < MaxDeliveries
  /\ queued' = Append(queued, r)
  /\ UNCHANGED <<truth, acked, db, ids, memoryVars, txn, since>>

------------------------------------------------------------------------------
\* The writer, one record after the other: what the transaction sees of the tables, d, is
\* changed by each.

\* Mutant of PreviousStateOf: no look at the order of the instants.
PreviousWhateverItsInstant(last, i) ==
  IF last.state # None /\ last.state # truth[i] THEN last.state ELSE None

\* The state last seen, unless there is none, it is this one, or it is not an earlier one.
PreviousStateOf(last, i) ==
  IF last.state # None /\ last.at < i /\ last.state # truth[i] THEN last.state ELSE None

Coalesce(a, b) == IF a # None THEN a ELSE b

\* The State half of UpsertStateChangeAsync: the stored from_state wins over a later one.
ApplyState(d, last, i) ==
  [d EXCEPT !.rows[i] = [to |-> truth[i], reason |-> @.reason,
                         from |-> Coalesce(@.from, PreviousStateOf(last, i))]]

\* Mutant of ApplyReason: the reason's own upsert would overwrite the whole row.
ApplyReasonOver(d, i) ==
  IF HasReason(i) THEN [d EXCEPT !.rows[i] = [NoRow EXCEPT !.reason = TRUE]] ELSE d

\* The StateReason half: an empty reason writes nothing.
ApplyReason(d, i) ==
  IF HasReason(i) THEN [d EXCEPT !.rows[i] = [@ EXCEPT !.reason = TRUE]] ELSE d

\* Mutant of AlarmColumn: the clear reports the alarm as acknowledged too, and would fill that.
AlarmColumnFromFlags(kind, alarm) ==
  CASE kind = "Raise" -> alarm
    [] OTHER -> [alarm EXCEPT !.acked = Coalesce(@, kind),
                              !.cleared = IF kind = "Clear" THEN Coalesce(@, kind) ELSE @]

\* UpsertAlarmAsync's UPDATE: the acknowledgement fills acked_at and the clear cleared_at,
\* each once.
AlarmColumn(kind, alarm) ==
  CASE kind = "Raise" -> alarm
    [] kind = "Ack" -> [alarm EXCEPT !.acked = Coalesce(@, kind)]
    [] kind = "Clear" -> [alarm EXCEPT !.cleared = Coalesce(@, kind)]

\* Whichever of the three events comes first creates the row.
ApplyAlarm(d, kind) == [d EXCEPT !.alarm = AlarmColumn(kind, [@ EXCEPT !.row = TRUE])]

\* EnsureLotAsync: the id from the batch, from the cache, from the table, or from an insert,
\* which takes the sequence's next value.
Inserts(d, cached) == cached = 0 /\ d.lot.id = 0
LotId(d, cached) ==
  IF cached # 0 THEN cached ELSE IF d.lot.id # 0 THEN d.lot.id ELSE ids + 1

\* The lot's row, inserted or moved back to the earliest draw.
ApplyRead(d, cached, i) ==
  IF Inserts(d, cached) THEN [d EXCEPT !.lot = [id |-> LotId(d, cached), loaded |-> i]]
  ELSE IF i < d.lot.loaded THEN [d EXCEPT !.lot = [@ EXCEPT !.loaded = i]] ELSE d

Pending == Len(queued) - acked
BatchSize == IF Pending < DrainBatchSize THEN Pending ELSE DrainBatchSize

\* The drain dequeues a batch and the writer opens a transaction. The batch's dictionaries are
\* empty at first and read through to the shared ones, so they start as those.
BeginBatch ==
  /\ txn.size = 0 /\ BatchSize > 0
  /\ txn' = [size |-> BatchSize, done |-> 0, db |-> db, seen |-> seen, lotId |-> lotId]
  /\ UNCHANGED <<truth, queued, acked, db, ids, memoryVars, since>>

\* One record's upserts; records go on entering the queue meanwhile.
ApplyNext ==
  /\ txn.done < txn.size
  /\ LET r == queued[acked + txn.done + 1]
         next == [txn EXCEPT !.done = @ + 1]
     IN  \/ /\ r.kind = "State"
            /\ txn' = [next EXCEPT !.db = ApplyState(@, txn.seen, r.at),
                                   !.seen = [state |-> truth[r.at], at |-> r.at]]
            /\ UNCHANGED ids
         \/ /\ r.kind = "StateReason"
            /\ txn' = [next EXCEPT !.db = ApplyReason(@, r.at)]
            /\ UNCHANGED ids
         \/ /\ r.kind \in {"Raise", "Ack", "Clear"}
            /\ txn' = [next EXCEPT !.db = ApplyAlarm(@, r.kind)]
            /\ UNCHANGED ids
         \/ /\ r.kind = "ComponentRead"
            /\ ids' = IF Inserts(txn.db, txn.lotId) THEN ids + 1 ELSE ids
            /\ ids' <= MaxIds
            /\ txn' = [next EXCEPT !.db = ApplyRead(@, txn.lotId, r.at),
                                   !.lotId = LotId(txn.db, txn.lotId)]
  /\ UNCHANGED <<truth, queued, acked, db, memoryVars, since>>

Applied == txn.size > 0 /\ txn.done = txn.size

\* WriteBatchAsync commits, promotes what the batch learnt, and the drain acknowledges.
WriteCommits ==
  /\ Applied
  /\ db' = txn.db /\ seen' = txn.seen /\ lotId' = txn.lotId
  /\ acked' = acked + txn.size
  /\ txn' = NoTxn
  /\ UNCHANGED <<truth, queued, ids, since>>

\* The database committed and the gateway was told of a failure: the batch comes again.
WriteCommitsUnreported ==
  /\ Applied
  /\ db' = txn.db /\ txn' = NoTxn
  /\ UNCHANGED <<truth, queued, acked, ids, memoryVars, since>>

\* Mutant of WriteFails: the shared memories would be moved as the records are applied.
WriteFailsLate ==
  /\ txn.size > 0
  /\ seen' = txn.seen /\ lotId' = txn.lotId /\ txn' = NoTxn
  /\ UNCHANGED <<truth, queued, acked, db, ids, since>>

\* The transaction fails, after however many records, and is rolled back; the sequence is not.
WriteFails ==
  /\ txn.size > 0
  /\ txn' = NoTxn
  /\ UNCHANGED <<truth, queued, acked, db, ids, memoryVars, since>>

\* The process stops and another starts: its memories are empty, the queue is not.
Restart ==
  /\ seen' = NoMemory /\ lotId' = 0 /\ txn' = NoTxn /\ since' = acked
  /\ UNCHANGED <<truth, queued, acked, db, ids>>

Next ==
  \/ \E r \in Records : Deliver(r)
  \/ BeginBatch \/ ApplyNext \/ WriteCommits \/ WriteCommitsUnreported \/ WriteFails
  \/ Restart

Spec == Init /\ [][Next]_vars

------------------------------------------------------------------------------
\* Two States of the queue with no other State between them.
Successive(p, q) ==
  /\ queued[p].kind = "State" /\ queued[q].kind = "State"
  /\ \A m \in p + 1 .. q - 1 : queued[m].kind # "State"

\* What a from_state says: the state of the State that came into the queue right before one of
\* this instant, and only where that one is of an earlier instant. So it is the state the
\* station came from wherever the stream did not skip, whatever was read twice, retried,
\* rolled back or forgotten; and it is a stale one wherever it skipped within a process's
\* life, for _lastStates outlives the connection (PostgresWriter.cs:46 and :990 have it empty
\* after a connect).
FromStateIsTrue ==
  \A i \in Instants : db.rows[i].from # None =>
    \E q \in DOMAIN queued : \E p \in 1 .. q - 1 :
      /\ Successive(p, q) /\ queued[q].at = i
      /\ queued[p].at < i /\ db.rows[i].from = truth[queued[p].at]

\* ... and it is there: when one process wrote the two states next to each other, whether in
\* one batch or in two, the second row names the first (the batch's memory reaches the
\* shared one on commit, and only then).
Following(p, q) == Successive(p, q) /\ queued[q].at = queued[p].at + 1

FromStateIsKept ==
  \A q \in 1 .. acked : \A p \in since + 1 .. q - 1 :
    Following(p, q) => db.rows[queued[q].at].from # None

\* What from_state says is the state before, as far as the queue knew it, and not missing
\* where one process could know it (UpsertStateChangeAsync with PreviousStateOf).
FromStateIsRight == FromStateIsTrue /\ FromStateIsKept

\* Everything acknowledged is in the tables, both halves of a transition in one row, in
\* whichever order they came (UpsertStateChangeAsync, UpsertAlarmAsync).
AckedIsDerived ==
  \A p \in 1 .. acked :
    LET r == queued[p] IN
    CASE r.kind = "State" -> db.rows[r.at].to = truth[r.at]
      [] r.kind = "StateReason" -> HasReason(r.at) => db.rows[r.at].reason
      [] r.kind = "ComponentRead" -> db.lot.id # 0 /\ db.lot.loaded <= r.at
      [] r.kind = "Raise" -> db.alarm.row
      [] r.kind = "Ack" -> db.alarm.acked = "Ack"
      [] r.kind = "Clear" -> db.alarm.cleared = "Clear"

\* Nothing is in the tables that no record said: no state at an instant its own State did
\* not carry, no reason over an empty one, no acknowledgement a clear merely implies ("this
\* gateway never saw that alarm acknowledged", UpsertAlarmAsync).
NothingIsInvented ==
  LET said(k, i) == [kind |-> k, at |-> i] \in ToSet(queued) IN
  /\ \A i \in Instants :
       /\ db.rows[i].to # None => said("State", i)
       /\ db.rows[i].reason => said("StateReason", i) /\ HasReason(i)
  /\ db.alarm.acked # None => said("Ack", 1)
  /\ db.alarm.cleared # None => said("Clear", 1)
  /\ db.lot.id # 0 => said("ComponentRead", db.lot.loaded)

\* A cached lot id is the id of a row in the table: no rollback leaves the cache naming a row
\* that was never committed, which would fail the foreign key of every later read.
CachedIdIsCommitted == lotId # 0 => lotId = db.lot.id
==============================================================================
