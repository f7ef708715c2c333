----------------------------- MODULE IngestQueue -----------------------------
(***************************************************************************)
(* The gateway's durable path from an accepted record to the database:     *)
(* LocalQueue (an SQLite table drained in id order), QueueDrain (its only  *)
(* consumer) and the transaction of PostgresWriter.WriteBatchAsync.        *)
(*                                                                         *)
(* The queue file and the database survive a crash of the gateway process; *)
(* the drain, the batch it holds and the tasks waiting on the gate do not. *)
(* A step of the drain ends at each await the code has: select, write, ack.*)
(***************************************************************************)
EXTENDS Naturals, Sequences, FiniteSets

CONSTANTS
  Records,         \* the distinct records the producers can hand over
  Poison,          \* those WriteBatchAsync refuses with an exception of its own
  DrainBatchSize,  \* GatewayOptions.DrainBatchSize
  MaxIds           \* bound: ids the AUTOINCREMENT column may hand out

ASSUME IngestAssumption ==
  /\ Poison \subseteq Records
  /\ DrainBatchSize \in Nat \ {0}
  /\ MaxIds \in Nat

VARIABLES
  inserted,   \* every record ever inserted, in id order: AUTOINCREMENT never reuses an id
  rows,       \* ids of the rows in the queue table
  drain,      \* where QueueDrain.RunAsync is; "down" while the process is
  batch,      \* ids of the batch the drain holds in memory
  committed   \* ids whose record is in a committed transaction of the database

vars == <<inserted, rows, drain, batch, committed>>

\* sqlite_sequence: the highest id the table ever used.
LastId == Len(inserted)

Ids == 1 .. LastId

\* Mutant of Oldest: ORDER BY id DESC.
Newest(n) == {i \in rows : Cardinality({j \in rows : j > i}) < n}

\* "SELECT * FROM queue ORDER BY id LIMIT n": the rows with fewer than n older ones.
Oldest(n) == {i \in rows : Cardinality({j \in rows : j < i}) < n}

TypeOK ==
  /\ inserted \in Seq(Records)
  /\ rows \subseteq Ids
  /\ drain \in {"down", "idle", "writing", "acking", "refused", "faulted"}
  /\ batch \subseteq Ids
  /\ committed \subseteq Ids

Init ==
  /\ inserted = <<>>
  /\ rows = {}
  /\ drain = "down"
  /\ batch = {}
  /\ committed = {}

------------------------------------------------------------------------------
\* Mutant of NextId: a rowid taken without the table's sequence.
NextIdSkips == LastId + 2

\* The id AUTOINCREMENT hands out.
NextId == LastId + 1

\* A subscription callback or the backfill hands over one record; the INSERT takes
\* the next id. It does not wait for the drain and does not look at the database.
Enqueue(r) ==
  /\ drain # "down"
  /\ LastId < MaxIds
  /\ inserted' = Append(inserted, r)
  /\ rows' = rows \cup {NextId}
  /\ UNCHANGED <<drain, batch, committed>>

\* Mutant of RowsAfterRead: a queue that pops what it hands out.
RowsPopped == rows \ Oldest(DrainBatchSize)

\* Reading leaves every row in place.
RowsAfterRead == rows

\* A batch is read, not removed: an empty one means a delay and another look.
Dequeue ==
  /\ drain = "idle"
  /\ rows # {}
  /\ batch' = Oldest(DrainBatchSize)
  /\ drain' = "writing"
  /\ rows' = RowsAfterRead
  /\ UNCHANGED <<inserted, committed>>

Refused == \E i \in batch : inserted[i] \in Poison

\* The transaction commits and the drain knows it.
WriteCommits ==
  /\ drain = "writing"
  /\ ~Refused
  /\ committed' = committed \cup batch
  /\ drain' = "acking"
  /\ UNCHANGED <<inserted, rows, batch>>

\* Mutant of WriteFails: a catch that falls through to the ack.
WriteFailsAndAcks ==
  /\ drain = "writing"
  /\ drain' = "acking"
  /\ UNCHANGED <<inserted, rows, batch, committed>>

\* NpgsqlException before the commit: rolled back, nothing acked, retried later.
WriteFails ==
  /\ drain = "writing"
  /\ batch' = {}
  /\ drain' = "idle"
  /\ UNCHANGED <<inserted, rows, committed>>

\* NpgsqlException out of CommitAsync after the server had committed: the same retry,
\* over rows the database already has.
WriteCommitsUnreported ==
  /\ drain = "writing"
  /\ ~Refused
  /\ committed' = committed \cup batch
  /\ batch' = {}
  /\ drain' = "idle"
  /\ UNCHANGED <<inserted, rows>>

\* Any other exception out of WriteBatchAsync (an unknown buffer, an unknown event type,
\* a required field missing): the transaction is disposed uncommitted and the exception
\* leaves RunAsync, which catches NpgsqlException only. The producers go on.
WriteRefuses ==
  /\ drain = "writing"
  /\ Refused
  /\ batch' = {}
  /\ drain' = "refused"
  /\ UNCHANGED <<inserted, rows, committed>>

\* Mutant of Acked: a DELETE without the ids.
AckedAll == rows

\* The rows a delete takes.
Acked == batch

\* DELETE FROM queue WHERE id IN the batch's ids.
Ack ==
  /\ drain = "acking"
  /\ rows' = rows \ Acked
  /\ batch' = {}
  /\ drain' = "idle"
  /\ UNCHANGED <<inserted, committed>>

\* An SqliteException out of the select or the delete is not an NpgsqlException either.
QueueFileFails ==
  /\ drain \in {"idle", "acking"}
  /\ batch' = {}
  /\ drain' = "faulted"
  /\ UNCHANGED <<inserted, rows, committed>>

\* The process dies; what it held in memory goes with it.
Crash ==
  /\ drain # "down"
  /\ drain' = "down"
  /\ batch' = {}
  /\ UNCHANGED <<inserted, rows, committed>>

\* The process is started by hand (compose.yml gives the gateway no restart policy): the
\* queue file is reopened as it was and the drain started on it.
Restart ==
  /\ drain = "down"
  /\ drain' = "idle"
  /\ UNCHANGED <<inserted, rows, batch, committed>>

------------------------------------------------------------------------------
Next ==
  \/ \E r \in Records : Enqueue(r)
  \/ Dequeue
  \/ WriteCommits
  \/ WriteFails
  \/ WriteCommitsUnreported
  \/ WriteRefuses
  \/ Ack
  \/ QueueFileFails
  \/ Crash
  \/ Restart

Spec == Init /\ [][Next]_vars

\* A drain that is running keeps going, and a database that is reachable again and again
\* lets a transaction through: strong fairness on the steps an outage or a crash may
\* interrupt any number of times. Nothing starts a process that is down.
Fairness ==
  /\ SF_vars(Dequeue)
  /\ SF_vars(WriteCommits)
  /\ SF_vars(Ack)

FairSpec == Spec /\ Fairness

------------------------------------------------------------------------------
\* A row leaves the queue only once its record is committed (QueueDrain acks after
\* WriteBatchAsync returned): whatever crashed, failed or was retried, no accepted record
\* is in neither place.
AckedIsCommitted == \A i \in Ids : i \notin rows => i \in committed

\* Records reach the database in acceptance order: nothing is committed while an older
\* record is not. This is what lets the resume point of the backfill be one timestamp.
CommittedIsPrefix == \A i \in committed : \A j \in Ids : j < i => j \in committed

\* While the drain waits to ack, its batch is still in the queue and is exactly the part
\* of the queue's head the database has just taken: the ack can delete nothing else.
AckDeletesOnlyCommitted == drain = "acking" => batch \subseteq (committed \cap rows)

\* The batch in memory is a head of the queue: any older row of the table is in it too.
BatchIsHead == /\ batch \subseteq rows
               /\ \A i \in batch : \A j \in rows : j < i => j \in batch
               /\ drain \notin {"writing", "acking"} => batch = {}

\* The inductive invariant: what the drain knows about its batch is what carries the three
\* properties above across an ack.
IngestInv == /\ TypeOK
             /\ BatchIsHead
             /\ AckedIsCommitted
             /\ CommittedIsPrefix
             /\ AckDeletesOnlyCommitted

\* What keeps a record from the database: a refused one in front of it, or one close enough
\* behind it to be read in its batch. Each start of the drain reads the same batch again.
HeldUp(i) == \E j \in Ids : inserted[j] \in Poison /\ j < i + DrainBatchSize

\* The drain is gone for a reason that is not a record: nobody started the process again,
\* or its SQLite file failed and the exception ended RunAsync.
Stopped == drain \in {"down", "faulted"}

\* Every accepted record is committed in the end, through any number of outages, crashes and
\* starts, unless the drain stops for good or a refused record holds it up. A refused record
\* stops what is behind it and up to a batch of good records before it, and no others:
\* whatever else was accepted is stored before the drain reaches it.
EveryRecordSettles ==
  \A i \in 1 .. MaxIds :
    (i \in Ids) ~> (i \in committed \/ HeldUp(i) \/ []Stopped)

------------------------------------------------------------------------------
\* The abstract queue: marks over acceptance order.
Abstract == INSTANCE DurableIngest WITH
              accepted <- LastId,
              stored <- Cardinality(committed),
              forgotten <- LastId - Cardinality(rows)

ImplementsDurableIngest == Abstract!Spec
==============================================================================
