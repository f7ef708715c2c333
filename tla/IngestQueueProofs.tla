-------------------------- MODULE IngestQueueProofs --------------------------
(***************************************************************************)
(* Proofs about IngestQueue, for every set of records, every batch size    *)
(* and every bound: the queue loses no accepted record, the database takes *)
(* them in acceptance order, and the queue implements DurableIngest.       *)
(***************************************************************************)
EXTENDS IngestQueue, FiniteSetTheorems, TLAPS

------------------------------------------------------------------------------
(* The select.                                                             *)

\* The rows of the table are finitely many, because ids are.
LEMMA RowsFinite ==
  ASSUME TypeOK
  PROVE  /\ LastId \in Nat
         /\ IsFiniteSet(Ids) /\ Cardinality(Ids) = LastId
         /\ IsFiniteSet(rows) /\ IsFiniteSet(committed) /\ IsFiniteSet(batch)
<1>1. LastId \in Nat
  BY DEF TypeOK, LastId
<1>2. IsFiniteSet(Ids) /\ Cardinality(Ids) = LastId
  BY <1>1, FS_Interval DEF Ids
<1>3. IsFiniteSet(rows) /\ IsFiniteSet(committed) /\ IsFiniteSet(batch)
  BY <1>2, FS_Subset DEF TypeOK
<1> QED BY <1>1, <1>2, <1>3

\* Selecting the n oldest rows takes every row older than one it takes.
LEMMA OldestIsHead ==
  ASSUME TypeOK, NEW n \in Nat
  PROVE  /\ Oldest(n) \subseteq rows
         /\ \A i \in Oldest(n) : \A j \in rows : j < i => j \in Oldest(n)
<1>1. Oldest(n) \subseteq rows
  BY DEF Oldest
<1>2. ASSUME NEW i \in Oldest(n), NEW j \in rows, j < i
      PROVE  j \in Oldest(n)
  <2> DEFINE Before(k) == {m \in rows : m < k}
  <2>1. i \in Nat /\ j \in Nat /\ rows \subseteq Nat
    BY RowsFinite DEF TypeOK, Ids, Oldest
  <2>2. IsFiniteSet(Before(i)) /\ Before(j) \in SUBSET Before(i)
    <3>1. Before(i) \in SUBSET rows
      OBVIOUS
    <3>2. \A m \in rows : m < j => m < i
      BY <1>2, <2>1
    <3>3. Before(j) \in SUBSET Before(i)
      BY <3>2
    <3> QED BY <3>1, <3>3, RowsFinite, FS_Subset
  <2> HIDE DEF Before
  <2>3. Cardinality(Before(j)) <= Cardinality(Before(i))
    BY <2>2, FS_Subset
  <2>4. Cardinality(Before(i)) \in Nat /\ Cardinality(Before(j)) \in Nat
    BY <2>2, FS_Subset, FS_CardinalityType
  <2>5. Cardinality(Before(i)) < n
    BY DEF Oldest, Before
  <2>6. Cardinality(Before(j)) < n
    BY <2>3, <2>4, <2>5
  <2> QED BY <2>6 DEF Oldest, Before
<1> QED BY <1>1, <1>2

------------------------------------------------------------------------------
(* The inductive invariant.                                                *)

\* The empty queue satisfies the invariant.
LEMMA InvInit == Init => IngestInv
BY DEF Init, IngestInv, TypeOK, BatchIsHead, AckedIsCommitted, CommittedIsPrefix,
       AckDeletesOnlyCommitted, Ids, LastId

\* Every step keeps it.
LEMMA InvStep == IngestInv /\ [Next]_vars => IngestInv'
<1> SUFFICES ASSUME IngestInv, [Next]_vars
             PROVE  IngestInv'
  OBVIOUS
<1> USE DEF IngestInv
<1>n. LastId \in Nat
  BY RowsFinite
<1>1. ASSUME NEW r \in Records, Enqueue(r)
      PROVE  IngestInv'
  <2>1. /\ inserted' \in Seq(Records)
        /\ LastId' = LastId + 1
        /\ Ids' = Ids \cup {LastId + 1}
        /\ \A i \in Ids : i < LastId + 1
    BY <1>1, <1>n DEF Enqueue, NextId, TypeOK, Ids, LastId
  <2>2. TypeOK'
    BY <1>1, <2>1 DEF Enqueue, NextId, TypeOK
  <2>3. BatchIsHead'
    \* The new row is the youngest, so no batch has to hold it.
    BY <1>1, <2>1, <1>n DEF Enqueue, NextId, TypeOK, BatchIsHead, Ids
  <2>4. AckedIsCommitted' /\ AckDeletesOnlyCommitted'
    BY <1>1, <2>1 DEF Enqueue, NextId, AckedIsCommitted, AckDeletesOnlyCommitted
  <2>5. CommittedIsPrefix'
    BY <1>1, <2>1, <1>n DEF Enqueue, NextId, TypeOK, CommittedIsPrefix, Ids
  <2> QED BY <2>2, <2>3, <2>4, <2>5
<1>2. CASE Dequeue
  <2>1. batch' \subseteq rows /\ \A i \in batch' : \A j \in rows : j < i => j \in batch'
    BY <1>2, OldestIsHead, IngestAssumption DEF Dequeue, RowsAfterRead
  <2> QED
    BY <1>2, <2>1 DEF Dequeue, RowsAfterRead, TypeOK, BatchIsHead, AckedIsCommitted, CommittedIsPrefix,
                      AckDeletesOnlyCommitted, Ids, LastId
\* A committed batch extends the prefix: what is older is in the batch or already acked.
<1>c. ASSUME committed' = committed \cup batch, UNCHANGED inserted
      PROVE  (\A i \in committed' : \A j \in Ids' : j < i => j \in committed')
  <2> SUFFICES ASSUME NEW i \in committed', NEW j \in Ids, j < i
               PROVE  j \in committed'
    BY <1>c DEF Ids, LastId
  <2>1. CASE i \in committed
    BY <2>1, <1>c DEF CommittedIsPrefix
  <2>2. CASE i \in batch
    <3>1. CASE j \in rows
      BY <2>2, <3>1, <1>c DEF BatchIsHead
    <3>2. CASE j \notin rows
      BY <3>2, <1>c DEF AckedIsCommitted
    <3> QED BY <3>1, <3>2
  <2> QED BY <2>1, <2>2, <1>c
<1>3. CASE WriteCommits
  BY <1>3, <1>c DEF WriteCommits, TypeOK, BatchIsHead, AckedIsCommitted, CommittedIsPrefix,
                    AckDeletesOnlyCommitted, Ids, LastId
<1>4. CASE WriteCommitsUnreported
  BY <1>4, <1>c DEF WriteCommitsUnreported, TypeOK, BatchIsHead, AckedIsCommitted,
                    CommittedIsPrefix, AckDeletesOnlyCommitted, Ids, LastId
<1>5. CASE Ack
  BY <1>5 DEF Ack, Acked, TypeOK, BatchIsHead, AckedIsCommitted, CommittedIsPrefix,
              AckDeletesOnlyCommitted, Ids, LastId
<1>6. CASE WriteFails \/ WriteRefuses \/ QueueFileFails \/ Crash \/ Restart
  \* The batch is forgotten or was never there; neither table changes.
  <2>1. UNCHANGED <<inserted, rows, committed>> /\ batch' = {} /\ drain' # "acking"
    BY <1>6 DEF WriteFails, WriteRefuses, QueueFileFails, Crash, Restart, BatchIsHead
  <2>2. drain' \in {"down", "idle", "writing", "acking", "refused", "faulted"}
    BY <1>6 DEF WriteFails, WriteRefuses, QueueFileFails, Crash, Restart
  <2> QED
    BY <2>1, <2>2 DEF TypeOK, BatchIsHead, AckedIsCommitted, CommittedIsPrefix,
                      AckDeletesOnlyCommitted, Ids, LastId
<1>7. CASE UNCHANGED vars
  BY <1>7 DEF vars, TypeOK, BatchIsHead, AckedIsCommitted, CommittedIsPrefix,
              AckDeletesOnlyCommitted, Ids, LastId
<1> QED BY <1>1, <1>2, <1>3, <1>4, <1>5, <1>6, <1>7 DEF Next

\* Every reachable state satisfies the inductive invariant.
THEOREM IngestCorrect == Spec => []IngestInv
BY InvInit, InvStep, PTL DEF Spec

\* The queue's tables are well-typed in every reachable state.
THEOREM IngestTypeCorrect == Spec => []TypeOK
<1>1. IngestInv => TypeOK
  BY DEF IngestInv
<1> QED BY <1>1, IngestCorrect, PTL

\* No accepted record is ever in neither the queue nor the database.
THEOREM NothingAcceptedIsLost == Spec => []AckedIsCommitted
<1>1. IngestInv => AckedIsCommitted
  BY DEF IngestInv
<1> QED BY <1>1, IngestCorrect, PTL

\* The database holds a prefix of what was accepted, in acceptance order.
THEOREM DatabaseHoldsAPrefix == Spec => []CommittedIsPrefix
<1>1. IngestInv => CommittedIsPrefix
  BY DEF IngestInv
<1> QED BY <1>1, IngestCorrect, PTL
------------------------------------------------------------------------------
(* The refinement.                                                         *)

\* A set of ids lies within the interval it is drawn from: what is deleted is at most what
\* is committed, and that at most what was accepted.
LEMMA MarksInOrder ==
  ASSUME IngestInv
  PROVE  /\ Cardinality(committed) \in Nat /\ Cardinality(committed) <= LastId
         /\ LastId - Cardinality(rows) \in Nat
         /\ LastId - Cardinality(rows) <= Cardinality(committed)
<1>1. /\ LastId \in Nat /\ IsFiniteSet(Ids) /\ Cardinality(Ids) = LastId
      /\ IsFiniteSet(rows) /\ IsFiniteSet(committed)
  BY RowsFinite DEF IngestInv
<1>2. committed \in SUBSET Ids /\ rows \in SUBSET Ids
  BY DEF IngestInv, TypeOK
<1>3. Cardinality(committed) <= LastId /\ Cardinality(rows) <= LastId
  BY <1>1, <1>2, FS_Subset
<1>4. Cardinality(committed) \in Nat /\ Cardinality(rows) \in Nat
  BY <1>1, FS_CardinalityType
<1>5. Cardinality(Ids \ rows) = LastId - Cardinality(rows)
  <2>1. Ids \cap rows = rows
    BY <1>2
  <2> QED BY <1>1, <2>1, FS_Difference
<1>6. Ids \ rows \in SUBSET committed
  BY DEF IngestInv, AckedIsCommitted
<1>7. Cardinality(Ids \ rows) <= Cardinality(committed)
  BY <1>1, <1>6, FS_Subset
<1> QED BY <1>1, <1>3, <1>4, <1>5, <1>7

\* Every step of the queue is a step of the abstract one, or changes no mark.
LEMMA StepRefines ==
  IngestInv /\ IngestInv' /\ [Next]_vars => [Abstract!Next]_(Abstract!marks)
<1> SUFFICES ASSUME IngestInv, IngestInv', [Next]_vars
             PROVE  Abstract!Next \/ UNCHANGED Abstract!marks
  BY DEF Abstract!marks
<1>i. /\ IsFiniteSet(rows) /\ Cardinality(rows) \in Nat
      /\ IsFiniteSet(committed) /\ Cardinality(committed) \in Nat
      /\ LastId \in Nat
  BY RowsFinite, FS_CardinalityType DEF IngestInv
<1>m. /\ Cardinality(committed) <= LastId
      /\ LastId - Cardinality(rows) \in Nat
  BY MarksInOrder
<1>p. IsFiniteSet(committed')
  <2>1. TypeOK'
    BY DEF IngestInv
  <2>2. inserted' \in Seq(Records) /\ committed' \in SUBSET (1 .. Len(inserted'))
    BY <2>1 DEF TypeOK, Ids, LastId
  <2>3. Len(inserted') \in Nat
    BY <2>2
  <2>4. IsFiniteSet(1 .. Len(inserted'))
    BY <2>3, FS_Interval
  <2> QED BY <2>2, <2>4, FS_Subset
\* A commit either tells the database something new or repeats a transaction it has.
<1>c. ASSUME committed' = committed \cup batch, UNCHANGED <<inserted, rows>>
      PROVE  Abstract!Next \/ UNCHANGED Abstract!marks
  <2>1. UNCHANGED LastId /\ UNCHANGED Cardinality(rows)
    BY <1>c DEF LastId
  <2>2. CASE committed' = committed
    BY <2>1, <2>2 DEF Abstract!marks
  <2>3. CASE committed' # committed
    <3>1. committed \in SUBSET committed'
      BY <1>c
    <3>2. /\ Cardinality(committed)' \in Nat
          /\ Cardinality(committed) <= Cardinality(committed)'
          /\ Cardinality(committed) # Cardinality(committed)'
      BY <2>3, <3>1, <1>p, FS_Subset, FS_CardinalityType
    <3>3. Cardinality(committed)' <= LastId
      <4>1. TypeOK'
        BY DEF IngestInv
      <4>2. committed' \in SUBSET Ids
        BY <4>1, <1>c DEF TypeOK, Ids, LastId
      <4> QED BY <4>2, RowsFinite, FS_Subset DEF IngestInv
    <3>4. Abstract!Store
      BY <2>1, <3>2, <3>3, <1>i DEF Abstract!Store
    <3> QED BY <3>4 DEF Abstract!Next
  <2> QED BY <2>2, <2>3
<1>1. ASSUME NEW r \in Records, Enqueue(r)
      PROVE  Abstract!Accept
  <2>1. LastId' = LastId + 1 /\ UNCHANGED committed
    BY <1>1 DEF Enqueue, NextId, LastId, IngestInv, TypeOK
  <2>2. LastId + 1 \notin rows
    BY <1>i DEF IngestInv, TypeOK, Ids
  <2>3. Cardinality(rows)' = Cardinality(rows) + 1
    BY <1>1, <2>2, <1>i, FS_AddElement DEF Enqueue, NextId
  <2> QED BY <2>1, <2>3, <1>i DEF Abstract!Accept
<1>2. CASE WriteCommits \/ WriteCommitsUnreported
  BY <1>2, <1>c DEF WriteCommits, WriteCommitsUnreported
<1>3. CASE Ack
  <2>1. UNCHANGED <<inserted, committed>> /\ rows' = rows \ batch
    BY <1>3 DEF Ack, Acked
  <2>2. UNCHANGED LastId /\ UNCHANGED Cardinality(committed)
    BY <2>1 DEF LastId
  <2>3. CASE rows' = rows
    BY <2>2, <2>3 DEF Abstract!marks
  <2>4. CASE rows' # rows
    <3>1. rows' \in SUBSET rows
      BY <2>1
    <3>2. /\ Cardinality(rows)' \in Nat
          /\ Cardinality(rows)' <= Cardinality(rows)
          /\ Cardinality(rows)' # Cardinality(rows)
      BY <2>4, <3>1, <1>i, FS_Subset, FS_CardinalityType
    <3>3. (LastId - Cardinality(rows))' <= Cardinality(committed)
      <4>1. (LastId - Cardinality(rows) <= Cardinality(committed))'
        BY MarksInOrder, PTL
      <4> QED BY <4>1, <2>2
    <3>4. Abstract!Forget
      BY <2>2, <3>2, <3>3, <1>i, <1>m DEF Abstract!Forget
    <3> QED BY <3>4 DEF Abstract!Next
  <2> QED BY <2>3, <2>4
<1>4. CASE \/ Dequeue \/ WriteFails \/ WriteRefuses \/ QueueFileFails
           \/ Crash \/ Restart \/ UNCHANGED vars
  <2>1. UNCHANGED <<inserted, rows, committed>>
    BY <1>4 DEF Dequeue, RowsAfterRead, WriteFails, WriteRefuses, QueueFileFails, Crash, Restart, vars
  <2> QED BY <2>1 DEF Abstract!marks, LastId
<1> QED BY <1>1, <1>2, <1>3, <1>4 DEF Next, Abstract!Next

\* The queue file, its drain and the writer's transaction, through every crash, retry and
\* unreported commit, implement the abstract durable queue.
THEOREM QueueRefinesDurableIngest == Spec => ImplementsDurableIngest
<1>1. Init => Abstract!Init
  <2>1. ASSUME Init
        PROVE  LastId = 0 /\ Cardinality(committed) = 0 /\ Cardinality(rows) = 0
    BY <2>1, FS_EmptySet DEF Init, LastId
  <2> QED BY <2>1 DEF Abstract!Init
<1> QED BY <1>1, IngestCorrect, StepRefines, PTL
        DEF Spec, ImplementsDurableIngest, Abstract!Spec
==============================================================================
