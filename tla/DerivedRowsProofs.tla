-------------------------- MODULE DerivedRowsProofs --------------------------
(***************************************************************************)
(* What holds of DerivedRows for every history of the station, every order *)
(* of deliveries, every batch size and any number of failures and          *)
(* restarts.                                                               *)
(***************************************************************************)
EXTENDS DerivedRows, SequenceTheorems, TLAPS

-----------------------------------------------------------------------------
(* Types.                                                                    *)

Row == [to : States \cup {None}, from : States \cup {None}, reason : BOOLEAN]
AlarmRow == [row : BOOLEAN, acked : {None, "Ack"}, cleared : {None, "Clear"}]
LotRow == [id : Nat, loaded : Nat]
Db == [rows : [Instants -> Row], alarm : AlarmRow, lot : LotRow]
Memory == [state : States \cup {None}, at : Nat]
Txn == [size : Nat, done : Nat, db : Db, seen : Memory, lotId : Nat]

DerivedTypes ==
  /\ truth \in [Instants -> States]
  /\ \A i \in Instants : i + 1 \in Instants => truth[i] # truth[i + 1]
  /\ queued \in Seq(Records) /\ acked \in Nat /\ since \in Nat /\ since <= acked
  /\ acked + txn.size <= Len(queued)
  /\ ids \in Nat
  /\ db \in Db /\ seen \in Memory /\ lotId \in Nat
  /\ txn \in Txn /\ txn.done <= txn.size

-----------------------------------------------------------------------------
(* The State stream.                                                         *)

IsState(p) == queued[p].kind = "State"

\* No State lies after place p and up to place q.
NoState(p, q) == \A m \in p + 1 .. q : ~IsState(m)

\* The last State after place p and up to place q is one of instant i.
LastState(p, q, i) == \E m \in p + 1 .. q : IsState(m) /\ queued[m].at = i /\ NoState(m, q)

\* A memory that has followed the first n records is of the last State this process applied.
Remembers(memory, n) ==
  \/ memory = NoMemory /\ NoState(since, n)
  \/ /\ memory.at \in Instants /\ memory.state = truth[memory.at]
     /\ LastState(since, n, memory.at)

-----------------------------------------------------------------------------
(* The tables after the first n records.                                     *)

\* What one record is owed.
Derived(d, r) ==
  /\ r.kind = "State" => d.rows[r.at].to = truth[r.at]
  /\ r.kind = "StateReason" => (HasReason(r.at) => d.rows[r.at].reason)
  /\ r.kind = "ComponentRead" => d.lot.id # 0 /\ d.lot.loaded <= r.at
  /\ r.kind = "Raise" => d.alarm.row
  /\ r.kind = "Ack" => d.alarm.acked = "Ack"
  /\ r.kind = "Clear" => d.alarm.cleared = "Clear"

AllDerived(d, n) == \A p \in 1 .. n : Derived(d, queued[p])

\* A State of instant i came into the queue right after one of an earlier instant, and state
\* was that one's.
Preceded(i, state) ==
  \E q \in DOMAIN queued : \E p \in 1 .. q - 1 :
    /\ Successive(p, q) /\ queued[q].at = i
    /\ queued[p].at < i /\ state = truth[queued[p].at]

\* A stored from_state is the state before it in the queue; and it is stored where this process
\* applied the two states next to each other.
FromTrue(d) == \A i \in Instants : d.rows[i].from # None => Preceded(i, d.rows[i].from)

FromKept(d, n) ==
  \A q \in 1 .. n : \A p \in since + 1 .. q - 1 :
    Following(p, q) => d.rows[queued[q].at].from # None

\* The rows hold what some record said, and nothing else.
WasSaid(k, i) == \E p \in 1 .. Len(queued) : queued[p].kind = k /\ queued[p].at = i

Said(d) ==
  /\ \A i \in Instants :
       /\ d.rows[i].to # None => WasSaid("State", i)
       /\ d.rows[i].reason => WasSaid("StateReason", i) /\ HasReason(i)
  /\ d.alarm.acked # None => WasSaid("Ack", 1)
  /\ d.alarm.cleared # None => WasSaid("Clear", 1)
  /\ d.lot.id # 0 => WasSaid("ComponentRead", d.lot.loaded)

\* A stored state is the one the station was in.
TruthKept(d) == \A i \in Instants : d.rows[i].to # None => d.rows[i].to = truth[i]

\* All of it, once the first n records are applied.
RowsInv(d, n) == AllDerived(d, n) /\ TruthKept(d) /\ FromTrue(d) /\ FromKept(d, n) /\ Said(d)

\* A cached id is the table's.
IdInv(d, id) == id # 0 => id = d.lot.id

DerivedInv ==
  /\ DerivedTypes
  /\ Remembers(seen, acked) /\ RowsInv(db, acked) /\ IdInv(db, lotId)
  /\ txn.size > 0 =>
       /\ Remembers(txn.seen, acked + txn.done) /\ RowsInv(txn.db, acked + txn.done)
       /\ IdInv(txn.db, txn.lotId)
       /\ db.lot.id # 0 => txn.db.lot.id = db.lot.id

LEMMA RecordOf ==
  ASSUME DerivedTypes, NEW p \in 1 .. Len(queued)
  PROVE  /\ queued[p] \in Records /\ queued[p].at \in Nat
         /\ queued[p].kind \in {"State", "StateReason"} => queued[p].at \in Instants
<1>1. queued[p] \in Records  BY DEF DerivedTypes
<1>2. 1 \in Instants  BY DerivedAssumption DEF Instants
<1> QED  BY <1>1, <1>2 DEF Records, Instants

-----------------------------------------------------------------------------
(* One record applied, of the kinds that leave the memory alone.             *)

\* What no record's upserts take away.
Keeps(d, e) ==
  /\ \A i \in Instants :
       /\ d.rows[i].to # None => e.rows[i].to = d.rows[i].to
       /\ d.rows[i].from # None => e.rows[i].from = d.rows[i].from
       /\ d.rows[i].reason => e.rows[i].reason
  /\ d.alarm.row => e.alarm.row
  /\ d.alarm.acked # None => e.alarm.acked = d.alarm.acked
  /\ d.alarm.cleared # None => e.alarm.cleared = d.alarm.cleared
  /\ d.lot.id # 0 => e.lot.id = d.lot.id /\ e.lot.loaded <= d.lot.loaded

\* The tables follow one record more when its own upserts keep what was there, give it what it
\* is owed, and say nothing else.
LEMMA OneMore ==
  ASSUME DerivedTypes, NEW n \in Nat, n + 1 <= Len(queued), NEW d \in Db, NEW e \in Db,
         AllDerived(d, n), Keeps(d, e), Derived(e, queued[n + 1])
  PROVE  AllDerived(e, n + 1)
<1> SUFFICES ASSUME NEW p \in 1 .. n + 1
             PROVE  Derived(e, queued[p])
  BY DEF AllDerived
<1>1. CASE p = n + 1  BY <1>1
<1>2. CASE p \in 1 .. n
  <2> DEFINE r == queued[p]
  <2>1. Derived(d, r)  BY <1>2 DEF AllDerived
  <2>2. r \in Records /\ r.at \in Nat /\ (r.kind \in {"State", "StateReason"} => r.at \in Instants)
    BY RecordOf
  <2>3. \A i \in Instants : truth[i] # None
    BY DerivedAssumption DEF DerivedTypes
  <2>4. d.lot.loaded \in Nat /\ e.lot.loaded \in Nat  BY DEF Db, LotRow
  <2> HIDE DEF r
  <2>5. r.kind = "State" => e.rows[r.at].to = truth[r.at]
    BY <2>1, <2>2, <2>3 DEF Derived, Keeps
  <2>6. r.kind = "StateReason" => (HasReason(r.at) => e.rows[r.at].reason)
    BY <2>1, <2>2 DEF Derived, Keeps
  <2>7. r.kind = "ComponentRead" => e.lot.id # 0 /\ e.lot.loaded <= r.at
    BY <2>1, <2>2, <2>4 DEF Derived, Keeps
  <2>8. /\ r.kind = "Raise" => e.alarm.row
        /\ r.kind = "Ack" => e.alarm.acked = "Ack"
        /\ r.kind = "Clear" => e.alarm.cleared = "Clear"
    BY <2>1 DEF Derived, Keeps, None
  <2> QED  BY <2>5, <2>6, <2>7, <2>8 DEF Derived, r
<1> QED  BY <1>1, <1>2

LEMMA OneMoreFrom ==
  ASSUME DerivedTypes, NEW n \in Nat, n + 1 <= Len(queued), NEW d \in Db, NEW e \in Db,
         FromKept(d, n), Keeps(d, e),
         \A p \in since + 1 .. n : Following(p, n + 1) => e.rows[queued[n + 1].at].from # None
  PROVE  FromKept(e, n + 1)
<1> SUFFICES ASSUME NEW q \in 1 .. n + 1, NEW p \in since + 1 .. q - 1, Following(p, q)
             PROVE  e.rows[queued[q].at].from # None
  BY DEF FromKept
<1>1. CASE q = n + 1
  <2>1. p \in since + 1 .. n  BY <1>1 DEF DerivedTypes
  <2> QED  BY <1>1, <2>1
<1>2. CASE q \in 1 .. n
  <2>1. d.rows[queued[q].at].from # None  BY <1>2 DEF FromKept
  <2>2. queued[q].kind = "State"  BY DEF Following, Successive
  <2>3. queued[q].at \in Instants  BY <2>2, RecordOf
  <2> QED  BY <2>1, <2>3 DEF Keeps
<1> QED  BY <1>1, <1>2

\* Of the kinds that are no State, none touches a from_state.
LEMMA OneMoreOther ==
  ASSUME DerivedTypes, NEW n \in Nat, n + 1 <= Len(queued), NEW d \in Db, NEW e \in Db,
         RowsInv(d, n), Keeps(d, e), Derived(e, queued[n + 1]),
         queued[n + 1].kind # "State", \A i \in Instants : e.rows[i].from = d.rows[i].from /\ e.rows[i].to = d.rows[i].to,
         Said(e)
  PROVE  RowsInv(e, n + 1)
<1>1. AllDerived(e, n + 1)  BY OneMore DEF RowsInv
<1>2. FromTrue(e)  BY DEF RowsInv, FromTrue
<1>5. TruthKept(e)  BY DEF RowsInv, TruthKept
<1>3. \A p : ~Following(p, n + 1)  BY DEF Following, Successive
<1>4. FromKept(e, n + 1)  BY <1>3, OneMoreFrom DEF RowsInv
<1> QED  BY <1>1, <1>2, <1>4, <1>5 DEF RowsInv

LEMMA OneMoreRemembered ==
  ASSUME DerivedTypes, NEW n \in Nat, NEW m, Remembers(m, n), ~IsState(n + 1), since <= n
  PROVE  Remembers(m, n + 1)
<1>0. since \in Nat  BY DEF DerivedTypes
<1>1. \A p \in Nat : NoState(p, n) => NoState(p, n + 1)
  BY DEF NoState
<1>2. CASE m = NoMemory /\ NoState(since, n)
  BY <1>0, <1>1, <1>2 DEF Remembers
<1>3. CASE m.at \in Instants /\ m.state = truth[m.at] /\ LastState(since, n, m.at)
  <2>1. PICK p \in since + 1 .. n : IsState(p) /\ queued[p].at = m.at /\ NoState(p, n)
    BY <1>3 DEF LastState
  <2>2. p \in Nat /\ p \in since + 1 .. n + 1  BY <1>0
  <2>3. NoState(p, n + 1)  BY <1>1, <2>1, <2>2
  <2>4. LastState(since, n + 1, m.at)  BY <2>1, <2>2, <2>3 DEF LastState
  <2> QED  BY <1>3, <2>4 DEF Remembers
<1> QED  BY <1>2, <1>3 DEF Remembers

-----------------------------------------------------------------------------
(* The five kinds of record.                                                 *)

LEMMA ReasonApplied ==
  ASSUME DerivedTypes, NEW n \in Nat, n + 1 <= Len(queued), NEW d \in Db, RowsInv(d, n),
         queued[n + 1].kind = "StateReason"
  PROVE  LET e == ApplyReason(d, queued[n + 1].at)
         IN  e \in Db /\ RowsInv(e, n + 1) /\ e.lot = d.lot
<1> DEFINE r == queued[n + 1]
           e == ApplyReason(d, r.at)
<1>1. r \in Records /\ r.at \in Instants  BY RecordOf
<1>2. /\ d.rows \in [Instants -> Row] /\ d.alarm \in AlarmRow /\ d.lot \in LotRow
      /\ d = [rows |-> d.rows, alarm |-> d.alarm, lot |-> d.lot]
  BY DEF Db
<1>3. /\ e = [rows |-> e.rows, alarm |-> d.alarm, lot |-> d.lot]
      /\ e.rows \in [Instants -> Row]
      /\ \A i \in Instants : /\ e.rows[i].to = d.rows[i].to /\ e.rows[i].from = d.rows[i].from
                             /\ d.rows[i].reason => e.rows[i].reason
                             /\ i # r.at \/ ~HasReason(r.at) => e.rows[i].reason = d.rows[i].reason
      /\ HasReason(r.at) => e.rows[r.at].reason
  <2>1. CASE HasReason(r.at)
    <3> DEFINE row == [d.rows[r.at] EXCEPT !.reason = TRUE]
    <3>1. row \in Row /\ row.to = d.rows[r.at].to /\ row.from = d.rows[r.at].from /\ row.reason
      BY <1>1, <1>2 DEF Row
    <3>2. e = [rows |-> [d.rows EXCEPT ![r.at] = row], alarm |-> d.alarm, lot |-> d.lot]
      BY <1>2, <2>1 DEF ApplyReason
    <3>3. e.rows = [d.rows EXCEPT ![r.at] = row] /\ e.rows \in [Instants -> Row]
      BY <1>1, <1>2, <3>1, <3>2
    <3> HIDE DEF row, e, r
    <3>4. \A i \in Instants : e.rows[i] = IF i = r.at THEN row ELSE d.rows[i]
      BY <1>1, <1>2, <3>3
    <3> QED  BY <1>1, <2>1, <3>1, <3>2, <3>3, <3>4
  <2>2. CASE ~HasReason(r.at)
    BY <1>2, <2>2 DEF ApplyReason
  <2> QED  BY <2>1, <2>2
<1> HIDE DEF e
<1>4. e \in Db  BY <1>2, <1>3 DEF Db
<1>5. Keeps(d, e)  BY <1>2, <1>3 DEF Keeps, LotRow
<1>6. Derived(e, r)  BY <1>3 DEF Derived
<1>7. Said(e)
  <2>1. \A i \in Instants : e.rows[i].reason => WasSaid("StateReason", i) /\ HasReason(i)
    <3> SUFFICES ASSUME NEW i \in Instants, e.rows[i].reason
                 PROVE  WasSaid("StateReason", i) /\ HasReason(i)
      OBVIOUS
    <3>1. CASE d.rows[i].reason  BY <3>1 DEF RowsInv, Said
    <3>2. CASE i = r.at /\ HasReason(r.at)
      <4>1. n + 1 \in 1 .. Len(queued)  OBVIOUS
      <4> QED  BY <3>2, <4>1 DEF WasSaid
    <3> QED  BY <1>3, <3>1, <3>2
  <2> QED  BY <1>3, <2>1 DEF RowsInv, Said
<1>8. RowsInv(e, n + 1)  BY <1>3, <1>4, <1>5, <1>6, <1>7, OneMoreOther
<1> QED  BY <1>3, <1>4, <1>8 DEF e

LEMMA AlarmRowMade ==
  \A a \in AlarmRow : [a EXCEPT !.row = TRUE] = [row |-> TRUE, acked |-> a.acked, cleared |-> a.cleared]
<1> DEFINE Made(A, B, C, v) ==
             \A a \in [row : A, acked : B, cleared : C] :
               [a EXCEPT !.row = v] = [row |-> v, acked |-> a.acked, cleared |-> a.cleared]
<1>1. \A A, B, C, v : Made(A, B, C, v)  OBVIOUS
<1>2. Made(BOOLEAN, {None, "Ack"}, {None, "Clear"}, TRUE)
  <2> HIDE DEF Made
  <2> QED  BY <1>1
<1> QED  BY <1>2, Zenon DEF AlarmRow

LEMMA AlarmApplied ==
  ASSUME DerivedTypes, NEW n \in Nat, n + 1 <= Len(queued), NEW d \in Db, RowsInv(d, n),
         queued[n + 1].kind \in {"Raise", "Ack", "Clear"}
  PROVE  LET e == ApplyAlarm(d, queued[n + 1].kind)
         IN  e \in Db /\ RowsInv(e, n + 1) /\ e.lot = d.lot
<1> DEFINE r == queued[n + 1]
           e == ApplyAlarm(d, r.kind)
           a == d.alarm
<1>1. r \in Records /\ r.at = 1  BY RecordOf DEF Records
<1>2. /\ d.rows \in [Instants -> Row] /\ a \in AlarmRow /\ d.lot \in LotRow
      /\ d = [rows |-> d.rows, alarm |-> a, lot |-> d.lot]
      /\ a = [row |-> a.row, acked |-> a.acked, cleared |-> a.cleared]
  BY DEF Db, AlarmRow
<1>3. /\ e = [rows |-> d.rows, alarm |-> e.alarm, lot |-> d.lot]
      /\ e.alarm \in AlarmRow /\ e.alarm.row
      /\ e.alarm.acked = IF r.kind = "Ack" THEN "Ack" ELSE a.acked
      /\ e.alarm.cleared = IF r.kind = "Clear" THEN "Clear" ELSE a.cleared
  <2>0. e = [rows |-> d.rows, alarm |-> AlarmColumn(r.kind, [a EXCEPT !.row = TRUE]), lot |-> d.lot]
    BY <1>2 DEF ApplyAlarm
  <2>1. [a EXCEPT !.row = TRUE] = [row |-> TRUE, acked |-> a.acked, cleared |-> a.cleared]
    BY <1>2, AlarmRowMade, Zenon
  <2>2. a.acked \in {None, "Ack"} /\ a.cleared \in {None, "Clear"}  BY <1>2 DEF AlarmRow
  <2> HIDE DEF e, a
  <2>3. CASE r.kind = "Raise"
    BY <2>0, <2>1, <2>2, <2>3 DEF AlarmColumn, AlarmRow
  <2>4. CASE r.kind = "Ack"
    BY <2>0, <2>1, <2>2, <2>4 DEF AlarmColumn, AlarmRow, Coalesce
  <2>5. CASE r.kind = "Clear"
    BY <2>0, <2>1, <2>2, <2>5 DEF AlarmColumn, AlarmRow, Coalesce
  <2> QED  BY <2>3, <2>4, <2>5
<1> HIDE DEF e
<1>4. e \in Db  BY <1>2, <1>3 DEF Db
<1>5. Keeps(d, e)  BY <1>2, <1>3 DEF Keeps, LotRow, AlarmRow, None
<1>6. Derived(e, r)  BY <1>3 DEF Derived
<1>7. Said(e)
  <2>1. n + 1 \in 1 .. Len(queued)  OBVIOUS
  <2>2. WasSaid(r.kind, 1)  BY <1>1, <2>1 DEF WasSaid
  <2> QED  BY <1>3, <2>2 DEF RowsInv, Said
<1>8. RowsInv(e, n + 1)  BY <1>3, <1>4, <1>5, <1>6, <1>7, OneMoreOther
<1> QED  BY <1>3, <1>4, <1>8 DEF e

LEMMA ReadApplied ==
  ASSUME DerivedTypes, NEW n \in Nat, n + 1 <= Len(queued), NEW d \in Db, RowsInv(d, n),
         NEW cached \in Nat, IdInv(d, cached), queued[n + 1].kind = "ComponentRead"
  PROVE  LET e == ApplyRead(d, cached, queued[n + 1].at)
         IN  /\ e \in Db /\ RowsInv(e, n + 1)
             /\ LotId(d, cached) \in Nat /\ IdInv(e, LotId(d, cached))
             /\ d.lot.id # 0 => e.lot.id = d.lot.id
<1> DEFINE r == queued[n + 1]
           e == ApplyRead(d, cached, r.at)
           id == LotId(d, cached)
<1>1. r \in Records /\ r.at \in Nat  BY RecordOf
<1>2. /\ d.rows \in [Instants -> Row] /\ d.alarm \in AlarmRow /\ d.lot \in LotRow
      /\ d = [rows |-> d.rows, alarm |-> d.alarm, lot |-> d.lot]
      /\ d.lot.id \in Nat /\ d.lot.loaded \in Nat
      /\ d.lot = [id |-> d.lot.id, loaded |-> d.lot.loaded]
  BY DEF Db, LotRow
<1>3. ids + 1 \in Nat /\ ids + 1 # 0  BY DEF DerivedTypes
<1>4. id \in Nat /\ id # 0  BY <1>2, <1>3 DEF LotId
<1>5. CASE Inserts(d, cached)
  <2>1. e = [rows |-> d.rows, alarm |-> d.alarm, lot |-> [id |-> id, loaded |-> r.at]]
    BY <1>2, <1>5 DEF ApplyRead
  <2>2. d.lot.id = 0  BY <1>5 DEF Inserts
  <2> HIDE DEF e, id
  <2>3. e \in Db  BY <1>1, <1>2, <1>4, <2>1 DEF Db, LotRow
  <2>4. Keeps(d, e)  BY <2>1, <2>2 DEF Keeps
  <2>5. Derived(e, r)  BY <1>1, <1>4, <2>1 DEF Derived
  <2>6. Said(e)
    <3>1. n + 1 \in 1 .. Len(queued)  OBVIOUS
    <3>2. WasSaid("ComponentRead", r.at)  BY <3>1 DEF WasSaid
    <3> QED  BY <2>1, <3>2 DEF RowsInv, Said
  <2>7. RowsInv(e, n + 1)  BY <2>1, <2>3, <2>4, <2>5, <2>6, OneMoreOther
  <2>8. IdInv(e, id)  BY <2>1 DEF IdInv
  <2> QED  BY <1>4, <2>2, <2>3, <2>7, <2>8 DEF e, id
<1>6. CASE ~Inserts(d, cached)
  <2>1. d.lot.id # 0 /\ id = d.lot.id  BY <1>6 DEF Inserts, LotId, IdInv
  <2>2. /\ e = [rows |-> d.rows, alarm |-> d.alarm, lot |-> e.lot]
        /\ e.lot = [id |-> d.lot.id, loaded |-> IF r.at < d.lot.loaded THEN r.at ELSE d.lot.loaded]
    BY <1>2, <1>6 DEF ApplyRead
  <2> HIDE DEF e, id
  <2>3. e \in Db  BY <1>1, <1>2, <2>2 DEF Db, LotRow
  <2>4. Keeps(d, e)  BY <1>1, <1>2, <2>2 DEF Keeps
  <2>5. Derived(e, r)  BY <1>1, <1>2, <2>1, <2>2 DEF Derived
  <2>6. Said(e)
    <3>1. n + 1 \in 1 .. Len(queued)  OBVIOUS
    <3>2. WasSaid("ComponentRead", r.at)  BY <3>1 DEF WasSaid
    <3>3. WasSaid("ComponentRead", d.lot.loaded)  BY <2>1 DEF RowsInv, Said
    <3>4. WasSaid("ComponentRead", e.lot.loaded)  BY <2>2, <3>2, <3>3
    <3> QED  BY <2>2, <3>4 DEF RowsInv, Said
  <2>7. RowsInv(e, n + 1)  BY <2>2, <2>3, <2>4, <2>5, <2>6, OneMoreOther
  <2>8. IdInv(e, id)  BY <2>1, <2>2 DEF IdInv
  <2> QED  BY <1>4, <2>2, <2>3, <2>7, <2>8 DEF e, id
<1> QED  BY <1>5, <1>6

\* The memory names a state before this one only if the queue had it right before, and it always
\* does when this process applied the state of the instant before last.
LEMMA PreviousIsTrue ==
  ASSUME DerivedTypes, NEW n \in Nat, n + 1 <= Len(queued), since <= n,
         NEW memory \in Memory, Remembers(memory, n), IsState(n + 1)
  PROVE  LET i == queued[n + 1].at
             previous == PreviousStateOf(memory, i)
         IN  /\ previous \in States \cup {None}
             /\ previous # None => Preceded(i, previous)
             /\ \A p \in since + 1 .. n : Following(p, n + 1) => previous # None
<1> DEFINE i == queued[n + 1].at
           previous == PreviousStateOf(memory, i)
<1>0. /\ since \in Nat /\ i \in Instants /\ i \in Nat /\ memory.at \in Nat
      /\ memory.state \in States \cup {None} /\ n + 1 \in 1 .. Len(queued)
  BY RecordOf DEF DerivedTypes, IsState, Memory
<1>1. previous \in States \cup {None}  BY <1>0 DEF PreviousStateOf
<1>2. ASSUME previous # None
      PROVE  Preceded(i, previous)
  <2>1. memory.state # None /\ memory.at < i /\ memory.state # truth[i] /\ previous = memory.state
    BY <1>2 DEF PreviousStateOf
  <2>2. /\ memory.at \in Instants /\ memory.state = truth[memory.at]
        /\ LastState(since, n, memory.at)
    BY <2>1 DEF Remembers, NoMemory
  <2>3. PICK p \in since + 1 .. n : IsState(p) /\ queued[p].at = memory.at /\ NoState(p, n)
    BY <2>2 DEF LastState
  <2>4. p \in 1 .. (n + 1) - 1 /\ n + 1 \in DOMAIN queued  BY <1>0 DEF DerivedTypes
  <2>5. Successive(p, n + 1)
    <3>1. (n + 1) - 1 = n  OBVIOUS
    <3> QED  BY <2>3, <3>1 DEF Successive, NoState, IsState
  <2> HIDE DEF previous
  <2> QED  BY <2>1, <2>2, <2>3, <2>4, <2>5 DEF Preceded
<1>3. ASSUME NEW p \in since + 1 .. n, Following(p, n + 1)
      PROVE  previous # None
  <2>1. IsState(p) /\ i = queued[p].at + 1 /\ \A m \in p + 1 .. n : ~IsState(m)
    BY <1>3 DEF Following, Successive, IsState
  <2>2. ~NoState(since, n)  BY <2>1 DEF NoState
  <2>3. /\ memory.at \in Instants /\ memory.state = truth[memory.at]
        /\ LastState(since, n, memory.at)
    BY <2>2 DEF Remembers
  <2>4. PICK m \in since + 1 .. n : IsState(m) /\ queued[m].at = memory.at /\ NoState(m, n)
    BY <2>3 DEF LastState
  <2>5. ~(m < p)  BY <1>0, <2>1, <2>4 DEF NoState
  <2>6. ~(p < m)  BY <1>0, <2>1, <2>4
  <2>7. m = p  BY <1>0, <2>5, <2>6
  <2>8. i = memory.at + 1  BY <2>1, <2>4, <2>7
  <2>9. memory.at + 1 \in Instants  BY <1>0, <2>8
  <2>10. truth[memory.at] # truth[i]  BY <2>3, <2>8, <2>9 DEF DerivedTypes
  <2>11. memory.state \in States  BY <2>3 DEF DerivedTypes
  <2>12. memory.state # None  BY <2>11, DerivedAssumption
  <2> HIDE DEF i
  <2> QED  BY <1>0, <2>3, <2>8, <2>10, <2>12 DEF PreviousStateOf
<1> QED  BY <1>1, <1>2, <1>3

LEMMA StateApplied ==
  ASSUME DerivedTypes, NEW n \in Nat, n + 1 <= Len(queued), since <= n,
         NEW d \in Db, RowsInv(d, n),
         NEW memory \in Memory, Remembers(memory, n), queued[n + 1].kind = "State"
  PROVE  LET i == queued[n + 1].at
             e == ApplyState(d, memory, i)
         IN  e \in Db /\ RowsInv(e, n + 1) /\ e.lot = d.lot
<1> DEFINE i == queued[n + 1].at
           e == ApplyState(d, memory, i)
           previous == PreviousStateOf(memory, i)
           from == Coalesce(d.rows[i].from, previous)
<1>1. i \in Instants /\ i \in Nat /\ truth[i] \in States /\ truth[i] # None /\ n + 1 \in 1 .. Len(queued)
  BY RecordOf, DerivedAssumption DEF DerivedTypes
<1>2. /\ d.rows \in [Instants -> Row] /\ d.alarm \in AlarmRow /\ d.lot \in LotRow
      /\ d = [rows |-> d.rows, alarm |-> d.alarm, lot |-> d.lot]
  BY DEF Db
<1>3. /\ previous \in States \cup {None}
      /\ previous # None => Preceded(i, previous)
      /\ \A p \in since + 1 .. n : Following(p, n + 1) => previous # None
  BY PreviousIsTrue DEF IsState
<1>4. /\ from \in States \cup {None}
      /\ d.rows[i].from # None => from = d.rows[i].from
      /\ d.rows[i].from = None => from = previous
  BY <1>1, <1>2, <1>3 DEF Coalesce, Row
<1>5. e = [rows |-> [d.rows EXCEPT ![i] = [to |-> truth[i], reason |-> d.rows[i].reason, from |-> from]],
           alarm |-> d.alarm, lot |-> d.lot]
  BY <1>2 DEF ApplyState
<1> HIDE DEF e, from, previous, i
<1>6. /\ e.rows \in [Instants -> Row] /\ e.alarm = d.alarm /\ e.lot = d.lot
      /\ e = [rows |-> e.rows, alarm |-> d.alarm, lot |-> d.lot]
      /\ e.rows[i].to = truth[i] /\ e.rows[i].from = from
      /\ \A j \in Instants : e.rows[j].reason = d.rows[j].reason /\ (j # i => e.rows[j] = d.rows[j])
  <2>1. [to |-> truth[i], reason |-> d.rows[i].reason, from |-> from] \in Row
    BY <1>1, <1>2, <1>4 DEF Row
  <2> QED  BY <1>1, <1>2, <1>5, <2>1
<1>7. e \in Db  BY <1>2, <1>6 DEF Db
<1>8. \A j \in Instants : d.rows[j].to # None => d.rows[j].to = truth[j]
  BY DEF RowsInv, TruthKept
<1>9. Keeps(d, e)
  <2>1. \A j \in Instants : /\ d.rows[j].to # None => e.rows[j].to = d.rows[j].to
                            /\ d.rows[j].from # None => e.rows[j].from = d.rows[j].from
                            /\ d.rows[j].reason => e.rows[j].reason
    BY <1>1, <1>4, <1>6, <1>8
  <2> QED  BY <1>2, <1>6, <2>1 DEF Keeps, LotRow
<1>10. Derived(e, queued[n + 1])  BY <1>6 DEF Derived, i
<1>11. AllDerived(e, n + 1)  BY <1>7, <1>9, <1>10, OneMore DEF RowsInv
<1>12. FromTrue(e)
  <2> SUFFICES ASSUME NEW j \in Instants, e.rows[j].from # None
               PROVE  Preceded(j, e.rows[j].from)
    BY DEF FromTrue
  <2>1. d.rows[j].from # None => Preceded(j, d.rows[j].from)
    BY DEF RowsInv, FromTrue
  <2>2. CASE j = i  BY <1>3, <1>4, <1>6, <2>1, <2>2
  <2>3. CASE j # i  BY <1>6, <2>1, <2>3
  <2> QED  BY <2>2, <2>3
<1>13. FromKept(e, n + 1)
  <2>1. \A p \in since + 1 .. n : Following(p, n + 1) => e.rows[i].from # None
    BY <1>3, <1>4, <1>6
  <2> QED  BY <1>7, <1>9, <2>1, OneMoreFrom DEF RowsInv, i
<1>14. Said(e)
  <2>1. WasSaid("State", i)  BY <1>1 DEF WasSaid, i
  <2>2. \A j \in Instants : e.rows[j].to # None => WasSaid("State", j)
    BY <1>6, <2>1 DEF RowsInv, Said
  <2> QED  BY <1>6, <2>2 DEF RowsInv, Said
<1>15. TruthKept(e)  BY <1>6, <1>8 DEF TruthKept
<1> QED  BY <1>6, <1>7, <1>11, <1>12, <1>13, <1>14, <1>15 DEF RowsInv, e, i

LEMMA StateRemembered ==
  ASSUME DerivedTypes, NEW n \in Nat, n + 1 <= Len(queued), since <= n,
         queued[n + 1].kind = "State"
  PROVE  LET i == queued[n + 1].at
             memory == [state |-> truth[i], at |-> i]
         IN  memory \in Memory /\ Remembers(memory, n + 1)
<1>1. /\ queued[n + 1].at \in Instants /\ queued[n + 1].at \in Nat /\ since \in Nat
      /\ truth[queued[n + 1].at] \in States
  BY RecordOf DEF DerivedTypes
<1>2. LastState(since, n + 1, queued[n + 1].at)
  <2>1. NoState(n + 1, n + 1)  BY DEF NoState
  <2>2. n + 1 \in since + 1 .. n + 1  BY <1>1
  <2> QED  BY <2>1, <2>2 DEF LastState, IsState
<1> QED  BY <1>1, <1>2 DEF Memory, Remembers

-----------------------------------------------------------------------------
(* The invariant is inductive.                                               *)

LEMMA NothingDerived == Nothing \in Db /\ NoMemory \in Memory /\ NoTxn \in Txn
<1>1. NoRow \in Row  BY DEF NoRow, Row
<1>2. NoAlarm \in AlarmRow  BY DEF NoAlarm, AlarmRow
<1>3. NoLot \in LotRow  BY DEF NoLot, LotRow
<1>4. Nothing \in Db  BY <1>1, <1>2, <1>3 DEF Nothing, Db
<1>5. NoMemory \in Memory  BY DEF NoMemory, Memory
<1> QED  BY <1>4, <1>5 DEF NoTxn, Txn

LEMMA InitDerived == Init => DerivedInv
<1> SUFFICES ASSUME Init  PROVE DerivedInv
  OBVIOUS
<1> USE DEF Init
<1>1. DerivedTypes
  BY NothingDerived DEF DerivedTypes, NoTxn
<1>3. Remembers(seen, acked)
  BY DEF Remembers, NoState
<1>4. RowsInv(db, acked)
  <2>1. AllDerived(db, acked)  BY DEF AllDerived
  <2>2. \A i \in Instants : db.rows[i] = NoRow  BY DEF Nothing
  <2>3. TruthKept(db) /\ FromTrue(db)  BY <2>2 DEF TruthKept, FromTrue, NoRow
  <2>4. FromKept(db, acked)  BY DEF FromKept
  <2>5. db.alarm = NoAlarm /\ db.lot = NoLot  BY DEF Nothing
  <2>6. Said(db)  BY <2>2, <2>5 DEF Said, NoRow, NoAlarm, NoLot
  <2> QED  BY <2>1, <2>3, <2>4, <2>6 DEF RowsInv
<1>5. IdInv(db, lotId)  BY DEF IdInv
<1>6. ~(txn.size > 0)  BY DEF NoTxn
<1> QED  BY <1>1, <1>3, <1>4, <1>5, <1>6 DEF DerivedInv

\* What no action but Deliver and Restart changes.
LEMMA SameRecords ==
  ASSUME UNCHANGED <<truth, queued, since>>, NEW d, NEW m, NEW n
  PROVE  /\ RowsInv(d, n)' <=> RowsInv(d, n)
         /\ Remembers(m, n)' <=> Remembers(m, n)
<1>1. /\ AllDerived(d, n)' <=> AllDerived(d, n)
      /\ TruthKept(d)' <=> TruthKept(d)
      /\ FromTrue(d)' <=> FromTrue(d)
      /\ FromKept(d, n)' <=> FromKept(d, n)
      /\ Said(d)' <=> Said(d)
  BY DEF AllDerived, Derived, HasReason, TruthKept, FromTrue, Preceded, FromKept,
         Following, Successive, Said, WasSaid
<1>2. Remembers(m, n)' <=> Remembers(m, n)
  BY DEF Remembers, NoState, LastState, IsState
<1> QED  BY <1>1, <1>2 DEF RowsInv

LEMMA BeginsBatch == DerivedInv /\ BeginBatch => DerivedInv'
<1> SUFFICES ASSUME DerivedInv, BeginBatch  PROVE DerivedInv'
  OBVIOUS
<1>1. /\ txn' = [size |-> BatchSize, done |-> 0, db |-> db, seen |-> seen, lotId |-> lotId]
      /\ UNCHANGED <<truth, queued, acked, db, ids, memoryVars, since>>
  BY DEF BeginBatch
<1>2. BatchSize \in Nat /\ acked + BatchSize <= Len(queued)
  <2>1. Len(queued) \in Nat /\ acked \in Nat /\ DrainBatchSize \in Nat /\ acked <= Len(queued)
    BY DerivedAssumption DEF DerivedInv, DerivedTypes, Txn
  <2> QED  BY <2>1 DEF BatchSize, Pending
<1>3. DerivedTypes'
  BY <1>1, <1>2 DEF DerivedInv, DerivedTypes, Txn, memoryVars
<1>5. Remembers(seen, acked)' /\ RowsInv(db, acked)' /\ IdInv(db, lotId)'
  BY <1>1, SameRecords DEF DerivedInv, IdInv, memoryVars
<1>6. (txn.size > 0 =>
         /\ Remembers(txn.seen, acked + txn.done) /\ RowsInv(txn.db, acked + txn.done)
         /\ IdInv(txn.db, txn.lotId)
         /\ db.lot.id # 0 => txn.db.lot.id = db.lot.id)'
  <2>1. /\ txn'.seen = seen /\ txn'.db = db /\ txn'.lotId = lotId /\ acked' + txn'.done = acked
        /\ db' = db
    BY <1>1 DEF DerivedInv, DerivedTypes
  <2> QED  BY <1>1, <2>1, SameRecords DEF DerivedInv, IdInv
<1> QED  BY <1>3, <1>5, <1>6 DEF DerivedInv

\* One record more, of whichever kind.
LEMMA OneApplied ==
  ASSUME DerivedInv, txn.done < txn.size, ApplyNext
  PROVE  /\ txn' \in Txn /\ txn'.size = txn.size /\ txn'.done = txn.done + 1 /\ ids' \in Nat
         /\ LET n == acked + txn.done
            IN  /\ Remembers(txn'.seen, n + 1) /\ RowsInv(txn'.db, n + 1)
                /\ IdInv(txn'.db, txn'.lotId)
                /\ txn.db.lot.id # 0 => txn'.db.lot.id = txn.db.lot.id
<1> DEFINE n == acked + txn.done
           r == queued[n + 1]
<1>1. /\ DerivedTypes /\ n \in Nat /\ n + 1 <= Len(queued) /\ since <= n /\ txn.size > 0
      /\ since \in Nat /\ acked \in Nat
      /\ txn.size \in Nat /\ txn.done \in Nat /\ txn.db \in Db /\ txn.seen \in Memory
      /\ txn.lotId \in Nat /\ ids \in Nat
      /\ txn = [size |-> txn.size, done |-> txn.done, db |-> txn.db, seen |-> txn.seen,
                lotId |-> txn.lotId]
  <2>1. DerivedTypes /\ txn \in Txn /\ Len(queued) \in Nat
    BY DEF DerivedInv, DerivedTypes
  <2> QED  BY <2>1 DEF DerivedTypes, Txn
<1>2. /\ Remembers(txn.seen, n) /\ RowsInv(txn.db, n) /\ IdInv(txn.db, txn.lotId)
  BY <1>1 DEF DerivedInv
<1>3. CASE r.kind = "State"
  <2> DEFINE e == ApplyState(txn.db, txn.seen, r.at)
             m == [state |-> truth[r.at], at |-> r.at]
  <2>1. /\ txn' = [size |-> txn.size, done |-> txn.done + 1, db |-> e, seen |-> m,
                   lotId |-> txn.lotId]
        /\ ids' = ids
    BY <1>1, <1>3 DEF ApplyNext
  <2>2. e \in Db /\ RowsInv(e, n + 1) /\ e.lot = txn.db.lot
    BY <1>1, <1>2, <1>3, StateApplied
  <2>3. m \in Memory /\ Remembers(m, n + 1)  BY <1>1, <1>3, StateRemembered
  <2> HIDE DEF e, m, n
  <2>4. txn' \in Txn  BY <1>1, <2>1, <2>2, <2>3 DEF Txn
  <2> QED  BY <1>1, <1>2, <2>1, <2>2, <2>3, <2>4 DEF IdInv, n
<1>4. ASSUME r.kind # "State"
      PROVE  Remembers(txn.seen, n + 1)
  BY <1>1, <1>2, <1>4, OneMoreRemembered DEF IsState
<1>5. CASE r.kind = "StateReason"
  <2> DEFINE e == ApplyReason(txn.db, r.at)
  <2>1. /\ txn' = [size |-> txn.size, done |-> txn.done + 1, db |-> e, seen |-> txn.seen,
                   lotId |-> txn.lotId]
        /\ ids' = ids
    BY <1>1, <1>5 DEF ApplyNext
  <2>2. e \in Db /\ RowsInv(e, n + 1) /\ e.lot = txn.db.lot
    BY <1>1, <1>2, <1>5, ReasonApplied
  <2>3. Remembers(txn.seen, n + 1)  BY <1>4, <1>5
  <2> HIDE DEF e, n
  <2>4. txn' \in Txn  BY <1>1, <2>1, <2>2 DEF Txn
  <2> QED  BY <1>1, <1>2, <2>1, <2>2, <2>3, <2>4 DEF IdInv, n
<1>6. CASE r.kind \in {"Raise", "Ack", "Clear"}
  <2> DEFINE e == ApplyAlarm(txn.db, r.kind)
  <2>1. /\ txn' = [size |-> txn.size, done |-> txn.done + 1, db |-> e, seen |-> txn.seen,
                   lotId |-> txn.lotId]
        /\ ids' = ids
    BY <1>1, <1>6 DEF ApplyNext
  <2>2. e \in Db /\ RowsInv(e, n + 1) /\ e.lot = txn.db.lot
    BY <1>1, <1>2, <1>6, AlarmApplied
  <2>3. Remembers(txn.seen, n + 1)  BY <1>4, <1>6
  <2> HIDE DEF e, n
  <2>4. txn' \in Txn  BY <1>1, <2>1, <2>2 DEF Txn
  <2> QED  BY <1>1, <1>2, <2>1, <2>2, <2>3, <2>4 DEF IdInv, n
<1>7. CASE r.kind = "ComponentRead"
  <2> DEFINE e == ApplyRead(txn.db, txn.lotId, r.at)
             id == LotId(txn.db, txn.lotId)
  <2>1. /\ txn' = [size |-> txn.size, done |-> txn.done + 1, db |-> e, seen |-> txn.seen,
                   lotId |-> id]
        /\ ids' \in Nat
    <3>1. /\ ids' = IF Inserts(txn.db, txn.lotId) THEN ids + 1 ELSE ids
          /\ txn' = [[txn EXCEPT !.done = @ + 1]
                       EXCEPT !.db = ApplyRead(@, txn.lotId, r.at), !.lotId = id]
      BY <1>7 DEF ApplyNext
    <3>2. ids' \in Nat  BY <1>1, <3>1
    <3>3. txn' = [size |-> txn.size, done |-> txn.done + 1, db |-> e, seen |-> txn.seen,
                  lotId |-> id]
      <4> HIDE DEF id
      <4> QED  BY <1>1, <3>1
    <3> QED  BY <3>2, <3>3
  <2>2. /\ e \in Db /\ RowsInv(e, n + 1) /\ id \in Nat /\ IdInv(e, id)
        /\ txn.db.lot.id # 0 => e.lot.id = txn.db.lot.id
    BY <1>1, <1>2, <1>7, ReadApplied
  <2>3. Remembers(txn.seen, n + 1)  BY <1>4, <1>7
  <2> HIDE DEF e, n, id
  <2>4. txn' \in Txn  BY <1>1, <2>1, <2>2 DEF Txn
  <2> QED  BY <1>1, <1>2, <2>1, <2>2, <2>3, <2>4 DEF IdInv, n
<1> QED
  <2>1. r \in Records  BY <1>1, RecordOf
  <2> QED  BY <2>1, <1>3, <1>5, <1>6, <1>7 DEF Records

LEMMA AppliesNext == DerivedInv /\ ApplyNext => DerivedInv'
<1> SUFFICES ASSUME DerivedInv, ApplyNext  PROVE DerivedInv'
  OBVIOUS
<1>1. /\ txn.done < txn.size
      /\ UNCHANGED <<truth, queued, acked, db, memoryVars, since>>
  BY DEF ApplyNext
<1>2. /\ txn' \in Txn /\ txn'.size = txn.size /\ txn'.done = txn.done + 1 /\ ids' \in Nat
      /\ Remembers(txn'.seen, acked + txn.done + 1) /\ RowsInv(txn'.db, acked + txn.done + 1)
      /\ IdInv(txn'.db, txn'.lotId)
      /\ txn.db.lot.id # 0 => txn'.db.lot.id = txn.db.lot.id
  BY <1>1, OneApplied
<1>3. /\ txn.size \in Nat /\ txn.done \in Nat /\ acked \in Nat /\ txn.size > 0
      /\ acked' + txn'.done = acked + txn.done + 1
  BY <1>1, <1>2 DEF DerivedInv, DerivedTypes, Txn
<1>4. DerivedTypes'
  BY <1>1, <1>2, <1>3 DEF DerivedInv, DerivedTypes, memoryVars
<1>6. Remembers(seen, acked)' /\ RowsInv(db, acked)' /\ IdInv(db, lotId)'
  BY <1>1, SameRecords DEF DerivedInv, IdInv, memoryVars
<1>7. /\ Remembers(txn.seen, acked + txn.done)' /\ RowsInv(txn.db, acked + txn.done)'
      /\ IdInv(txn.db, txn.lotId)'
  BY <1>1, <1>2, <1>3, SameRecords DEF IdInv
<1>8. (db.lot.id # 0 => txn.db.lot.id = db.lot.id)'
  BY <1>1, <1>2, <1>3 DEF DerivedInv
<1> QED  BY <1>4, <1>6, <1>7, <1>8 DEF DerivedInv

LEMMA WriteEnds ==
  DerivedInv /\ (WriteCommits \/ WriteCommitsUnreported \/ WriteFails) => DerivedInv'
<1> SUFFICES ASSUME DerivedInv, WriteCommits \/ WriteCommitsUnreported \/ WriteFails
             PROVE  DerivedInv'
  OBVIOUS
<1>1. /\ txn' = NoTxn /\ txn.size > 0
      /\ UNCHANGED <<truth, queued, ids, since>>
      /\ txn.size \in Nat /\ txn.done \in Nat /\ acked \in Nat /\ txn.done <= txn.size
      /\ txn.db \in Db /\ txn.seen \in Memory /\ txn.lotId \in Nat
  BY DEF WriteCommits, WriteCommitsUnreported, WriteFails, Applied, DerivedInv, DerivedTypes, Txn
<1>2. txn'.size = 0 /\ txn'.done = 0 /\ txn' \in Txn
  BY <1>1, NothingDerived DEF NoTxn
<1>3. /\ RowsInv(txn.db, acked + txn.done) /\ Remembers(txn.seen, acked + txn.done)
      /\ IdInv(txn.db, txn.lotId) /\ (db.lot.id # 0 => txn.db.lot.id = db.lot.id)
  BY <1>1 DEF DerivedInv
<1>5. CASE WriteCommits
  <2>1. /\ db' = txn.db /\ seen' = txn.seen /\ lotId' = txn.lotId
        /\ acked' = acked + txn.done /\ txn.done = txn.size
    BY <1>5 DEF WriteCommits, Applied
  <2>2. DerivedTypes'
    BY <1>1, <1>2, <2>1 DEF DerivedInv, DerivedTypes
  <2>3. Remembers(seen, acked)' /\ RowsInv(db, acked)' /\ IdInv(db, lotId)'
    BY <1>1, <1>3, <2>1, SameRecords DEF IdInv
  <2> QED  BY <1>2, <2>2, <2>3 DEF DerivedInv
<1>6. CASE WriteCommitsUnreported
  <2>1. db' = txn.db /\ UNCHANGED <<memoryVars, acked>>
    BY <1>6 DEF WriteCommitsUnreported
  <2>2. DerivedTypes'
    BY <1>1, <1>2, <2>1 DEF DerivedInv, DerivedTypes, memoryVars
  <2>3. RowsInv(txn.db, acked)
    <3>1. AllDerived(txn.db, acked)  BY <1>1, <1>3 DEF RowsInv, AllDerived
    <3>2. FromKept(txn.db, acked)  BY <1>1, <1>3 DEF RowsInv, FromKept
    <3> QED  BY <1>3, <3>1, <3>2 DEF RowsInv
  <2>4. IdInv(txn.db, lotId)  BY <1>3 DEF DerivedInv, IdInv
  <2>5. Remembers(seen, acked)' /\ RowsInv(db, acked)' /\ IdInv(db, lotId)'
    BY <1>1, <2>1, <2>3, <2>4, SameRecords DEF DerivedInv, IdInv, memoryVars
  <2> QED  BY <1>2, <2>2, <2>5 DEF DerivedInv
<1>7. CASE WriteFails
  <2>1. UNCHANGED <<memoryVars, acked, db>>
    BY <1>7 DEF WriteFails
  <2>2. DerivedTypes'
    BY <1>1, <1>2, <2>1 DEF DerivedInv, DerivedTypes, memoryVars
  <2>3. Remembers(seen, acked)' /\ RowsInv(db, acked)' /\ IdInv(db, lotId)'
    BY <1>1, <2>1, SameRecords DEF DerivedInv, IdInv, memoryVars
  <2> QED  BY <1>2, <2>2, <2>3 DEF DerivedInv
<1> QED  BY <1>5, <1>6, <1>7

\* A new process owes from_state only to what it applies itself.
LEMMA Restarts == DerivedInv /\ Restart => DerivedInv'
<1> SUFFICES ASSUME DerivedInv, Restart  PROVE DerivedInv'
  OBVIOUS
<1>1. /\ seen' = NoMemory /\ lotId' = 0 /\ txn' = NoTxn /\ since' = acked
      /\ UNCHANGED <<truth, queued, acked, db, ids>> /\ acked \in Nat
  BY DEF Restart, DerivedInv, DerivedTypes
<1>2. txn'.size = 0 /\ txn'.done = 0 /\ txn' \in Txn
  BY <1>1, NothingDerived DEF NoTxn
<1>3. acked <= Len(queued)  BY <1>1 DEF DerivedInv, DerivedTypes, Txn
<1>4. DerivedTypes'
  BY <1>1, <1>2, <1>3, NothingDerived DEF DerivedInv, DerivedTypes
<1>6. Remembers(seen, acked)'
  BY <1>1 DEF Remembers, NoState
<1>7. RowsInv(db, acked)'
  <2>1. AllDerived(db, acked)' /\ TruthKept(db)' /\ FromTrue(db)' /\ Said(db)'
    BY <1>1 DEF DerivedInv, RowsInv, AllDerived, Derived, HasReason, TruthKept, FromTrue, Preceded,
                Successive, Said, WasSaid
  <2>2. FromKept(db, acked)'
    BY <1>1 DEF FromKept
  <2> QED  BY <2>1, <2>2 DEF RowsInv
<1>8. IdInv(db, lotId)'  BY <1>1 DEF IdInv
<1> QED  BY <1>2, <1>4, <1>6, <1>7, <1>8 DEF DerivedInv

\* A record at the end of the queue changes nothing of what is said of those before it.
LEMMA Delivers ==
  ASSUME NEW r \in Records, DerivedInv, Deliver(r)
  PROVE  DerivedInv'
<1>0. PICK L \in Nat : L = Len(queued)
  BY DEF DerivedInv, DerivedTypes
<1>1. /\ queued' = Append(queued, r)
      /\ UNCHANGED <<truth, acked, db, ids, seen, lotId, txn, since>>
      /\ queued \in Seq(Records) /\ L \in Nat /\ acked \in Nat /\ since \in Nat
      /\ txn.size \in Nat /\ txn.done \in Nat /\ acked + txn.done <= L /\ acked <= L
  BY <1>0 DEF Deliver, DerivedInv, DerivedTypes, Txn, Records, Instants, memoryVars
<1>2. /\ queued' \in Seq(Records) /\ Len(queued') = L + 1 /\ queued'[L + 1] = r
      /\ \A p \in 1 .. L : queued'[p] = queued[p]
  BY <1>0, <1>1, AppendProperties
<1>4. DerivedTypes'
  <2>1. acked + txn.size <= L + 1  BY <1>0, <1>1 DEF DerivedInv, DerivedTypes
  <2> QED  BY <1>1, <1>2, <2>1 DEF DerivedInv, DerivedTypes
<1>5. \A p, q \in Nat : q <= L => (NoState(p, q)' <=> NoState(p, q))
  BY <1>1, <1>2 DEF NoState, IsState
<1>6. \A i : \A p, q \in Nat : q <= L => (LastState(p, q, i)' <=> LastState(p, q, i))
  <2> SUFFICES ASSUME NEW i, NEW p \in Nat, NEW q \in Nat, q <= L
               PROVE  LastState(p, q, i)' <=> LastState(p, q, i)
    OBVIOUS
  <2>1. \A m \in p + 1 .. q : /\ NoState(m, q)' <=> NoState(m, q)
                              /\ queued'[m] = queued[m]
    <3>1. \A m \in p + 1 .. q : m \in Nat /\ m \in 1 .. L  OBVIOUS
    <3> QED  BY <1>2, <1>5, <3>1
  <2> QED  BY <2>1 DEF LastState, IsState
<1>7. Remembers(seen, acked)'
  BY <1>1, <1>5, <1>6 DEF DerivedInv, Remembers
<1>8. txn.size > 0 => Remembers(txn.seen, acked + txn.done)'
  BY <1>1, <1>5, <1>6 DEF DerivedInv, Remembers
<1>9. ASSUME NEW d, NEW n \in Nat, n <= L, RowsInv(d, n)
      PROVE  RowsInv(d, n)'
  <2>1. AllDerived(d, n)' /\ TruthKept(d)'
    BY <1>1, <1>2, <1>9 DEF RowsInv, AllDerived, Derived, HasReason, TruthKept
  <2>5. ASSUME NEW i, NEW state, Preceded(i, state)
        PROVE  Preceded(i, state)'
    <3>1. PICK q \in DOMAIN queued : \E p \in 1 .. q - 1 :
                  /\ Successive(p, q) /\ queued[q].at = i
                  /\ queued[p].at < i /\ state = truth[queued[p].at]
      BY <2>5 DEF Preceded
    <3>2. PICK p \in 1 .. q - 1 : /\ Successive(p, q) /\ queued[q].at = i
                                  /\ queued[p].at < i /\ state = truth[queued[p].at]
      BY <3>1
    <3>3. q \in 1 .. L /\ q \in DOMAIN queued' /\ \A m \in p .. q : queued'[m] = queued[m]
      BY <1>0, <1>1, <1>2
    <3>4. queued'[q] = queued[q] /\ queued'[p] = queued[p]
      BY <1>0, <1>2, <3>3
    <3>5. Successive(p, q)'  BY <3>2, <3>3, <3>4 DEF Successive
    <3> QED  BY <1>1, <3>2, <3>3, <3>4, <3>5 DEF Preceded
  <2>6. FromTrue(d)'  BY <1>9, <2>5 DEF RowsInv, FromTrue
  <2>2. FromKept(d, n)'
    <3> SUFFICES ASSUME NEW q \in 1 .. n, NEW p \in since + 1 .. q - 1, Following(p, q)'
                 PROVE  d.rows[queued'[q].at].from # None
      BY <1>1 DEF FromKept
    <3>1. /\ queued'[q] = queued[q] /\ queued'[p] = queued[p]
          /\ \A m \in p + 1 .. q - 1 : queued'[m] = queued[m]
      BY <1>1, <1>2, <1>9
    <3>2. Following(p, q)  BY <3>1 DEF Following, Successive
    <3> QED  BY <1>9, <3>1, <3>2 DEF RowsInv, FromKept
  <2>3. \A k, i : WasSaid(k, i) => WasSaid(k, i)'
    BY <1>0, <1>1, <1>2 DEF WasSaid
  <2>4. Said(d)'
    BY <1>1, <1>9, <2>3 DEF RowsInv, Said, HasReason
  <2> QED  BY <2>1, <2>2, <2>4, <2>6 DEF RowsInv
<1>10. RowsInv(db, acked)' /\ IdInv(db, lotId)'
  BY <1>1, <1>9 DEF DerivedInv, IdInv
<1>11. txn.size > 0 => RowsInv(txn.db, acked + txn.done)'
  BY <1>1, <1>9 DEF DerivedInv
<1>13. txn.size > 0 =>
         /\ Remembers(txn.seen, acked + txn.done)' /\ RowsInv(txn.db, acked + txn.done)'
         /\ IdInv(txn.db, txn.lotId)'
         /\ (db.lot.id # 0 => txn.db.lot.id = db.lot.id)'
  BY <1>1, <1>8, <1>11 DEF DerivedInv, IdInv
<1> QED  BY <1>1, <1>4, <1>7, <1>10, <1>13 DEF DerivedInv

LEMMA StepDerived == DerivedInv /\ [Next]_vars => DerivedInv'
<1> SUFFICES ASSUME DerivedInv, [Next]_vars  PROVE DerivedInv'
  OBVIOUS
<1>1. ASSUME NEW r \in Records, Deliver(r)  PROVE DerivedInv'  BY <1>1, Delivers
<1>2. CASE BeginBatch  BY <1>2, BeginsBatch
<1>3. CASE ApplyNext  BY <1>3, AppliesNext
<1>4. CASE WriteCommits \/ WriteCommitsUnreported \/ WriteFails  BY <1>4, WriteEnds
<1>5. CASE Restart  BY <1>5, Restarts
<1>6. CASE UNCHANGED vars
  <2> USE <1>6 DEF vars
  <2>1. DerivedTypes'
    BY DEF DerivedInv, DerivedTypes
  <2>2. /\ Remembers(seen, acked)' /\ RowsInv(db, acked)' /\ IdInv(db, lotId)'
        /\ txn.size > 0 => /\ Remembers(txn.seen, acked + txn.done)'
                           /\ RowsInv(txn.db, acked + txn.done)' /\ IdInv(txn.db, txn.lotId)'
    BY SameRecords DEF DerivedInv, IdInv
  <2> QED  BY <2>1, <2>2 DEF DerivedInv
<1> QED  BY <1>1, <1>2, <1>3, <1>4, <1>5, <1>6 DEF Next

THEOREM DerivedIsKept == Spec => []DerivedInv
<1> QED  BY InitDerived, StepDerived, PTL DEF Spec

-----------------------------------------------------------------------------
(* The properties.                                                           *)

\* A from_state is the state the queue had right before this one, whatever was re-read, retried
\* or forgotten, and it is never missing where one process wrote two states next to each other:
\* a batch's memory reaches the shared one on commit only (UpsertStateChangeAsync with
\* PreviousStateOf).
THEOREM FromStatesAreRight == Spec => []FromStateIsRight
<1>1. DerivedInv => FromStateIsRight
  BY DEF DerivedInv, RowsInv, FromTrue, Preceded, FromKept, FromStateIsRight, FromStateIsTrue,
         FromStateIsKept
<1> QED  BY <1>1, DerivedIsKept, PTL

\* No State record ahead of one that was lost: the stream went on to the next row, or back.
NothingSkipped ==
  \A q \in DOMAIN queued : \A p \in 1 .. q - 1 :
    Successive(p, q) => queued[q].at <= queued[p].at + 1

\* So as long as the queue has skipped no row, every from_state is the state the station really
\* came from, however often the stream was read again and whoever restarted when.
THEOREM FromStatesAreTrueUnlessSkipped ==
  Spec => [](NothingSkipped =>
               \A i \in Instants : db.rows[i].from # None => i > 1 /\ db.rows[i].from = truth[i - 1])
<1>1. DerivedInv /\ NothingSkipped =>
        \A i \in Instants : db.rows[i].from # None => i > 1 /\ db.rows[i].from = truth[i - 1]
  <2> SUFFICES ASSUME DerivedInv, NothingSkipped, NEW i \in Instants, db.rows[i].from # None
               PROVE  i > 1 /\ db.rows[i].from = truth[i - 1]
    OBVIOUS
  <2>1. Preceded(i, db.rows[i].from)  BY DEF DerivedInv, RowsInv, FromTrue
  <2>2. PICK q \in DOMAIN queued : \E p \in 1 .. q - 1 :
                /\ Successive(p, q) /\ queued[q].at = i
                /\ queued[p].at < i /\ db.rows[i].from = truth[queued[p].at]
    BY <2>1 DEF Preceded
  <2>3. PICK p \in 1 .. q - 1 : /\ Successive(p, q) /\ queued[q].at = i
                                /\ queued[p].at < i /\ db.rows[i].from = truth[queued[p].at]
    BY <2>2
  <2>4. DerivedTypes /\ p \in 1 .. Len(queued)
    BY DEF DerivedInv, DerivedTypes
  <2>5. queued[p].at \in Instants  BY <2>3, <2>4, RecordOf DEF Successive
  <2>6. i <= queued[p].at + 1  BY <2>2, <2>3 DEF NothingSkipped
  <2>7. queued[p].at = i - 1 /\ i > 1  BY <2>3, <2>5, <2>6 DEF Instants
  <2> QED  BY <2>3, <2>7
<1> QED  BY <1>1, DerivedIsKept, PTL

\* What the queue has deleted is in the tables, in whichever order the two halves of a
\* transition and the three events of an alarm came, and however often each did.
THEOREM WhatIsAckedIsDerived == Spec => []AckedIsDerived
<1>1. DerivedInv => AckedIsDerived
  <2> SUFFICES ASSUME DerivedInv, NEW p \in 1 .. acked
               PROVE  LET r == queued[p] IN
                      CASE r.kind = "State" -> db.rows[r.at].to = truth[r.at]
                        [] r.kind = "StateReason" -> HasReason(r.at) => db.rows[r.at].reason
                        [] r.kind = "ComponentRead" -> db.lot.id # 0 /\ db.lot.loaded <= r.at
                        [] r.kind = "Raise" -> db.alarm.row
                        [] r.kind = "Ack" -> db.alarm.acked = "Ack"
                        [] r.kind = "Clear" -> db.alarm.cleared = "Clear"
    BY DEF AckedIsDerived
  <2>1. Derived(db, queued[p])  BY DEF DerivedInv, RowsInv, AllDerived
  <2>2. DerivedTypes /\ p \in 1 .. Len(queued)
    BY DEF DerivedInv, DerivedTypes, Txn
  <2>3. queued[p] \in Records  BY <2>2, RecordOf
  <2> QED  BY <2>1, <2>3 DEF Derived, Records
<1> QED  BY <1>1, DerivedIsKept, PTL

\* The tables hold nothing no record said: no state at an instant whose own State never came,
\* no reason over an empty one, no acknowledgement that a clear only implies.
THEOREM NothingInTablesIsInvented == Spec => []NothingIsInvented
<1>1. DerivedInv => NothingIsInvented
  <2> SUFFICES ASSUME DerivedInv  PROVE NothingIsInvented
    OBVIOUS
  <2>1. queued \in Seq(Records)  BY DEF DerivedInv, DerivedTypes
  <2>2. ASSUME NEW k, NEW i, WasSaid(k, i)
        PROVE  [kind |-> k, at |-> i] \in ToSet(queued)
    <3>1. PICK p \in 1 .. Len(queued) : queued[p].kind = k /\ queued[p].at = i
      BY <2>2 DEF WasSaid
    <3>2. queued[p] \in Records  BY <2>1
    <3>3. queued[p] = [kind |-> k, at |-> i]  BY <3>1, <3>2 DEF Records
    <3> QED  BY <2>1, <3>3 DEF ToSet
  <2> QED  BY <2>2 DEF DerivedInv, RowsInv, Said, NothingIsInvented
<1> QED  BY <1>1, DerivedIsKept, PTL

\* No rollback and no restart leaves the cache naming a lot that is not in its table.
THEOREM CachedIdsAreCommitted == Spec => []CachedIdIsCommitted
<1>1. DerivedInv => CachedIdIsCommitted
  BY DEF DerivedInv, IdInv, CachedIdIsCommitted
<1> QED  BY <1>1, DerivedIsKept, PTL

=============================================================================
