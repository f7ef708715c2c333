------------------------------ MODULE AgentProofs ------------------------------
(***************************************************************************)
(* What holds of Agent for every set of questions, tokens, sessions,       *)
(* replies, documents and budgets: what a stream names first keeps         *)
(* addressing its exchange, and a run is given up on failures in a row and *)
(* on nothing else.                                                        *)
(***************************************************************************)
EXTENDS Agent, FiniteSetTheorems, SequenceTheorems, TLAPS

-----------------------------------------------------------------------------
(* The tables.                                                               *)

Steps == {"idle", "refused", "remembering", "asking", "inserting", "shown", "failed"} \cup Streaming
Ids == SessionIds \cup DOMAIN OpenBefore

TablesType ==
  /\ at \in [Asks -> Steps]
  /\ exchange \in [Asks -> [session : Ids \cup {"none"}, seq : Nat]]
  /\ number \in [Asks -> Nat]
  /\ run = [a \in Asks |-> run[a]]
  /\ DOMAIN sessions \subseteq Ids

\* A session's rows are numbered from 1 without a gap, and no number is used twice.
MessagesInv ==
  /\ \A m, n \in messages : m.session = n.session /\ m.seq = n.seq => m = n
  /\ \A m \in messages : m.session \in DOMAIN sessions
  /\ \A s \in DOMAIN sessions : \E n \in Nat : SeqsOf(s) = 1 .. n

UserRow(a) == [session |-> exchange[a].session, seq |-> exchange[a].seq, role |-> "user", ask |-> a]

\* What a question knows of its exchange; a number it computed may be taken by now, but every
\* smaller one is.
ExchangeInv ==
  \A a \in Asks :
    /\ at[a] \in {"idle", "refused"} => exchange[a] = NoExchange
    /\ at[a] \in {"remembering", "asking", "inserting"} => exchange[a].seq = 0
    /\ at[a] \notin {"idle", "refused", "remembering"} => exchange[a].session \in DOMAIN sessions
    /\ at[a] \in Streaming \cup {"shown"} => exchange[a].seq # 0
    /\ exchange[a].seq # 0 => UserRow(a) \in messages
    /\ at[a] \in {"inserting", "committing"} =>
         number[a] # 0 /\ 1 .. (number[a] - 1) \subseteq SeqsOf(exchange[a].session)

TraceRow(a) == [session |-> exchange[a].session, seq |-> exchange[a].seq, ask |-> a,
                calls |-> run[a].calls, sops |-> Loaded(a)]

\* A trace hangs off its own question's row and is that run's.
TracesInv ==
  /\ \A t \in traces :
       /\ t.ask \in Asks /\ at[t.ask] \in {"stored", "shown", "failed"}
       /\ t.seq # 0 /\ t.session = exchange[t.ask].session /\ t.seq = exchange[t.ask].seq
       /\ at[t.ask] \in {"stored", "shown"} => t = TraceRow(t.ask)
  /\ \A a \in Asks : at[a] \in {"stored", "shown"} => TraceRow(a) \in traces

FeedbackInv == \A f \in feedback : f.session \in DOMAIN sessions /\ f.seq \in SeqsOf(f.session)

AddressInv == TablesType /\ MessagesInv /\ ExchangeInv /\ TracesInv /\ FeedbackInv

-----------------------------------------------------------------------------
(* The number an INSERT computes.                                            *)

LEMMA GreatestOfInterval ==
  ASSUME NEW n \in Nat PROVE Max({0} \cup 1 .. n) = n
<1> DEFINE S == {0} \cup 1 .. n
<1>1. n \in S /\ \A y \in S : n >= y  OBVIOUS
<1>2. \A x \in S : (\A y \in S : x >= y) => x = n  OBVIOUS
<1> QED BY <1>1, <1>2 DEF Max

\* COALESCE(MAX(seq), 0) + 1 is the first free number, and all below it are taken.
LEMMA NextSeqIsFree ==
  ASSUME AddressInv, NEW s \in DOMAIN sessions
  PROVE  /\ NextSeq(s) \in Nat /\ NextSeq(s) # 0
         /\ 1 .. (NextSeq(s) - 1) \subseteq SeqsOf(s)
<1>1. PICK n \in Nat : SeqsOf(s) = 1 .. n  BY DEF AddressInv, MessagesInv
<1>2. NextSeq(s) = n + 1  BY <1>1, GreatestOfInterval DEF NextSeq
<1> QED BY <1>1, <1>2

\* A row under a number nobody took in the meantime leaves the table in order.
LEMMA RowKeepsTheTable ==
  ASSUME AddressInv, NEW s \in DOMAIN sessions, NEW k \in Nat \ {0}, NEW role, NEW a,
         1 .. (k - 1) \subseteq SeqsOf(s), k \notin SeqsOf(s), UNCHANGED sessions,
         messages' = messages \cup {[session |-> s, seq |-> k, role |-> role, ask |-> a]}
  PROVE  /\ MessagesInv'
         /\ \A r : SeqsOf(r) \subseteq SeqsOf(r)'
<1> DEFINE row == [session |-> s, seq |-> k, role |-> role, ask |-> a]
<1>0. row.session = s /\ row.seq = k  OBVIOUS
<1> HIDE DEF row
<1>1. messages' = messages \cup {row}  BY DEF row
<1>2. \A m \in messages : ~(m.session = s /\ m.seq = k)  BY DEF SeqsOf
<1>3. \A m, n \in messages' : m.session = n.session /\ m.seq = n.seq => m = n
  BY <1>0, <1>1, <1>2 DEF AddressInv, MessagesInv
<1>4. \A m \in messages' : m.session \in DOMAIN sessions'
  BY <1>0, <1>1 DEF AddressInv, MessagesInv
<1>5. SeqsOf(s)' = SeqsOf(s) \cup {k}  BY <1>0, <1>1 DEF SeqsOf
<1>6. \A r : r # s => SeqsOf(r)' = SeqsOf(r)  BY <1>0, <1>1 DEF SeqsOf
<1>7. ASSUME NEW r \in DOMAIN sessions PROVE \E n \in Nat : SeqsOf(r)' = 1 .. n
  <2>1. PICK n \in Nat : SeqsOf(r) = 1 .. n  BY DEF AddressInv, MessagesInv
  <2>2. CASE r # s  BY <2>1, <2>2, <1>6
  <2>3. CASE r = s
    <3>1. k = n + 1  BY <2>1, <2>3
    <3>2. SeqsOf(r)' = 1 .. (n + 1)  BY <3>1, <2>1, <2>3, <1>5
    <3> QED BY <3>2
  <2> QED BY <2>2, <2>3
<1> QED BY <1>3, <1>4, <1>5, <1>6, <1>7 DEF MessagesInv

-----------------------------------------------------------------------------
(* The steps.                                                                *)

LEMMA InitAddress == Init => AddressInv
<1> SUFFICES ASSUME Init PROVE AddressInv  OBVIOUS
<1>1. TablesType  BY DEF Init, TablesType, Steps, Ids, NoExchange
<1>2. MessagesInv
  <2>1. \A s : SeqsOf(s) = 1 .. 0  BY DEF Init, SeqsOf
  <2> QED BY <2>1 DEF Init, MessagesInv
<1>3. ExchangeInv  BY DEF Init, ExchangeInv, Streaming, NoExchange
<1>4. TracesInv /\ FeedbackInv  BY DEF Init, TracesInv, FeedbackInv
<1> QED BY <1>1, <1>2, <1>3, <1>4 DEF AddressInv

\* A step of the pipeline: it goes from stage to stage, or breaks, over its own run and
\* answer only.
LEMMA StageKeepsAddress ==
  ASSUME AddressInv, NEW a \in Asks, UNCHANGED <<tables, exchange, number, AskedBy>>,
         at[a] \in Streaming, NEW there,
         at' = [at EXCEPT ![a] = there],
         \/ there = "failed"
         \/ at[a] # "stored" /\ there \in Streaming \ {"committing", "stored"},
         run' = [b \in Asks |-> run'[b]], \A b \in Asks \ {a} : run'[b] = run[b]
  PROVE  AddressInv'
<1> USE DEF AddressInv, tables
<1>1. TablesType'  BY DEF TablesType, Steps, Streaming
<1>2. MessagesInv'  BY DEF MessagesInv, SeqsOf
<1>3. at'[a] = there /\ \A b \in Asks \ {a} : at'[b] = at[b]  BY DEF TablesType
<1>4. ExchangeInv'
  <2> SUFFICES ASSUME NEW b \in Asks PROVE ExchangeInv!(b)'  BY DEF ExchangeInv
  <2>1. UserRow(b)' = UserRow(b) /\ SeqsOf(exchange[b].session)' = SeqsOf(exchange[b].session)
    BY DEF UserRow, SeqsOf
  <2>2. CASE b = a  BY <2>1, <2>2, <1>3 DEF ExchangeInv, Streaming
  <2>3. CASE b # a  BY <2>1, <2>3, <1>3 DEF ExchangeInv
  <2> QED BY <2>2, <2>3
<1>5. TracesInv'
  <2>1. \A b \in Asks \ {a} : TraceRow(b)' = TraceRow(b)  BY DEF TraceRow, Loaded
  <2>2. \A t \in traces : t.ask = a => there = "failed"
    BY DEF TracesInv, Streaming
  <2>3. there \notin {"stored", "shown"}  BY DEF Streaming
  <2> QED BY <2>1, <2>2, <2>3, <1>3 DEF TracesInv
<1>6. FeedbackInv'  BY DEF FeedbackInv, SeqsOf
<1> QED BY <1>1, <1>2, <1>4, <1>5, <1>6

LEMMA RefuseOK == ASSUME AddressInv, NEW a \in Asks, Refuse(a) PROVE AddressInv'
<1> USE DEF AddressInv, Refuse, From, Keeps, tables, config
<1>1. TablesType'  BY DEF TablesType, Steps
<1>2. MessagesInv' /\ FeedbackInv'  BY DEF MessagesInv, FeedbackInv, SeqsOf
<1>3. at'[a] = "refused" /\ \A b \in Asks \ {a} : at'[b] = at[b]  BY DEF TablesType
<1>4. ExchangeInv'
  <2> SUFFICES ASSUME NEW b \in Asks PROVE ExchangeInv!(b)'  BY DEF ExchangeInv
  <2>1. UserRow(b)' = UserRow(b) /\ SeqsOf(exchange[b].session)' = SeqsOf(exchange[b].session)
    BY DEF UserRow, SeqsOf
  <2>2. CASE b = a  BY <2>1, <2>2, <1>3 DEF ExchangeInv, Streaming, NoExchange
  <2>3. CASE b # a  BY <2>1, <2>3, <1>3 DEF ExchangeInv
  <2> QED BY <2>2, <2>3
<1>5. TracesInv'
  <2>1. \A b \in Asks : TraceRow(b)' = TraceRow(b)  BY DEF TraceRow, Loaded
  <2> QED BY <2>1, <1>3 DEF TracesInv
<1> QED BY <1>1, <1>2, <1>4, <1>5

\* A client names a session.
LEMMA MayAskOK == ASSUME AddressInv, NEW a \in Asks, MayAsk(a) PROVE AddressInv'
<1> USE DEF AddressInv
<1>1. /\ at[a] = "idle" /\ at' = [at EXCEPT ![a] = "remembering"]
      /\ UNCHANGED <<sessions, messages, traces, feedback, number, run, AskedBy>>
  BY DEF MayAsk, From, tables, config
<1>2. at'[a] = "remembering" /\ \A b \in Asks \ {a} : at'[b] = at[b]  BY <1>1 DEF TablesType
<1>3. exchange[a] = NoExchange  BY <1>1 DEF ExchangeInv
<1>4. PICK s \in Ids : exchange' = [exchange EXCEPT ![a].session = s]  BY DEF MayAsk, Ids
<1>5. /\ exchange' \in [Asks -> [session : Ids \cup {"none"}, seq : Nat]]
      /\ exchange'[a].seq = 0 /\ \A b \in Asks \ {a} : exchange'[b] = exchange[b]
  BY <1>3, <1>4 DEF TablesType, NoExchange
<1>6. TablesType'  BY <1>1, <1>5 DEF TablesType, Steps
<1>7. \A r : SeqsOf(r)' = SeqsOf(r)  BY <1>1 DEF SeqsOf
<1>8. MessagesInv' /\ FeedbackInv'  BY <1>1, <1>7 DEF MessagesInv, FeedbackInv
<1>9. ExchangeInv'
  <2> SUFFICES ASSUME NEW b \in Asks PROVE ExchangeInv!(b)'  BY DEF ExchangeInv
  <2>1. CASE b = a  BY <2>1, <1>2, <1>5 DEF Streaming
  <2>2. CASE b # a
    <3>1. UserRow(b)' = UserRow(b)  BY <2>2, <1>5 DEF UserRow
    <3> QED BY <2>2, <3>1, <1>1, <1>2, <1>5, <1>7 DEF ExchangeInv
  <2> QED BY <2>1, <2>2
<1>10. TracesInv'
  <2>1. \A b \in Asks \ {a} : TraceRow(b)' = TraceRow(b)  BY <1>1, <1>5 DEF TraceRow, Loaded
  <2>2. \A t \in traces : t.ask # a  BY <1>1 DEF TracesInv
  <2> QED BY <2>1, <2>2, <1>1, <1>2, <1>5 DEF TracesInv
<1> QED BY <1>6, <1>8, <1>9, <1>10

\* What the insert leaves: the session is there, and no session changes hands.
LEMMA Remembered ==
  ASSUME AddressInv, NEW a \in Asks, Remember(a)
  PROVE  /\ at[a] \in {"idle", "remembering"} /\ at' = [at EXCEPT ![a] = "asking"]
         /\ at'[a] = "asking" /\ \A b \in Asks \ {a} : at'[b] = at[b]
         /\ UNCHANGED <<messages, traces, feedback, run, AskedBy, number>>
         /\ exchange' \in [Asks -> [session : Ids \cup {"none"}, seq : Nat]]
         /\ exchange'[a].seq = 0 /\ \A b \in Asks \ {a} : exchange'[b] = exchange[b]
         /\ at[a] = "remembering" => exchange'[a].session = exchange[a].session
         /\ at[a] = "idle" => exchange'[a].session \notin DOMAIN sessions
         /\ DOMAIN sessions' = DOMAIN sessions \cup {exchange'[a].session}
         /\ DOMAIN sessions' \subseteq Ids
         /\ \A r \in DOMAIN sessions : sessions'[r] = sessions[r]
         /\ exchange'[a].session \notin DOMAIN sessions => sessions'[exchange'[a].session] = AskedBy[a]
<1>1. PICK s \in SessionIds :
        /\ \/ From(a, "remembering", "asking") /\ s = exchange[a].session
           \/ From(a, "idle", "asking") /\ s \in Fresh
        /\ exchange' = [exchange EXCEPT ![a].session = s]
        /\ sessions' = [x \in DOMAIN sessions \cup {s} |->
                          IF x \in DOMAIN sessions THEN sessions[x] ELSE AskedBy[a]]
  BY DEF Remember
<1>2. UNCHANGED <<messages, traces, feedback, run, AskedBy, number>>  BY DEF Remember, config
<1>3. at[a] \in {"idle", "remembering"} /\ at' = [at EXCEPT ![a] = "asking"]  BY <1>1 DEF From
<1>4. at'[a] = "asking" /\ \A b \in Asks \ {a} : at'[b] = at[b]
  BY <1>3 DEF AddressInv, TablesType
<1>5. exchange[a].seq = 0  BY <1>3 DEF AddressInv, ExchangeInv, NoExchange
<1>6. /\ exchange' \in [Asks -> [session : Ids \cup {"none"}, seq : Nat]]
      /\ exchange'[a].session = s /\ exchange'[a].seq = 0
      /\ \A b \in Asks \ {a} : exchange'[b] = exchange[b]
  BY <1>1, <1>5 DEF AddressInv, TablesType, Ids
<1>7. at[a] = "remembering" => s = exchange[a].session  BY <1>1 DEF From
<1>8. at[a] = "idle" => s \notin DOMAIN sessions  BY <1>1 DEF From, Fresh
<1>9. DOMAIN sessions' \subseteq Ids  BY <1>1 DEF AddressInv, TablesType, Ids
<1> QED BY <1>1, <1>2, <1>3, <1>4, <1>6, <1>7, <1>8, <1>9

LEMMA RememberOK == ASSUME AddressInv, NEW a \in Asks, Remember(a) PROVE AddressInv'
<1> USE DEF AddressInv
<1>1. /\ at[a] \in {"idle", "remembering"} /\ at' = [at EXCEPT ![a] = "asking"]
      /\ at'[a] = "asking" /\ \A b \in Asks \ {a} : at'[b] = at[b]
      /\ UNCHANGED <<messages, traces, feedback, run, AskedBy, number>>
  BY Remembered
<1>2. /\ exchange' \in [Asks -> [session : Ids \cup {"none"}, seq : Nat]]
      /\ exchange'[a].seq = 0 /\ \A b \in Asks \ {a} : exchange'[b] = exchange[b]
      /\ DOMAIN sessions' = DOMAIN sessions \cup {exchange'[a].session}
      /\ DOMAIN sessions' \subseteq Ids
  BY Remembered
<1>3. TablesType'  BY <1>1, <1>2 DEF TablesType, Steps
<1>4. \A r : SeqsOf(r)' = SeqsOf(r)  BY <1>1 DEF SeqsOf
<1>5. MessagesInv'
  <2>1. \A r : r \notin DOMAIN sessions => SeqsOf(r) = 1 .. 0  BY DEF SeqsOf, MessagesInv
  <2> QED BY <1>1, <1>2, <1>4, <2>1 DEF MessagesInv
<1>6. ExchangeInv'
  <2> SUFFICES ASSUME NEW b \in Asks PROVE ExchangeInv!(b)'  BY DEF ExchangeInv
  <2>1. CASE b = a  BY <2>1, <1>1, <1>2 DEF Streaming
  <2>2. CASE b # a
    <3>1. UserRow(b)' = UserRow(b)  BY <2>2, <1>2 DEF UserRow
    <3> QED BY <2>2, <3>1, <1>1, <1>2, <1>4 DEF ExchangeInv
  <2> QED BY <2>1, <2>2
<1>7. TracesInv'
  <2>1. \A b \in Asks \ {a} : TraceRow(b)' = TraceRow(b)  BY <1>1, <1>2 DEF TraceRow, Loaded
  <2>2. \A t \in traces : t.ask # a  BY <1>1 DEF TracesInv
  <2> QED BY <2>1, <2>2, <1>1, <1>2 DEF TracesInv
<1>8. FeedbackInv'  BY <1>1, <1>2, <1>4 DEF FeedbackInv
<1> QED BY <1>3, <1>5, <1>6, <1>7, <1>8

LEMMA SnapshotOK ==
  ASSUME AddressInv, NEW a \in Asks, NEW here, NEW there, Snapshot(a, here, there),
         \/ here = "asking" /\ there = "inserting"
         \/ here = "storing" /\ there = "committing"
  PROVE  AddressInv'
<1> USE DEF AddressInv
<1>1. /\ at[a] = here /\ at' = [at EXCEPT ![a] = there]
      /\ number' = [number EXCEPT ![a] = NextSeq(exchange[a].session)]
      /\ UNCHANGED <<sessions, messages, traces, feedback, exchange, run, AskedBy>>
  BY DEF Snapshot, From, tables, config
<1>2. at'[a] = there /\ \A b \in Asks \ {a} : at'[b] = at[b]  BY <1>1 DEF TablesType
<1>3. exchange[a].session \in DOMAIN sessions  BY <1>1 DEF ExchangeInv
<1>4. /\ number'[a] \in Nat /\ number'[a] # 0
      /\ 1 .. (number'[a] - 1) \subseteq SeqsOf(exchange[a].session)
      /\ \A b \in Asks \ {a} : number'[b] = number[b]
  BY <1>1, <1>3, NextSeqIsFree DEF TablesType
<1>5. TablesType'  BY <1>1, <1>4 DEF TablesType, Steps, Streaming
<1>6. \A r : SeqsOf(r)' = SeqsOf(r)  BY <1>1 DEF SeqsOf
<1>7. MessagesInv' /\ FeedbackInv'  BY <1>1, <1>6 DEF MessagesInv, FeedbackInv
<1>8. ExchangeInv'
  <2> SUFFICES ASSUME NEW b \in Asks PROVE ExchangeInv!(b)'  BY DEF ExchangeInv
  <2>1. UserRow(b)' = UserRow(b)  BY <1>1 DEF UserRow
  <2>2. CASE b = a  BY <2>1, <2>2, <1>1, <1>2, <1>4, <1>6 DEF ExchangeInv, Streaming
  <2>3. CASE b # a  BY <2>1, <2>3, <1>1, <1>2, <1>4, <1>6 DEF ExchangeInv
  <2> QED BY <2>2, <2>3
<1>9. TracesInv'
  <2>1. \A b \in Asks : TraceRow(b)' = TraceRow(b)  BY <1>1 DEF TraceRow, Loaded
  <2>2. \A t \in traces : t.ask # a  BY <1>1 DEF TracesInv
  <2> QED BY <2>1, <2>2, <1>1, <1>2 DEF TracesInv
<1> QED BY <1>5, <1>7, <1>8, <1>9

\* A request that fails leaves everything as it was.
LEMMA RefusedInsertOK ==
  ASSUME AddressInv, NEW a \in Asks, UNCHANGED <<tables, exchange, number, run, AskedBy>>,
         at[a] \in {"inserting", "committing"}, at' = [at EXCEPT ![a] = "failed"]
  PROVE  AddressInv'
<1> USE DEF AddressInv, tables
<1>1. TablesType'  BY DEF TablesType, Steps
<1>2. MessagesInv' /\ FeedbackInv'  BY DEF MessagesInv, FeedbackInv, SeqsOf
<1>3. at'[a] = "failed" /\ \A b \in Asks \ {a} : at'[b] = at[b]  BY DEF TablesType
<1>4. ExchangeInv'
  <2> SUFFICES ASSUME NEW b \in Asks PROVE ExchangeInv!(b)'  BY DEF ExchangeInv
  <2>1. UserRow(b)' = UserRow(b) /\ SeqsOf(exchange[b].session)' = SeqsOf(exchange[b].session)
    BY DEF UserRow, SeqsOf
  <2>2. CASE b = a  BY <2>1, <2>2, <1>3 DEF ExchangeInv, Streaming
  <2>3. CASE b # a  BY <2>1, <2>3, <1>3 DEF ExchangeInv
  <2> QED BY <2>2, <2>3
<1>5. TracesInv'
  <2>1. \A b \in Asks : TraceRow(b)' = TraceRow(b)  BY DEF TraceRow, Loaded
  <2> QED BY <2>1, <1>3 DEF TracesInv
<1> QED BY <1>1, <1>2, <1>4, <1>5

\* The number is free or the row is refused; a row that gets in is the question's own.
LEMMA AskedInsertsOK == ASSUME AddressInv, NEW a \in Asks, AskedInserts(a) PROVE AddressInv'
<1> USE DEF AddressInv
<1> DEFINE s == exchange[a].session
<1>1. at[a] = "inserting" /\ UNCHANGED <<sessions, traces, feedback, number, run, AskedBy>>
  BY DEF AskedInserts, From, config
<1>2. CASE number[a] \in SeqsOf(s)
  BY <1>1, <1>2, RefusedInsertOK DEF AskedInserts, From, tables
<1>3. CASE number[a] \notin SeqsOf(s)
  <2>1. /\ at' = [at EXCEPT ![a] = "classify"]
        /\ messages' = messages \cup {[session |-> s, seq |-> number[a], role |-> "user", ask |-> a]}
        /\ exchange' = [exchange EXCEPT ![a].seq = number[a]]
    BY <1>3 DEF AskedInserts, From
  <2>2. /\ s \in DOMAIN sessions /\ number[a] \in Nat \ {0}
        /\ 1 .. (number[a] - 1) \subseteq SeqsOf(s)
    BY <1>1 DEF ExchangeInv, TablesType
  <2>3. MessagesInv' /\ \A r : SeqsOf(r) \subseteq SeqsOf(r)'
    BY <2>1, <2>2, <1>1, <1>3, RowKeepsTheTable
  <2>4. at'[a] = "classify" /\ \A b \in Asks \ {a} : at'[b] = at[b]  BY <2>1 DEF TablesType
  <2>5. /\ exchange' \in [Asks -> [session : Ids \cup {"none"}, seq : Nat]]
        /\ exchange'[a].session = s /\ exchange'[a].seq = number[a]
        /\ \A b \in Asks \ {a} : exchange'[b] = exchange[b]
    BY <2>1, <2>2 DEF TablesType
  <2>6. TablesType'  BY <1>1, <2>1, <2>5 DEF TablesType, Steps, Streaming
  <2>7. ExchangeInv'
    <3> SUFFICES ASSUME NEW b \in Asks PROVE ExchangeInv!(b)'  BY DEF ExchangeInv
    <3>1. CASE b = a
      <4>1. UserRow(b)' \in messages'  BY <3>1, <2>1, <2>5 DEF UserRow
      <4> QED BY <3>1, <4>1, <1>1, <2>2, <2>4, <2>5 DEF ExchangeInv, Streaming
    <3>2. CASE b # a
      <4>1. UserRow(b)' = UserRow(b)  BY <3>2, <2>5 DEF UserRow
      <4> QED BY <3>2, <4>1, <1>1, <2>1, <2>3, <2>4, <2>5 DEF ExchangeInv
    <3> QED BY <3>1, <3>2
  <2>8. TracesInv'
    <3>1. \A b \in Asks \ {a} : TraceRow(b)' = TraceRow(b)  BY <1>1, <2>5 DEF TraceRow, Loaded
    <3>2. \A t \in traces : t.ask # a  BY <1>1 DEF TracesInv
    <3> QED BY <3>1, <3>2, <1>1, <2>4, <2>5 DEF TracesInv
  <2>9. FeedbackInv'  BY <1>1, <2>3 DEF FeedbackInv
  <2> QED BY <2>3, <2>6, <2>7, <2>8, <2>9
<1> QED BY <1>2, <1>3

\* The answer's row and the trace of this run, or neither.
LEMMA AnsweredCommitsOK == ASSUME AddressInv, NEW a \in Asks, AnsweredCommits(a) PROVE AddressInv'
<1> USE DEF AddressInv
<1> DEFINE s == exchange[a].session
<1>1. at[a] = "committing" /\ UNCHANGED <<sessions, feedback, exchange, number, run, AskedBy>>
  BY DEF AnsweredCommits, From, config
<1>2. CASE number[a] \in SeqsOf(s)
  BY <1>1, <1>2, RefusedInsertOK DEF AnsweredCommits, From, tables
<1>3. CASE number[a] \notin SeqsOf(s)
  <2>1. /\ at' = [at EXCEPT ![a] = "stored"]
        /\ messages' = messages \cup {[session |-> s, seq |-> number[a], role |-> "assistant", ask |-> a]}
        /\ traces' = traces \cup {TraceRow(a)}
    BY <1>3 DEF AnsweredCommits, From, TraceAddress, TraceRow
  <2>2. /\ s \in DOMAIN sessions /\ number[a] \in Nat \ {0}
        /\ 1 .. (number[a] - 1) \subseteq SeqsOf(s)
    BY <1>1 DEF ExchangeInv, TablesType, Streaming
  <2>3. MessagesInv' /\ \A r : SeqsOf(r) \subseteq SeqsOf(r)'
    BY <2>1, <2>2, <1>1, <1>3, RowKeepsTheTable
  <2>4. at'[a] = "stored" /\ \A b \in Asks \ {a} : at'[b] = at[b]  BY <2>1 DEF TablesType
  <2>5. TablesType'  BY <1>1, <2>1 DEF TablesType, Steps, Streaming
  <2>6. ExchangeInv'
    <3> SUFFICES ASSUME NEW b \in Asks PROVE ExchangeInv!(b)'  BY DEF ExchangeInv
    <3>1. UserRow(b)' = UserRow(b)  BY <1>1 DEF UserRow
    <3>2. CASE b = a  BY <3>1, <3>2, <1>1, <2>1, <2>4 DEF ExchangeInv, Streaming
    <3>3. CASE b # a  BY <3>1, <3>3, <1>1, <2>1, <2>3, <2>4 DEF ExchangeInv
    <3> QED BY <3>2, <3>3
  <2>7. TracesInv'
    <3>1. \A b \in Asks : TraceRow(b)' = TraceRow(b)  BY <1>1 DEF TraceRow, Loaded
    <3>2. /\ TraceRow(a).ask = a /\ TraceRow(a).session = exchange[a].session
          /\ TraceRow(a).seq = exchange[a].seq /\ exchange[a].seq # 0
      BY <1>1 DEF TraceRow, ExchangeInv, Streaming
    <3>3. \A t \in traces : t.ask # a  BY <1>1 DEF TracesInv
    <3> QED BY <3>1, <3>2, <3>3, <1>1, <2>1, <2>4 DEF TracesInv
  <2>8. FeedbackInv'  BY <1>1, <2>3 DEF FeedbackInv
  <2> QED BY <2>3, <2>5, <2>6, <2>7, <2>8
<1> QED BY <1>2, <1>3

LEMMA SendAnswerOK == ASSUME AddressInv, NEW a \in Asks, SendAnswer(a) PROVE AddressInv'
<1> USE DEF AddressInv
<1>1. /\ at[a] = "stored" /\ at' = [at EXCEPT ![a] = "shown"]
      /\ UNCHANGED <<sessions, messages, traces, feedback, exchange, number, run, AskedBy>>
  BY DEF SendAnswer, From, Keeps, tables, config
<1>2. at'[a] = "shown" /\ \A b \in Asks \ {a} : at'[b] = at[b]  BY <1>1 DEF TablesType
<1>3. TablesType'  BY <1>1 DEF TablesType, Steps
<1>4. \A r : SeqsOf(r)' = SeqsOf(r)  BY <1>1 DEF SeqsOf
<1>5. MessagesInv' /\ FeedbackInv'  BY <1>1, <1>4 DEF MessagesInv, FeedbackInv
<1>6. ExchangeInv'
  <2> SUFFICES ASSUME NEW b \in Asks PROVE ExchangeInv!(b)'  BY DEF ExchangeInv
  <2>1. UserRow(b)' = UserRow(b)  BY <1>1 DEF UserRow
  <2>2. CASE b = a  BY <2>1, <2>2, <1>1, <1>2, <1>4 DEF ExchangeInv, Streaming
  <2>3. CASE b # a  BY <2>1, <2>3, <1>1, <1>2, <1>4 DEF ExchangeInv
  <2> QED BY <2>2, <2>3
<1>7. TracesInv'
  <2>1. \A b \in Asks : TraceRow(b)' = TraceRow(b)  BY <1>1 DEF TraceRow, Loaded
  <2> QED BY <2>1, <1>1, <1>2 DEF TracesInv
<1> QED BY <1>3, <1>5, <1>6, <1>7

\* Feedback is on the address that was asked for.
LEMMA GiveFeedbackOK == ASSUME AddressInv, NEW a \in Asks, GiveFeedback(a) PROVE AddressInv'
<1> USE DEF AddressInv
<1>1. UNCHANGED <<sessions, messages, traces, at, exchange, number, run, AskedBy>>
  BY DEF GiveFeedback, config
<1>2. PICK u, w : /\ Owned(AskedBy[a], exchange[a].session, exchange[a].seq)
                  /\ feedback' \subseteq feedback \cup
                       {[session |-> exchange[a].session, seq |-> exchange[a].seq,
                         useful |-> u, matched |-> w]}
  BY DEF GiveFeedback
<1>3. \A r : SeqsOf(r)' = SeqsOf(r)  BY <1>1 DEF SeqsOf
<1>4. \A b \in Asks : TraceRow(b)' = TraceRow(b) /\ UserRow(b)' = UserRow(b)
  BY <1>1 DEF TraceRow, Loaded, UserRow
<1>5. FeedbackInv'  BY <1>1, <1>2, <1>3 DEF FeedbackInv, Owned
<1>6. TablesType' /\ MessagesInv' /\ TracesInv'
  BY <1>1, <1>3, <1>4 DEF TablesType, MessagesInv, TracesInv
<1>7. ExchangeInv'  BY <1>1, <1>3, <1>4 DEF ExchangeInv
<1> QED BY <1>5, <1>6, <1>7

-----------------------------------------------------------------------------
(* The pipeline.                                                             *)

\* A stage of the pipeline, from its first await to the answer that is to be stored.
Works(a) ==
  \/ Classify(a) \/ AnswerWithoutTools(a) \/ ReadWindow(a) \/ Covered(a) \/ NoData(a)
  \/ Turn(a) \/ CallTool(a) \/ Exhausted(a) \/ Retry(a) \/ Deliver(a)

\* What every stage leaves alone.
LEMMA WorksOnItsOwnRun ==
  ASSUME TablesType, NEW a \in Asks, Works(a)
  PROVE  /\ UNCHANGED <<tables, exchange, number, AskedBy>>
         /\ at[a] \in Streaming \ {"stored"}
         /\ \E there \in Streaming \ {"committing", "stored"} : at' = [at EXCEPT ![a] = there]
         /\ run' = [b \in Asks |-> run'[b]] /\ \A b \in Asks \ {a} : run'[b] = run[b]
<1> USE DEF TablesType, Streaming, From, Keeps, config
<1>1. CASE Classify(a)  BY <1>1 DEF Classify
<1>2. CASE AnswerWithoutTools(a)  BY <1>2 DEF AnswerWithoutTools, Leave
<1>3. CASE ReadWindow(a)  BY <1>3 DEF ReadWindow
<1>4. CASE Covered(a)  BY <1>4 DEF Covered
<1>5. CASE NoData(a)  BY <1>5 DEF NoData, Leave
<1>6. CASE Turn(a)
  <2>1. PICK p, q : Says(a, p, q, "loop") \/ Says(a, p, q, "tools") \/ Says(a, p, q, "verify")
    <3> HIDE DEF TablesType, Streaming, From, Keeps, config
    <3> QED BY <1>6, Zenon DEF Turn
  <2>2. CASE Says(a, p, q, "loop")  BY <1>6, <2>2 DEF Turn, Says
  <2>3. CASE Says(a, p, q, "tools")  BY <1>6, <2>3 DEF Turn, Says
  <2>4. CASE Says(a, p, q, "verify")  BY <1>6, <2>4 DEF Turn, Says
  <2> QED BY <2>1, <2>2, <2>3, <2>4
<1>7. CASE CallTool(a)  BY <1>7 DEF CallTool
<1>8. CASE Exhausted(a)  BY <1>8 DEF Exhausted, Leave
<1>9. CASE Retry(a)  BY <1>9 DEF Retry
<1>10. CASE Deliver(a)  BY <1>10 DEF Deliver, Leave
<1> QED BY <1>1, <1>2, <1>3, <1>4, <1>5, <1>6, <1>7, <1>8, <1>9, <1>10 DEF Works

LEMMA BreakKeepsItsOwnRun ==
  ASSUME TablesType, NEW a \in Asks, Break(a)
  PROVE  /\ UNCHANGED <<tables, exchange, number, AskedBy>>
         /\ at[a] \in Streaming /\ at' = [at EXCEPT ![a] = "failed"]
         /\ run' = [b \in Asks |-> run'[b]] /\ \A b \in Asks \ {a} : run'[b] = run[b]
BY DEF Break, TablesType, config

LEMMA NextAddress == AddressInv /\ [Next]_vars => AddressInv'
<1> SUFFICES ASSUME AddressInv, [Next]_vars PROVE AddressInv'  OBVIOUS
<1>1. CASE UNCHANGED vars
  <2>1. UNCHANGED <<sessions, messages, traces, feedback, at, exchange, number, run, AskedBy>>
    BY <1>1 DEF vars, tables, config
  <2>2. \A r : SeqsOf(r)' = SeqsOf(r)  BY <2>1 DEF SeqsOf
  <2>3. \A b : TraceRow(b)' = TraceRow(b) /\ UserRow(b)' = UserRow(b)
    BY <2>1 DEF TraceRow, Loaded, UserRow
  <2>4. TablesType' /\ MessagesInv' /\ TracesInv' /\ FeedbackInv'
    BY <2>1, <2>2, <2>3 DEF AddressInv, TablesType, MessagesInv, TracesInv, FeedbackInv
  <2>5. ExchangeInv'  BY <2>1, <2>2, <2>3 DEF AddressInv, ExchangeInv
  <2> QED BY <2>4, <2>5 DEF AddressInv
<1>2. CASE Next
  <2>1. PICK a \in Asks : Request(a) \/ Stage(a) \/ Break(a) \/ GiveFeedback(a)
    BY <1>2 DEF Next
  <2>2. CASE Refuse(a)  BY <2>2, RefuseOK
  <2>3. CASE Remember(a)  BY <2>3, RememberOK
  <2>12. CASE MayAsk(a)  BY <2>12, MayAskOK
  <2>4. CASE AskedReads(a)  BY <2>4, SnapshotOK DEF AskedReads
  <2>5. CASE AskedInserts(a)  BY <2>5, AskedInsertsOK
  <2>6. CASE Works(a)
    <3>1. TablesType  BY DEF AddressInv
    <3> QED BY <2>6, <3>1, WorksOnItsOwnRun, StageKeepsAddress
  <2>7. CASE AnsweredReads(a)  BY <2>7, SnapshotOK DEF AnsweredReads
  <2>8. CASE AnsweredCommits(a)  BY <2>8, AnsweredCommitsOK
  <2>9. CASE SendAnswer(a)  BY <2>9, SendAnswerOK
  <2>10. CASE Break(a)
    <3>1. TablesType  BY DEF AddressInv
    <3> QED BY <2>10, <3>1, BreakKeepsItsOwnRun, StageKeepsAddress
  <2>11. CASE GiveFeedback(a)  BY <2>11, GiveFeedbackOK
  <2> QED BY <2>1, <2>2, <2>3, <2>4, <2>5, <2>6, <2>7, <2>8, <2>9, <2>10, <2>11,
          <2>12 DEF Request, Stage, Works
<1> QED BY <1>1, <1>2

-----------------------------------------------------------------------------
(* Whose a session is.                                                       *)

\* The question has named a session, or was given one.
Named(a) == at[a] \notin {"idle", "refused"}

\* A session is its first asker's for good, and only those who asked before it was opened can
\* share one that was not.
OwnersInv ==
  /\ \A s \in DOMAIN OpenBefore : s \in DOMAIN sessions /\ sessions[s] = OpenBefore[s]
  /\ \A s \in DOMAIN sessions \ DOMAIN OpenBefore :
       \E a \in Asks : Named(a) /\ exchange[a].session = s /\ sessions[s] = AskedBy[a]
  /\ \A a \in Asks : Named(a) /\ exchange[a].session \in DOMAIN OpenBefore =>
       OpenBefore[exchange[a].session] = AskedBy[a]
  /\ \A m \in messages :
       m.ask \in Asks /\ Named(m.ask) /\ m.session = exchange[m.ask].session

LEMMA InitOwners == Init => OwnersInv
<1> SUFFICES ASSUME Init PROVE OwnersInv  OBVIOUS
<1>1. messages = {} /\ sessions = OpenBefore /\ \A a \in Asks : ~Named(a)  BY DEF Init, Named
<1> QED BY <1>1 DEF OwnersInv

\* A step that opens no session; a row it adds is its own question's.
LEMMA SameOwners ==
  ASSUME OwnersInv, NEW a \in Asks, UNCHANGED <<sessions, AskedBy>>,
         \A b \in Asks : Named(b)' <=> Named(b),
         \A b \in Asks : exchange'[b].session = exchange[b].session,
         \/ messages' = messages
         \/ /\ Named(a)
            /\ \A m \in messages' : m \in messages \/ (m.ask = a /\ m.session = exchange[a].session)
  PROVE  OwnersInv'
BY DEF OwnersInv

LEMMA MayAskOwners == ASSUME AddressInv, OwnersInv, NEW a \in Asks, MayAsk(a) PROVE OwnersInv'
<1>1. at[a] = "idle" /\ UNCHANGED <<sessions, messages, AskedBy>>
  BY DEF MayAsk, From, tables, config
<1>2. at'[a] = "remembering" /\ \A b \in Asks \ {a} : at'[b] = at[b]
  BY DEF MayAsk, From, AddressInv, TablesType
<1>3. PICK s : /\ s \in DOMAIN sessions => sessions[s] = AskedBy[a]
               /\ exchange' = [exchange EXCEPT ![a].session = s]
  BY DEF MayAsk
<1>4. exchange'[a].session = s /\ \A b \in Asks \ {a} : exchange'[b] = exchange[b]
  BY <1>3 DEF AddressInv, TablesType
<1>5. ~Named(a) /\ Named(a)' /\ \A b \in Asks \ {a} : Named(b)' <=> Named(b)
  BY <1>1, <1>2 DEF Named
<1> QED BY <1>1, <1>3, <1>4, <1>5 DEF OwnersInv

LEMMA RememberOwners == ASSUME AddressInv, OwnersInv, NEW a \in Asks, Remember(a) PROVE OwnersInv'
<1>1. /\ at[a] \in {"idle", "remembering"}
      /\ at'[a] = "asking" /\ \A b \in Asks \ {a} : at'[b] = at[b]
      /\ UNCHANGED <<messages, AskedBy>>
  BY Remembered
<1>2. /\ \A b \in Asks \ {a} : exchange'[b] = exchange[b]
      /\ at[a] = "remembering" => exchange'[a].session = exchange[a].session
      /\ at[a] = "idle" => exchange'[a].session \notin DOMAIN sessions
      /\ DOMAIN sessions' = DOMAIN sessions \cup {exchange'[a].session}
      /\ \A r \in DOMAIN sessions : sessions'[r] = sessions[r]
      /\ exchange'[a].session \notin DOMAIN sessions => sessions'[exchange'[a].session] = AskedBy[a]
  BY Remembered
<1>3. Named(a)' /\ \A b \in Asks \ {a} : Named(b)' <=> Named(b)  BY <1>1 DEF Named
<1>4. at[a] = "remembering" => Named(a)  BY DEF Named
<1>5. at[a] = "idle" => ~Named(a)  BY DEF Named
<1>6. \A s \in DOMAIN OpenBefore : s \in DOMAIN sessions' /\ sessions'[s] = OpenBefore[s]
  BY <1>2 DEF OwnersInv
<1>7. ASSUME NEW s \in DOMAIN sessions' \ DOMAIN OpenBefore
      PROVE  \E b \in Asks : Named(b)' /\ exchange'[b].session = s /\ sessions'[s] = AskedBy'[b]
  <2>1. CASE s \notin DOMAIN sessions  BY <2>1, <1>1, <1>2, <1>3
  <2>2. CASE s \in DOMAIN sessions
    <3>1. PICK b \in Asks : Named(b) /\ exchange[b].session = s /\ sessions[s] = AskedBy[b]
      BY <2>2, <1>7 DEF OwnersInv
    <3>2. Named(b)' /\ exchange'[b].session = s  BY <3>1, <1>1, <1>2, <1>3, <1>5
    <3> QED BY <2>2, <3>1, <3>2, <1>1, <1>2
  <2> QED BY <2>1, <2>2
<1>8. ASSUME NEW b \in Asks, Named(b)', exchange'[b].session \in DOMAIN OpenBefore
      PROVE  OpenBefore[exchange'[b].session] = AskedBy'[b]
  BY <1>8, <1>1, <1>2, <1>3, <1>4 DEF OwnersInv
<1>9. \A m \in messages' :
        m.ask \in Asks /\ Named(m.ask)' /\ m.session = exchange'[m.ask].session
  BY <1>1, <1>2, <1>3, <1>5 DEF OwnersInv
<1> QED BY <1>6, <1>7, <1>8, <1>9 DEF OwnersInv

LEMMA NextOwners == AddressInv /\ OwnersInv /\ [Next]_vars => OwnersInv'
<1> SUFFICES ASSUME AddressInv, OwnersInv, [Next]_vars PROVE OwnersInv'  OBVIOUS
<1>1. CASE UNCHANGED vars  BY <1>1 DEF OwnersInv, Named, vars, tables, config
<1>2. CASE Next
  <2>1. PICK a \in Asks : Request(a) \/ Stage(a) \/ Break(a) \/ GiveFeedback(a)
    BY <1>2 DEF Next
  <2>0. TablesType  BY DEF AddressInv
  <2>2. CASE Refuse(a)
    <3>1. /\ UNCHANGED <<sessions, messages, exchange, AskedBy>>
          /\ at[a] = "idle" /\ at' = [at EXCEPT ![a] = "refused"]
      BY <2>2 DEF Refuse, From, Keeps, tables, config
    <3>2. at'[a] = "refused" /\ \A b \in Asks \ {a} : at'[b] = at[b]  BY <2>0, <3>1 DEF TablesType
    <3>3. \A b \in Asks : Named(b)' <=> Named(b)  BY <3>1, <3>2 DEF Named
    <3> QED BY <3>1, <3>3, SameOwners
  <2>3. CASE MayAsk(a)  BY <2>3, MayAskOwners
  <2>4. CASE Remember(a)  BY <2>4, RememberOwners
  <2>5. CASE AskedReads(a) \/ AnsweredReads(a) \/ SendAnswer(a)
    <3>1. /\ UNCHANGED <<sessions, messages, exchange, AskedBy>>
          /\ at[a] \in {"asking", "storing", "stored"}
          /\ \E there \in {"inserting", "committing", "shown"} : at' = [at EXCEPT ![a] = there]
      BY <2>5 DEF AskedReads, AnsweredReads, SendAnswer, Snapshot, From, Keeps, tables, config
    <3>2. \A b \in Asks : Named(b)' <=> Named(b)  BY <2>0, <3>1 DEF TablesType, Named
    <3> QED BY <3>1, <3>2, SameOwners
  <2>6. CASE AskedInserts(a) \/ AnsweredCommits(a)
    <3>1. /\ UNCHANGED <<sessions, AskedBy>>
          /\ at[a] \in {"inserting", "committing"}
          /\ \E there \in {"failed", "classify", "stored"} : at' = [at EXCEPT ![a] = there]
      BY <2>6 DEF AskedInserts, AnsweredCommits, From, config
    <3>2. \A b \in Asks : exchange'[b].session = exchange[b].session
      BY <2>0, <2>6 DEF AskedInserts, AnsweredCommits, TablesType
    <3>3. \A m \in messages' : m \in messages \/ (m.ask = a /\ m.session = exchange[a].session)
      <4>1. PICK k, role : messages' = messages \/ messages' = messages \cup
              {[session |-> exchange[a].session, seq |-> k, role |-> role, ask |-> a]}
        <5>1. CASE AskedInserts(a)  BY <5>1 DEF AskedInserts
        <5>2. CASE AnsweredCommits(a)  BY <5>2 DEF AnsweredCommits
        <5> QED BY <2>6, <5>1, <5>2
      <4> DEFINE row == [session |-> exchange[a].session, seq |-> k, role |-> role, ask |-> a]
      <4>2. row.ask = a /\ row.session = exchange[a].session  OBVIOUS
      <4>3. messages' = messages \/ messages' = messages \cup {row}  BY <4>1
      <4> HIDE DEF row
      <4> QED BY <4>2, <4>3
    <3>4. \A b \in Asks : Named(b)' <=> Named(b)  BY <2>0, <3>1 DEF TablesType, Named
    <3>5. Named(a)  BY <3>1 DEF Named
    <3> QED BY <3>1, <3>2, <3>3, <3>4, <3>5, SameOwners
  <2>7. CASE Works(a) \/ Break(a)
    <3>1. /\ UNCHANGED <<tables, exchange, AskedBy>> /\ at[a] \in Streaming
          /\ \E there \in Streaming \cup {"failed"} : at' = [at EXCEPT ![a] = there]
      BY <2>0, <2>7, WorksOnItsOwnRun, BreakKeepsItsOwnRun
    <3>2. \A b \in Asks : Named(b)' <=> Named(b)  BY <2>0, <3>1 DEF TablesType, Named, Streaming
    <3> QED BY <3>1, <3>2, SameOwners DEF tables
  <2>8. CASE GiveFeedback(a)
    <3>1. UNCHANGED <<sessions, messages, at, exchange, AskedBy>>  BY <2>8 DEF GiveFeedback, config
    <3>2. \A b \in Asks : Named(b)' <=> Named(b)  BY <3>1 DEF Named
    <3> QED BY <3>1, <3>2, SameOwners
  <2> QED BY <2>1, <2>2, <2>3, <2>4, <2>5, <2>6, <2>7, <2>8 DEF Request, Stage, Works
<1> QED BY <1>1, <1>2

LEMMA AddressIsKept == AddressInv /\ OwnersInv => ExchangeKeepsItsAddress
<1> SUFFICES ASSUME AddressInv, OwnersInv PROVE ExchangeKeepsItsAddress  OBVIOUS
<1> USE DEF AddressInv
<1>1. \A m, n \in messages : m.session = n.session /\ m.seq = n.seq => m = n
  BY DEF MessagesInv
<1>2. ASSUME NEW s \in DOMAIN sessions PROVE SeqsOf(s) = 1 .. Cardinality(SeqsOf(s))
  <2>1. PICK n \in Nat : SeqsOf(s) = 1 .. n  BY DEF MessagesInv
  <2>2. Cardinality(1 .. n) = n  BY FS_Interval
  <2> QED BY <2>1, <2>2
<1>6. ASSUME NEW s \in DOMAIN sessions
      PROVE  IF s \in DOMAIN OpenBefore
               THEN /\ sessions[s] = OpenBefore[s]
                    /\ \A m \in messages : m.session = s => AskedBy[m.ask] = OpenBefore[s]
               ELSE \E a \in Asks : exchange[a].session = s /\ sessions[s] = AskedBy[a]
  BY DEF OwnersInv
<1>3. ASSUME NEW a \in Asks, NEW b \in Asks, exchange[a].seq # 0,
             exchange[a].session = exchange[b].session, exchange[a].seq = exchange[b].seq
      PROVE  a = b
  <2>1. UserRow(a) \in messages /\ UserRow(b) \in messages  BY <1>3 DEF ExchangeInv
  <2>2. UserRow(a) = UserRow(b)  BY <1>1, <1>3, <2>1 DEF UserRow
  <2>3. UserRow(a).ask = a /\ UserRow(b).ask = b  BY DEF UserRow
  <2> QED BY <2>2, <2>3
<1>4. ASSUME NEW a \in Asks
      PROVE  LET s == exchange[a].session  seq == exchange[a].seq IN
             /\ seq > 0 => [session |-> s, seq |-> seq, role |-> "user", ask |-> a] \in messages
             /\ at[a] \in {"stored", "shown"} => \A b \in Asks :
                  TraceOf(AskedBy[b], s, seq) = IF AskedBy[b] = sessions[s] THEN {TraceRow(a)} ELSE {}
             /\ \A t \in traces : t.session = s /\ t.seq = seq /\ seq > 0 => t.ask = a
  <2>1. exchange[a].seq \in Nat  BY DEF TablesType
  <2>2. exchange[a].seq > 0 => UserRow(a) \in messages  BY <2>1 DEF ExchangeInv
  <2>3. \A t \in traces : t.session = exchange[a].session /\ t.seq = exchange[a].seq => t.ask = a
    BY <1>3 DEF TracesInv
  <2>4. ASSUME at[a] \in {"stored", "shown"}, NEW b \in Asks
        PROVE  TraceOf(AskedBy[b], exchange[a].session, exchange[a].seq)
                 = IF AskedBy[b] = sessions[exchange[a].session] THEN {TraceRow(a)} ELSE {}
    <3>1. exchange[a].seq # 0 /\ UserRow(a) \in messages  BY <2>4 DEF ExchangeInv, Streaming
    <3>2. exchange[a].seq \in SeqsOf(exchange[a].session)  BY <3>1 DEF SeqsOf, UserRow
    <3>3. Owned(AskedBy[b], exchange[a].session, exchange[a].seq)
            <=> AskedBy[b] = sessions[exchange[a].session]
      BY <2>4, <3>2 DEF Owned, ExchangeInv
    <3>4. TraceRow(a) \in traces /\ \A t \in traces : t.ask = a => t = TraceRow(a)
      BY <2>4 DEF TracesInv
    <3>5. TraceRow(a).session = exchange[a].session /\ TraceRow(a).seq = exchange[a].seq
      BY DEF TraceRow
    <3> QED BY <2>3, <3>3, <3>4, <3>5 DEF TraceOf
  <2> QED BY <2>2, <2>3, <2>4 DEF UserRow
<1>5. \A f \in feedback : f.seq \in SeqsOf(f.session)  BY DEF FeedbackInv
<1> QED BY <1>1, <1>2, <1>4, <1>5, <1>6 DEF ExchangeKeepsItsAddress, TraceRow

\* What a stream names first stays good, whatever else is asked into the session and whoever
\* names the same id at the same time: whoever computed a number from a stale snapshot is
\* refused by the primary key, so that numbers have no gap and no duplicate; a session is its
\* first asker's for good, and the trace endpoint gives its owner, and nobody else, the trace
\* of the very run (app.py: ask, _owned; sessions.py: remember, asked, answered, trace_of).
THEOREM AddressesAreGood == Spec => []ExchangeKeepsItsAddress
<1>1. Init => AddressInv /\ OwnersInv  BY InitAddress, InitOwners
<1>2. AddressInv /\ OwnersInv /\ [Next]_vars => (AddressInv /\ OwnersInv)'
  BY NextAddress, NextOwners
<1>3. AddressInv /\ OwnersInv => ExchangeKeepsItsAddress  BY AddressIsKept
<1> QED BY <1>1, <1>2, <1>3, PTL DEF Spec

-----------------------------------------------------------------------------
(* Failures in a row.                                                        *)

Early == {"idle", "refused", "remembering", "asking", "inserting", "classify", "routed", "covering", "loop",
          "tools", "verify"}

\* A run is the record its pipeline keeps.
IsRun(r) ==
  r \in [class : {r.class}, sel : {r.sel}, caveats : {r.caveats}, calls : {r.calls},
         pending : {r.pending}, turns : {r.turns}, failures : {r.failures},
         retried : {r.retried}, stated : {r.stated}]

RowOfFailures(calls, n) ==
  n >= ToolFailureLimit /\ \A i \in (n - ToolFailureLimit + 1) .. n : calls[i].failed

\* The counter is the length of the run of failures at the end of the trace, and no earlier
\* one reached the limit.
Counts(calls, failures) ==
  /\ \E S : calls \in Seq(S)
  /\ failures \in 0 .. Len(calls) /\ failures <= ToolFailureLimit
  /\ \A i \in (Len(calls) - failures + 1) .. Len(calls) : calls[i].failed
  /\ failures < Len(calls) => ~calls[Len(calls) - failures].failed
  /\ \A n \in 1 .. (Len(calls) - 1) : ~RowOfFailures(calls, n)

FailuresInv ==
  /\ at \in [Asks -> Steps]
  /\ run = [a \in Asks |-> run[a]] /\ answer = [a \in Asks |-> answer[a]]
  /\ \A a \in Asks :
       /\ IsRun(run[a])
       /\ Counts(run[a].calls, run[a].failures)
       /\ answer[a].door = "aborted" <=> run[a].failures = ToolFailureLimit
       /\ at[a] \in Early => answer[a].door # "aborted"

LEMMA NoCallsCount == Counts(<<>>, 0)
BY AgentAssumption DEF Counts, RowOfFailures

LEMMA InitFailures == Init => FailuresInv
<1> SUFFICES ASSUME Init PROVE FailuresInv  OBVIOUS
<1>1. \A a \in Asks : IsRun(run[a]) /\ run[a].calls = <<>> /\ run[a].failures = 0
  BY DEF Init, NoRun, IsRun
<1>2. \A a \in Asks : answer[a].door # "aborted"  BY DEF Init, NoAnswer
<1>3. \A a \in Asks : Counts(run[a].calls, run[a].failures)  BY <1>1, NoCallsCount
<1>4. at \in [Asks -> Steps] /\ run = [a \in Asks |-> run[a]] /\ answer = [a \in Asks |-> answer[a]]
  BY DEF Init, Steps
<1> QED BY <1>1, <1>2, <1>3, <1>4, AgentAssumption DEF FailuresInv

\* One more call, of a run that had not been given up.
LEMMA CallCounts ==
  ASSUME NEW calls, NEW failures, Counts(calls, failures), failures # ToolFailureLimit,
         NEW call, NEW more, more = IF call.failed THEN failures + 1 ELSE 0
  PROVE  Counts(Append(calls, call), more)
<1> DEFINE longer == Append(calls, call)
<1>1. PICK S : calls \in Seq(S)  BY DEF Counts
<1>2. calls \in Seq(S \cup {call})  BY <1>1, SeqMonotonic
<1>3. /\ longer \in Seq(S \cup {call}) /\ Len(longer) = Len(calls) + 1 /\ Len(calls) \in Nat
      /\ \A i \in 1 .. Len(calls) : longer[i] = calls[i]
      /\ longer[Len(calls) + 1] = call
  BY <1>2, AppendProperties, LenProperties
<1> HIDE DEF longer
<1> DEFINE len == Len(calls)  lim == ToolFailureLimit
<1>4. lim \in Nat \ {0} /\ len \in Nat  BY <1>3, AgentAssumption
<1>5. /\ failures \in 0 .. len /\ failures < lim
      /\ \A i \in (len - failures + 1) .. len : calls[i].failed
      /\ failures < len => ~calls[len - failures].failed
      /\ \A n \in 1 .. (len - 1) : ~RowOfFailures(calls, n)
  BY <1>4 DEF Counts
<1>6. ~RowOfFailures(calls, len)
  <2>1. CASE len < lim  BY <2>1, <1>4 DEF RowOfFailures
  <2>2. CASE len >= lim
    <3>1. failures < len /\ len - failures \in (len - lim + 1) .. len  BY <2>2, <1>4, <1>5
    <3> QED BY <3>1, <1>5 DEF RowOfFailures
  <2> QED BY <2>1, <2>2, <1>4
<1>7. ASSUME NEW n \in 1 .. len PROVE ~RowOfFailures(longer, n)
  <2>1. ~RowOfFailures(calls, n)  BY <1>4, <1>5, <1>6
  <2>2. \A i \in (n - lim + 1) .. n : n >= lim => longer[i] = calls[i]  BY <1>3, <1>4
  <2> QED BY <2>1, <2>2 DEF RowOfFailures
<1>8. \E T : longer \in Seq(T)  BY <1>3
<1>9. Counts(longer, more)
  <2>1. CASE call.failed
    <3>1. more = failures + 1  BY <2>1
    <3>2. \A i \in (len + 1 - more + 1) .. (len + 1) : longer[i].failed
      <4> SUFFICES ASSUME NEW i \in (len + 1 - more + 1) .. (len + 1) PROVE longer[i].failed
        OBVIOUS
      <4>1. CASE i = len + 1  BY <4>1, <1>3, <2>1
      <4>2. CASE i # len + 1
        <5>1. i \in (len - failures + 1) .. len /\ i \in 1 .. len  BY <4>2, <3>1, <1>4, <1>5
        <5> QED BY <5>1, <1>3, <1>5
      <4> QED BY <4>1, <4>2
    <3>3. more < len + 1 => ~longer[len + 1 - more].failed  BY <3>1, <1>3, <1>4, <1>5
    <3>4. more \in 0 .. (len + 1) /\ more <= lim  BY <3>1, <1>4, <1>5
    <3> QED BY <1>3, <1>4, <1>7, <1>8, <3>2, <3>3, <3>4 DEF Counts
  <2>2. CASE ~call.failed
    <3>1. more = 0  BY <2>2
    <3> QED BY <1>3, <1>4, <1>7, <1>8, <2>2, <3>1 DEF Counts
  <2> QED BY <2>1, <2>2
<1> QED BY <1>9 DEF longer

\* A step that makes no call: it leaves the trace and its counter alone, or breaks the run,
\* and only a run that has not been given up gets another answer.
LEMMA NoCallKeepsFailures ==
  ASSUME FailuresInv, NEW a \in Asks, NEW there \in Steps, at' = [at EXCEPT ![a] = there],
         there \in Early => at[a] \in Early,
         run' = [b \in Asks |-> run'[b]] /\ answer' = [b \in Asks |-> answer'[b]],
         \A b \in Asks \ {a} : run'[b] = run[b] /\ answer'[b] = answer[b],
         \/ run'[a] = NoRun /\ answer'[a] = NoAnswer
         \/ /\ IsRun(run'[a]) /\ run'[a].calls = run[a].calls /\ run'[a].failures = run[a].failures
            /\ \/ answer'[a] = answer[a]
               \/ at[a] \in Early /\ answer'[a].door # "aborted"
  PROVE  FailuresInv'
<1>1. at' \in [Asks -> Steps] /\ at'[a] = there /\ \A b \in Asks \ {a} : at'[b] = at[b]
  BY DEF FailuresInv
<1>2. ASSUME NEW b \in Asks
      PROVE  /\ IsRun(run'[b]) /\ Counts(run'[b].calls, run'[b].failures)
             /\ answer'[b].door = "aborted" <=> run'[b].failures = ToolFailureLimit
             /\ at'[b] \in Early => answer'[b].door # "aborted"
  <2>1. CASE b # a  BY <1>1, <2>1 DEF FailuresInv
  <2>2. CASE b = a /\ run'[a] = NoRun /\ answer'[a] = NoAnswer
    <3>1. IsRun(NoRun) /\ NoRun.calls = <<>> /\ NoRun.failures = 0  BY DEF NoRun, IsRun
    <3>2. NoAnswer.door # "aborted"  BY DEF NoAnswer
    <3> QED BY <2>2, <3>1, <3>2, NoCallsCount, AgentAssumption
  <2>3. CASE /\ b = a
             /\ IsRun(run'[a]) /\ run'[a].calls = run[a].calls /\ run'[a].failures = run[a].failures
             /\ \/ answer'[a] = answer[a]
                \/ at[a] \in Early /\ answer'[a].door # "aborted"
    BY <1>1, <2>3 DEF FailuresInv
  <2> QED BY <2>1, <2>2, <2>3
<1> HIDE DEF IsRun, Counts
<1> QED BY <1>1, <1>2 DEF FailuresInv

\* Requests, and what follows a run.
LEMMA TablesKeepFailures ==
  ASSUME FailuresInv, NEW a \in Asks, UNCHANGED <<run, answer>>, NEW there \in Steps,
         \/ at' = at
         \/ at' = [at EXCEPT ![a] = there] /\ (there \in Early => at[a] \in Early)
  PROVE  FailuresInv'
<1>1. CASE at' = at  BY <1>1 DEF FailuresInv, IsRun, Counts, RowOfFailures
<1>2. CASE at' = [at EXCEPT ![a] = there] /\ (there \in Early => at[a] \in Early)
  <2>1. /\ run' = [b \in Asks |-> run'[b]] /\ answer' = [b \in Asks |-> answer'[b]]
        /\ IsRun(run'[a])
    BY DEF FailuresInv
  <2> QED BY <1>2, <2>1, NoCallKeepsFailures
<1> QED BY <1>1, <1>2

LEMMA RequestsKeepFailures ==
  ASSUME FailuresInv, NEW a \in Asks,
         Request(a) \/ AnsweredReads(a) \/ AnsweredCommits(a) \/ SendAnswer(a) \/ GiveFeedback(a)
  PROVE  FailuresInv'
<1> USE DEF From, Steps, Streaming, Early
<1>1. CASE Refuse(a)  BY <1>1, TablesKeepFailures DEF Refuse, Keeps
<1>2. CASE Remember(a)
  <2>1. UNCHANGED <<run, answer>> /\ at[a] \in Early /\ at' = [at EXCEPT ![a] = "asking"]
    BY <1>2 DEF Remember
  <2> QED BY <2>1, TablesKeepFailures
<1>9. CASE MayAsk(a)  BY <1>9, TablesKeepFailures DEF MayAsk
<1>3. CASE AskedReads(a)  BY <1>3, TablesKeepFailures DEF AskedReads, Snapshot
<1>4. CASE AskedInserts(a)
  <2>1. /\ UNCHANGED <<run, answer>> /\ at[a] \in Early
        /\ \E there \in {"failed", "classify"} : at' = [at EXCEPT ![a] = there]
    BY <1>4 DEF AskedInserts
  <2> QED BY <2>1, TablesKeepFailures
<1>5. CASE AnsweredReads(a)  BY <1>5, TablesKeepFailures DEF AnsweredReads, Snapshot
<1>6. CASE AnsweredCommits(a)
  <2>1. /\ UNCHANGED <<run, answer>>
        /\ \E there \in {"failed", "stored"} : at' = [at EXCEPT ![a] = there]
    BY <1>6 DEF AnsweredCommits
  <2> QED BY <2>1, TablesKeepFailures
<1>7. CASE SendAnswer(a)  BY <1>7, TablesKeepFailures DEF SendAnswer, Keeps
<1>8. CASE GiveFeedback(a)
  <2>1. UNCHANGED <<run, answer, at>>  BY <1>8 DEF GiveFeedback
  <2> QED BY <2>1, TablesKeepFailures
<1> QED BY <1>1, <1>2, <1>3, <1>4, <1>5, <1>6, <1>7, <1>8, <1>9 DEF Request

\* A call that answered ends the run of failures; the one that reaches the limit gives up.
LEMMA CallToolOK == ASSUME FailuresInv, NEW a \in Asks, CallTool(a) PROVE FailuresInv'
<1> DEFINE name == Head(run[a].pending)
           call(failed) == [id |-> CallId(a, name), name |-> name, failed |-> failed]
           calls(failed) == Append(run[a].calls, call(failed))
           aborts(failed) == failed /\ Failures(a, failed) >= ToolFailureLimit
<1>1. PICK failed \in BOOLEAN, noted \in BOOLEAN :
        /\ run' = [run EXCEPT ![a] = [run[a] EXCEPT
                    !.calls = calls(failed), !.failures = Failures(a, failed),
                    !.pending = Tail(run[a].pending), !.caveats = @ \cup (IF noted THEN {"stop"} ELSE {})]]
        /\ at' = [at EXCEPT ![a] = IF aborts(failed) THEN "storing"
                                   ELSE IF Tail(run[a].pending) = <<>> THEN "loop" ELSE "tools"]
        /\ IF aborts(failed)
             THEN \E caveats : answer' = [answer EXCEPT ![a] =
                    [door |-> "aborted", findings |-> <<>>, caveats |-> caveats,
                     tools |-> [i \in DOMAIN calls(failed) |-> calls(failed)[i].name]]]
             ELSE answer' = answer
  BY DEF CallTool
<1>2. at[a] = "tools"  BY DEF CallTool
<1> DEFINE more == Failures(a, failed)
<1>3. /\ run' = [b \in Asks |-> run'[b]] /\ answer' = [b \in Asks |-> answer'[b]]
      /\ \A b \in Asks \ {a} : run'[b] = run[b] /\ answer'[b] = answer[b] /\ at'[b] = at[b]
      /\ at' \in [Asks -> Steps]
  BY <1>1 DEF FailuresInv, Steps, Streaming
<1>4. IsRun(run'[a]) /\ run'[a].calls = calls(failed) /\ run'[a].failures = more
  BY <1>1 DEF FailuresInv, IsRun
<1>5. /\ Counts(run[a].calls, run[a].failures) /\ run[a].failures # ToolFailureLimit
      /\ answer[a].door # "aborted"
  BY <1>2 DEF FailuresInv, Early
<1>6. call(failed).failed = failed  OBVIOUS
<1>7. Counts(calls(failed), more)
  <2> HIDE DEF call
  <2> QED BY <1>5, <1>6, CallCounts DEF Failures
<1>8. more \in Nat /\ more <= ToolFailureLimit /\ (~failed => more = 0)
  BY <1>5, <1>7 DEF Counts, Failures
<1>9. aborts(failed) => more = ToolFailureLimit
  <2> SUFFICES ASSUME failed, more >= ToolFailureLimit PROVE more = ToolFailureLimit  OBVIOUS
  <2> HIDE DEF more
  <2> QED BY <1>8, AgentAssumption
<1>10. ~aborts(failed) => more # ToolFailureLimit
  <2> SUFFICES ASSUME more = ToolFailureLimit PROVE failed /\ more >= ToolFailureLimit  OBVIOUS
  <2> HIDE DEF more
  <2> QED BY <1>8, AgentAssumption
<1>11. answer'[a].door = "aborted" <=> aborts(failed)
  BY <1>1, <1>5 DEF FailuresInv
<1>12. at'[a] \in Early => ~aborts(failed)  BY <1>1 DEF FailuresInv, Early
<1> HIDE DEF more, aborts, calls
<1>13. ASSUME NEW b \in Asks
       PROVE  /\ IsRun(run'[b]) /\ Counts(run'[b].calls, run'[b].failures)
              /\ answer'[b].door = "aborted" <=> run'[b].failures = ToolFailureLimit
              /\ at'[b] \in Early => answer'[b].door # "aborted"
  <2>1. CASE b = a  BY <2>1, <1>4, <1>7, <1>9, <1>10, <1>11, <1>12
  <2>2. CASE b # a  BY <2>2, <1>3 DEF FailuresInv
  <2> QED BY <2>1, <2>2
<1> QED BY <1>3, <1>13 DEF FailuresInv

\* Every other stage leaves the trace and its counter alone; a stage that builds an answer
\* does so for a run that has none.
LEMMA StagesKeepFailures ==
  ASSUME FailuresInv, NEW a \in Asks, Works(a), ~CallTool(a)
  PROVE  FailuresInv'
<1> DEFINE Stays(there) ==
             /\ there \in Early /\ at[a] \in Early /\ at' = [at EXCEPT ![a] = there]
             /\ answer' = answer
             /\ run' = [b \in Asks |-> run'[b]] /\ \A b \in Asks \ {a} : run'[b] = run[b]
             /\ IsRun(run'[a]) /\ run'[a].calls = run[a].calls /\ run'[a].failures = run[a].failures
           Leaves ==
             /\ at[a] \in Early /\ at' = [at EXCEPT ![a] = "storing"] /\ run' = run
             /\ answer' = [b \in Asks |-> answer'[b]]
             /\ \A b \in Asks \ {a} : answer'[b] = answer[b]
             /\ answer'[a].door # "aborted"
<1>2. (\E there \in Early : Stays(there)) \/ Leaves
  <2> USE DEF From, Keeps, FailuresInv, Early
  <2>1. CASE Classify(a)
    <3>1. PICK class, sel, caveats :
            run' = [run EXCEPT ![a].class = class, ![a].sel = sel, ![a].caveats = caveats]
      <4> HIDE DEF From, Keeps, FailuresInv, Early
      <4> QED BY <2>1, Zenon DEF Classify
    <3>2. From(a, "classify", "routed") /\ Keeps  BY <2>1 DEF Classify
    <3>3. Stays("routed")  BY <3>1, <3>2 DEF IsRun
    <3> QED BY <3>3
  <2>2. CASE AnswerWithoutTools(a)  BY <2>2 DEF AnswerWithoutTools, Leave
  <2>3. CASE ReadWindow(a)
    <3>1. Stays("covering")  BY <2>3 DEF ReadWindow, IsRun
    <3> QED BY <3>1
  <2>4. CASE Covered(a)
    <3>1. PICK gaps \in BOOLEAN :
            run' = [run EXCEPT ![a].caveats = @ \cup (IF gaps THEN {"gaps"} ELSE {})]
      BY <2>4 DEF Covered
    <3>2. IsRun(run'[a]) /\ run'[a].calls = run[a].calls /\ run'[a].failures = run[a].failures
      BY <3>1 DEF IsRun
    <3>3. Stays("loop")  BY <2>4, <3>1, <3>2 DEF Covered
    <3> QED BY <3>3
  <2>5. CASE NoData(a)  BY <2>5 DEF NoData, Leave
  <2>6. CASE Turn(a)
    <3>1. PICK p, q : Says(a, p, q, "loop") \/ Says(a, p, q, "tools") \/ Says(a, p, q, "verify")
      <4> HIDE DEF From, Keeps, FailuresInv, Early
      <4> QED BY <2>6, Zenon DEF Turn
    <3>2. answer' = answer  BY <2>6 DEF Turn
    <3>3. CASE Says(a, p, q, "loop")
      <4>1. Stays("loop")  BY <3>2, <3>3 DEF Says, IsRun
      <4> QED BY <4>1
    <3>4. CASE Says(a, p, q, "tools")
      <4>1. Stays("tools")  BY <3>2, <3>4 DEF Says, IsRun
      <4> QED BY <4>1
    <3>5. CASE Says(a, p, q, "verify")
      <4>1. Stays("verify")  BY <3>2, <3>5 DEF Says, IsRun
      <4> QED BY <4>1
    <3> QED BY <3>1, <3>3, <3>4, <3>5
  <2>7. CASE Exhausted(a)  BY <2>7 DEF Exhausted, Leave
  <2>8. CASE Retry(a)
    <3>1. Stays("loop")  BY <2>8 DEF Retry, IsRun
    <3> QED BY <3>1
  <2>9. CASE Deliver(a)
    <3>1. PICK f, c : Leave(a, "verify", "answered", f, c, Called(a))
      <4> HIDE DEF From, Keeps, FailuresInv, Early
      <4> QED BY <2>9, Zenon DEF Deliver
    <3>2. run' = run  BY <2>9 DEF Deliver
    <3> QED BY <3>1, <3>2 DEF Leave
  <2> QED BY <2>1, <2>2, <2>3, <2>4, <2>5, <2>6, <2>7, <2>8, <2>9 DEF Works
<1>3. CASE \E there \in Early : Stays(there)
  <2>1. PICK there \in Early : Stays(there)  BY <1>3
  <2>2. there \in Steps  BY DEF Steps, Streaming, Early
  <2>3. answer' = [b \in Asks |-> answer'[b]]  BY <2>1 DEF FailuresInv
  <2> QED BY <2>1, <2>2, <2>3, NoCallKeepsFailures
<1>4. CASE Leaves
  <2>1. "storing" \in Steps \ Early  BY DEF Steps, Streaming, Early
  <2>2. run' = [b \in Asks |-> run'[b]] /\ IsRun(run'[a])  BY <1>4 DEF FailuresInv
  <2> QED BY <1>4, <2>1, <2>2, NoCallKeepsFailures
<1> QED BY <1>2, <1>3, <1>4

LEMMA NextFailures == FailuresInv /\ [Next]_vars => FailuresInv'
<1> SUFFICES ASSUME FailuresInv, [Next]_vars PROVE FailuresInv'  OBVIOUS
<1>1. CASE UNCHANGED vars
  BY <1>1 DEF vars, FailuresInv, IsRun, Counts, RowOfFailures
<1>2. CASE Next
  <2>1. PICK a \in Asks : Request(a) \/ Stage(a) \/ Break(a) \/ GiveFeedback(a)
    BY <1>2 DEF Next
  <2>2. CASE Request(a) \/ AnsweredReads(a) \/ AnsweredCommits(a) \/ SendAnswer(a) \/ GiveFeedback(a)
    BY <2>2, RequestsKeepFailures
  <2>3. CASE CallTool(a)  BY <2>3, CallToolOK
  <2>4. CASE Works(a) /\ ~CallTool(a)  BY <2>4, StagesKeepFailures
  <2>5. CASE Break(a)
    <3>1. "failed" \in Steps \ Early  BY DEF Steps, Early
    <3>2. /\ at' = [at EXCEPT ![a] = "failed"]
          /\ run' = [b \in Asks |-> run'[b]] /\ answer' = [b \in Asks |-> answer'[b]]
          /\ \A b \in Asks \ {a} : run'[b] = run[b] /\ answer'[b] = answer[b]
          /\ run'[a] = NoRun /\ answer'[a] = NoAnswer
      BY <2>5 DEF Break, FailuresInv
    <3> QED BY <3>1, <3>2, NoCallKeepsFailures
  <2> QED BY <2>1, <2>2, <2>3, <2>4, <2>5 DEF Stage, Works
<1> QED BY <1>1, <1>2

LEMMA CountsDecide ==
  ASSUME NEW calls, NEW failures, Counts(calls, failures)
  PROVE  /\ \A n \in DOMAIN calls : RowOfFailures(calls, n) =>
              n = Len(calls) /\ failures = ToolFailureLimit
         /\ failures = ToolFailureLimit => RowOfFailures(calls, Len(calls))
<1>1. PICK S : calls \in Seq(S)  BY DEF Counts
<1>2. DOMAIN calls = 1 .. Len(calls) /\ Len(calls) \in Nat  BY <1>1, LenProperties
<1>3. RowOfFailures(calls, Len(calls)) <=> failures = ToolFailureLimit
  <2> DEFINE len == Len(calls)
  <2>1. CASE failures = ToolFailureLimit
    BY <2>1, <1>2, AgentAssumption DEF Counts, RowOfFailures
  <2>2. CASE failures < ToolFailureLimit /\ RowOfFailures(calls, len)
    <3>1. failures < len /\ len - failures \in (len - ToolFailureLimit + 1) .. len
      BY <2>2, <1>2, AgentAssumption DEF Counts, RowOfFailures
    <3> QED BY <2>2, <3>1 DEF Counts, RowOfFailures
  <2> QED BY <2>1, <2>2, AgentAssumption DEF Counts
<1>4. ASSUME NEW n \in DOMAIN calls, RowOfFailures(calls, n) PROVE n = Len(calls)
  <2>1. n \in 1 .. (Len(calls) - 1) \/ n = Len(calls)  BY <1>2
  <2> QED BY <2>1, <1>4 DEF Counts
<1> QED BY <1>3, <1>4

\* The counter the loop keeps, reset by a call that answers, decides as the trace would: the
\* run gives up exactly when the trace ends in that many failures, and went on past no such
\* row of them (pipeline.py: run_tools and the abort).
THEOREM GivesUpOnARow == Spec => []AbortsOnConsecutiveFailures
<1>1. Init => FailuresInv  BY InitFailures
<1>2. FailuresInv /\ [Next]_vars => FailuresInv'  BY NextFailures
<1>3. FailuresInv => AbortsOnConsecutiveFailures
  BY CountsDecide DEF FailuresInv, AbortsOnConsecutiveFailures, RowOfFailures
<1> QED BY <1>1, <1>2, <1>3, PTL DEF Spec

-----------------------------------------------------------------------------
(* What an answer cites.                                                     *)

\* Exactly one member of a finite set of numbers has a given number of members up to it.
LEMMA RankIsTaken ==
  ASSUME NEW P \in SUBSET Int, IsFiniteSet(P), NEW n \in 1 .. Cardinality(P)
  PROVE  \E i \in P : Cardinality({j \in P : j <= i}) = n
<1> DEFINE m == Cardinality(P)
           upTo(i) == {x \in P : x <= i}
           rank == [i \in P |-> Cardinality(upTo(i))]
<1>1. m \in Nat  BY FS_CardinalityType
<1>2. ASSUME NEW i \in P PROVE IsFiniteSet(upTo(i)) /\ Cardinality(upTo(i)) \in 1 .. m
  <2>1. IsFiniteSet(upTo(i)) /\ Cardinality(upTo(i)) <= m  BY FS_Subset
  <2>2. i \in upTo(i)  OBVIOUS
  <2>3. Cardinality(upTo(i)) # 0 /\ Cardinality(upTo(i)) \in Nat
    BY <2>1, <2>2, FS_EmptySet, FS_CardinalityType
  <2> QED BY <1>1, <2>1, <2>3
<1>3. ASSUME NEW i \in P, NEW j \in P, i < j PROVE Cardinality(upTo(i)) # Cardinality(upTo(j))
  <2>0. i \in Int /\ j \in Int /\ \A x \in P : x \in Int  OBVIOUS
  <2>1. \A x \in P : x <= i => x <= j  BY <1>3, <2>0
  <2>2. j <= j /\ ~(j <= i)  BY <1>3, <2>0
  <2>3. upTo(i) \subseteq upTo(j) /\ j \in upTo(j) /\ j \notin upTo(i)  BY <2>1, <2>2
  <2> HIDE DEF upTo
  <2> QED BY <1>2, <2>3, FS_Subset
<1>4. rank \in [P -> 1 .. m] /\ \A i \in P : rank[i] = Cardinality(upTo(i))  BY <1>2
<1> HIDE DEF rank, upTo
<1>5. \A i, j \in P : rank[i] = rank[j] => i = j
  <2> TAKE i, j \in P
  <2>1. i \in Int /\ j \in Int  OBVIOUS
  <2>2. i < j \/ j < i \/ i = j  BY <2>1
  <2> QED BY <1>3, <1>4, <2>2
<1>6. rank \in Injection(P, 1 .. m)  BY <1>4, <1>5 DEF Injection, IsInjective
<1>7. IsFiniteSet(1 .. m) /\ Cardinality(1 .. m) = m  BY <1>1, FS_Interval
<1>8. rank \in Surjection(P, 1 .. m)  BY <1>6, <1>7, FS_Injection
<1>9. \E i \in P : rank[i] = n  BY <1>8 DEF Surjection
<1> QED BY <1>4, <1>9 DEF upTo

\* What is picked was there, at one of these positions.
LEMMA PickedIs ==
  ASSUME NEW s, NEW len \in Nat, DOMAIN s = 1 .. len, NEW P \in SUBSET (1 .. len)
  PROVE  /\ Picked(s, P) \in Seq(Range(s))
         /\ \A n \in DOMAIN Picked(s, P) : \E i \in P : Picked(s, P)[n] = s[i]
<1>1. IsFiniteSet(P) /\ Cardinality(P) \in Nat /\ P \in SUBSET Int
  <2>1. IsFiniteSet(1 .. len)  BY FS_Interval
  <2>2. IsFiniteSet(P)  BY <2>1, FS_Subset
  <2> QED BY <2>2, FS_CardinalityType
<1> DEFINE m == Cardinality(P)
           place(n) == CHOOSE i \in P : Cardinality({j \in P : j <= i}) = n
<1>2. \A n \in 1 .. m : place(n) \in P  BY <1>1, RankIsTaken
<1>3. Picked(s, P) = [n \in 1 .. m |-> s[place(n)]]  BY DEF Picked
<1> HIDE DEF m, place
<1>4. \A n \in 1 .. m : Picked(s, P)[n] = s[place(n)] /\ s[place(n)] \in Range(s)
  BY <1>2, <1>3 DEF Range
<1>5. m \in Nat  BY <1>1 DEF m
<1>6. Picked(s, P) \in [1 .. m -> Range(s)]  BY <1>3, <1>4
<1> QED BY <1>2, <1>3, <1>4, <1>5, <1>6, SeqDef

LEMMA PositionsOf ==
  ASSUME NEW s, s \in Seq(Range(s))
  PROVE  Len(s) \in Nat /\ DOMAIN s = 1 .. Len(s)
BY LenProperties

\* A composed answer cites nothing the findings that were kept do not: the summary included.
LEMMA ComposedCites ==
  ASSUME NEW s, s \in Seq(Range(s)), NEW kept \in SUBSET DOMAIN s, NEW after,
         NEW n \in DOMAIN Compose(s, kept, after), NEW c \in Compose(s, kept, after)[n].cites
  PROVE  \E i \in kept : c \in s[i].cites
<1> DEFINE ordered == Collapse(s, kept)
           cited == {i \in ordered : s[i].cites # {}}
           leads == IF cited # {} THEN cited ELSE {i \in ordered : \A j \in ordered : i <= j}
           sum == Summarise({s[i] : i \in leads})
           head == IF Cardinality(ordered) >= after /\ leads # {} THEN <<sum>> ELSE <<>>
           x == Picked(s, leads)
           y == Picked(s, ordered \ leads)
           S == Range(s) \cup {sum}
<1>1. Compose(s, kept, after) = head \o x \o y  BY DEF Compose
<1>2. ordered \subseteq kept /\ leads \subseteq ordered  BY DEF Collapse
<1>3. DOMAIN s = 1 .. Len(s) /\ Len(s) \in Nat  BY PositionsOf
<1>4. sum.cites = UNION {s[i].cites : i \in leads}  BY DEF Summarise
<1>12. \A P \in SUBSET (1 .. Len(s)) :
         /\ Picked(s, P) \in Seq(Range(s))
         /\ \A k \in DOMAIN Picked(s, P) : \E i \in P : Picked(s, P)[k] = s[i]
  BY <1>3, PickedIs
<1> HIDE DEF leads, ordered, sum
<1>5. /\ x \in Seq(S) /\ \A k \in DOMAIN x : \E i \in kept : x[k] = s[i]
  <2>1. leads \in SUBSET (1 .. Len(s))  BY <1>2, <1>3
  <2>2. x \in Seq(Range(s)) /\ \A k \in DOMAIN x : \E i \in leads : x[k] = s[i]
    BY <1>12, <2>1
  <2> HIDE DEF x
  <2>3. x \in Seq(S)  BY <2>2, SeqMonotonic
  <2> QED BY <1>2, <2>2, <2>3
<1>6. /\ y \in Seq(S) /\ \A k \in DOMAIN y : \E i \in kept : y[k] = s[i]
  <2>1. ordered \ leads \in SUBSET (1 .. Len(s))  BY <1>2, <1>3
  <2>2. y \in Seq(Range(s)) /\ \A k \in DOMAIN y : \E i \in ordered \ leads : y[k] = s[i]
    BY <1>12, <2>1
  <2> HIDE DEF y
  <2>3. y \in Seq(S)  BY <2>2, SeqMonotonic
  <2> QED BY <1>2, <2>2, <2>3
<1>7. head \in Seq(S) /\ \A k \in DOMAIN head : head[k] = sum
  <2>1. sum \in S  OBVIOUS
  <2> HIDE DEF S
  <2> QED BY <2>1
<1> HIDE DEF head, x, y, S
<1>8. \A p, q \in Seq(S) :
        /\ p \o q \in Seq(S)
        /\ \A k \in DOMAIN (p \o q) : \/ \E i \in DOMAIN p : (p \o q)[k] = p[i]
                                     \/ \E i \in DOMAIN q : (p \o q)[k] = q[i]
  <2> TAKE p, q \in Seq(S)
  <2>1. /\ p \o q \in Seq(S) /\ Len(p \o q) = Len(p) + Len(q)
        /\ \A i \in 1 .. Len(p) + Len(q) : (p \o q)[i] = IF i <= Len(p) THEN p[i] ELSE q[i - Len(p)]
    BY ConcatProperties
  <2>2. /\ Len(p) \in Nat /\ Len(q) \in Nat /\ DOMAIN p = 1 .. Len(p) /\ DOMAIN q = 1 .. Len(q)
        /\ DOMAIN (p \o q) = 1 .. Len(p) + Len(q)
    BY <2>1, LenProperties
  <2>3. ASSUME NEW k \in 1 .. Len(p) + Len(q)
        PROVE  \/ \E i \in 1 .. Len(p) : (p \o q)[k] = p[i]
               \/ \E i \in 1 .. Len(q) : (p \o q)[k] = q[i]
    <3>1. CASE k <= Len(p)
      <4>1. k \in 1 .. Len(p)  BY <2>2, <3>1
      <4> QED BY <2>1, <3>1, <4>1
    <3>2. CASE ~(k <= Len(p))
      <4>1. k - Len(p) \in 1 .. Len(q)  BY <2>2, <3>2
      <4> QED BY <2>1, <3>2, <4>1
    <3> QED BY <3>1, <3>2
  <2> QED BY <2>1, <2>2, <2>3
<1>9. \/ \E k \in DOMAIN head : Compose(s, kept, after)[n] = head[k]
      \/ \E k \in DOMAIN x : Compose(s, kept, after)[n] = x[k]
      \/ \E k \in DOMAIN y : Compose(s, kept, after)[n] = y[k]
  <2>1. head \o x \in Seq(S)  BY <1>5, <1>7, <1>8
  <2>2. \/ \E k \in DOMAIN (head \o x) : Compose(s, kept, after)[n] = (head \o x)[k]
        \/ \E k \in DOMAIN y : Compose(s, kept, after)[n] = y[k]
    BY <1>1, <1>6, <1>8, <2>1
  <2> QED BY <1>5, <1>7, <1>8, <2>2
<1>10. CASE Compose(s, kept, after)[n] = sum
  <2>1. \E i \in leads : c \in s[i].cites  BY <1>4, <1>10
  <2> QED BY <1>2, <2>1
<1>11. CASE \E i \in kept : Compose(s, kept, after)[n] = s[i]  BY <1>11
<1> QED BY <1>5, <1>6, <1>7, <1>9, <1>10, <1>11

\* The window is stamped on the kinds that take one, and nothing else changes.
LEMMA StampedIs ==
  ASSUME NEW s, AreFindings(s)
  PROVE  /\ Stamped(s) \in Seq(Range(Stamped(s))) /\ DOMAIN Stamped(s) = DOMAIN s
         /\ \A i \in DOMAIN s : \A c \in Stamped(s)[i].cites : c.windowed = (c.kind \in WINDOWED)
<1>1. DOMAIN s = 1 .. Len(s) /\ Len(s) \in Nat  BY PositionsOf DEF AreFindings
<1>2. DOMAIN Stamped(s) = DOMAIN s  BY DEF Stamped
<1>3. Stamped(s) \in [1 .. Len(s) -> Range(Stamped(s))]  BY <1>1, <1>2 DEF Stamped, Range
<1>4. Stamped(s) \in Seq(Range(Stamped(s)))  BY <1>1, <1>3, SeqDef
<1>5. ASSUME NEW i \in DOMAIN s, NEW c \in Stamped(s)[i].cites
      PROVE  c.windowed = (c.kind \in WINDOWED)
  <2>1. IsFinding(s[i])  BY DEF AreFindings, Range
  <2>2. Stamped(s)[i] = [s[i] EXCEPT !.cites = {[d EXCEPT !.windowed = d.kind \in WINDOWED] : d \in @}]
    BY DEF Stamped
  <2>3. Stamped(s)[i].cites = {[d EXCEPT !.windowed = d.kind \in WINDOWED] : d \in s[i].cites}
    <3> DEFINE cites == {[d EXCEPT !.windowed = d.kind \in WINDOWED] : d \in s[i].cites}
    <3>1. Stamped(s)[i] = [s[i] EXCEPT !.cites = cites]  BY <2>2
    <3>2. s[i] = [statement |-> s[i].statement, basis |-> s[i].basis, cites |-> s[i].cites]
      BY <2>1 DEF IsFinding
    <3> HIDE DEF cites
    <3>3. "cites" \in DOMAIN s[i]  BY <3>2
    <3> QED BY <3>1, <3>3 DEF cites
  <2>4. PICK d \in s[i].cites : c = [d EXCEPT !.windowed = d.kind \in WINDOWED]  BY <2>3
  <2>5. d = [kind |-> d.kind, ids |-> d.ids, windowed |-> d.windowed]  BY <2>1 DEF IsFinding
  <2>6. c.kind = d.kind /\ c.windowed = (d.kind \in WINDOWED)
    <3> DEFINE w == d.kind \in WINDOWED
    <3>1. "windowed" \in DOMAIN d /\ "kind" \in DOMAIN d  BY <2>5
    <3>2. c = [d EXCEPT !.windowed = w]  BY <2>4
    <3> HIDE DEF w
    <3>3. c.kind = d.kind /\ c.windowed = w  BY <3>1, <3>2
    <3> QED BY <3>3 DEF w
  <2> QED BY <2>6
<1> QED BY <1>2, <1>4, <1>5

\* What a run has to have stated for an answer of these findings.
Backed(r, ans) ==
  LET loaded == IdsOf(r.sel.documents)
      kept == Keep(Stamped(r.stated), Rows, IdsOf(Tree), loaded, r.calls).kept
  IN /\ \A i \in DOMAIN ans.findings : \A c \in ans.findings[i].cites :
          Resolves(c, Rows, IdsOf(Tree), loaded, r.calls) /\ c.windowed = (c.kind \in WINDOWED)
     /\ kept # DOMAIN r.stated => "removed" \in ans.caveats

LEMMA VerifiedIsBacked ==
  ASSUME NEW r, AreFindings(r.stated), NEW ans, NEW after,
         LET checked == Keep(Stamped(r.stated), Rows, IdsOf(Tree), IdsOf(r.sel.documents), r.calls) IN
           /\ ans.findings = Compose(Stamped(r.stated), checked.kept, after)
           /\ checked.failed # {} => "removed" \in ans.caveats
  PROVE  Backed(r, ans)
<1> DEFINE s == Stamped(r.stated)
           ok(c) == Resolves(c, Rows, IdsOf(Tree), IdsOf(r.sel.documents), r.calls)
           checked == Keep(s, Rows, IdsOf(Tree), IdsOf(r.sel.documents), r.calls)
<1>1. /\ checked.kept = {i \in DOMAIN s : \A c \in s[i].cites : ok(c)}
      /\ checked.failed = {c \in UNION {s[i].cites : i \in DOMAIN s} : ~ok(c)}
  BY DEF Keep
<1>2. /\ s \in Seq(Range(s)) /\ DOMAIN s = DOMAIN r.stated
      /\ \A i \in DOMAIN s : \A c \in s[i].cites : c.windowed = (c.kind \in WINDOWED)
  BY StampedIs
<1> HIDE DEF s, ok, checked
<1>3. /\ ans.findings = Compose(s, checked.kept, after)
      /\ checked.failed # {} => "removed" \in ans.caveats
  BY DEF checked, s
<1>4. ASSUME NEW i \in DOMAIN ans.findings, NEW c \in ans.findings[i].cites
      PROVE  ok(c) /\ c.windowed = (c.kind \in WINDOWED)
  <2>1. checked.kept \in SUBSET DOMAIN s  BY <1>1
  <2>2. \E j \in checked.kept : c \in s[j].cites  BY <1>2, <1>3, <1>4, <2>1, ComposedCites
  <2> QED BY <1>1, <1>2, <2>2
<1>5. ASSUME checked.kept # DOMAIN r.stated PROVE "removed" \in ans.caveats
  <2>1. PICK i \in DOMAIN s : i \notin checked.kept  BY <1>1, <1>2, <1>5
  <2>2. PICK c \in s[i].cites : ~ok(c)  BY <1>1, <2>1
  <2>3. c \in checked.failed  BY <1>1, <2>1, <2>2
  <2> QED BY <1>3, <2>3
<1> QED BY <1>4, <1>5 DEF Backed, checked, s, ok

LEMMA FindingsAre ==
  ASSUME NEW S, NEW s \in Seq(S), \A f \in S : IsFinding(f)
  PROVE  AreFindings(s)
<1>1. DOMAIN s = 1 .. Len(s) /\ Len(s) \in Nat /\ \A i \in DOMAIN s : s[i] \in S
  BY LenProperties, ElementOfSeq
<1>2. s \in [1 .. Len(s) -> Range(s)]
  <2>1. s \in [1 .. Len(s) -> S]  BY SeqDef, <1>1
  <2> QED BY <1>1, <2>1 DEF Range
<1>3. s \in Seq(Range(s))  BY <1>1, <1>2, SeqDef
<1> QED BY <1>1, <1>3 DEF AreFindings, Range

LEMMA NothingStated == AreFindings(<<>>)
<1>1. PICK S : S = {}  OBVIOUS
<1>2. <<>> \in Seq(S) /\ \A f \in S : IsFinding(f)  BY <1>1
<1> QED BY <1>2, FindingsAre

\* What the scripted provider states has the shape of findings.
LEMMA ScriptedStates ==
  ASSUME NEW type, NEW loaded, NEW procedures, NEW contradicts
  PROVE  AreFindings(ScriptedFinal(type, loaded, procedures, contradicts))
<1> DEFINE Cited == {CiteStop(loaded, procedures.stop), CiteStop(loaded, procedures.intervention),
                     {Cites("part", {"part"})}, {Cites("chart", {<<"inspection_stats", 1>>})}, {}}
           Said == [statement : {"stood", "root", "contradiction", "rejected", "by class",
                                 "without a class", "traced", "reported"},
                    basis : {"measured", "derived", "hypothesis"}, cites : Cited]
           IsCite(c) == c = [kind |-> c.kind, ids |-> c.ids, windowed |-> c.windowed]
<1>1. \A kind, ids : IsCite(Cites(kind, ids))  BY DEF Cites
<1>2. \A p : \A c \in CiteStop(loaded, p) : IsCite(c)  BY <1>1 DEF CiteStop
<1>3. ASSUME NEW f \in Said PROVE IsFinding(f)
  <2>1. f = [statement |-> f.statement, basis |-> f.basis, cites |-> f.cites]  OBVIOUS
  <2>2. f.cites \in Cited  OBVIOUS
  <2> HIDE DEF IsCite, Said
  <2>3. \A c \in f.cites : IsCite(c)  BY <1>1, <1>2, <2>2
  <2> QED BY <2>1, <2>3 DEF IsFinding, IsCite
<1>4. /\ \A st \in {"stood", "root", "contradiction", "rejected", "by class", "without a class",
                  "traced", "reported"}, b \in {"measured", "derived", "hypothesis"}, c \in Cited :
           Claim(st, b, c) \in Said
  BY DEF Claim
<1>5. /\ CiteStop(loaded, procedures.stop) \in Cited
      /\ CiteStop(loaded, procedures.intervention) \in Cited
      /\ {Cites("part", {"part"})} \in Cited
      /\ {Cites("chart", {<<"inspection_stats", 1>>})} \in Cited /\ {} \in Cited
  OBVIOUS
<1> HIDE DEF Said, Cited
<1>6. CASE type = "stop_investigation"
  <2> DEFINE two == <<Claim("stood", "measured", CiteStop(loaded, procedures.stop)),
                      Claim("root", "derived", CiteStop(loaded, procedures.stop))>>
             third == Claim("contradiction", "hypothesis", CiteStop(loaded, procedures.intervention))
  <2>0. /\ Claim("stood", "measured", CiteStop(loaded, procedures.stop)) \in Said
        /\ Claim("root", "derived", CiteStop(loaded, procedures.stop)) \in Said
        /\ third \in Said
    BY <1>4, <1>5
  <2>1. two \in Seq(Said) /\ <<third>> \in Seq(Said) /\ <<>> \in Seq(Said)
    <3> HIDE DEF third
    <3> QED BY <2>0
  <2>2. ScriptedFinal(type, loaded, procedures, contradicts)
          = two \o (IF contradicts THEN <<third>> ELSE <<>>)
    BY <1>6 DEF ScriptedFinal
  <2> HIDE DEF two, third
  <2>3. ScriptedFinal(type, loaded, procedures, contradicts) \in Seq(Said)
    BY <2>1, <2>2, ConcatProperties
  <2> QED BY <1>3, <2>3, FindingsAre
<1>7. CASE type \in {"statistics", "quality_investigation"}
  <2>1. ScriptedFinal(type, loaded, procedures, contradicts)
          = <<Claim("rejected", "measured", {Cites("part", {"part"})}),
              Claim("by class", "measured", {Cites("chart", {<<"inspection_stats", 1>>})}),
              Claim("without a class", "measured", {})>>
    BY <1>7 DEF ScriptedFinal
  <2>2. /\ Claim("rejected", "measured", {Cites("part", {"part"})}) \in Said
        /\ Claim("by class", "measured", {Cites("chart", {<<"inspection_stats", 1>>})}) \in Said
        /\ Claim("without a class", "measured", {}) \in Said
    BY <1>4, <1>5
  <2> DEFINE p == Claim("rejected", "measured", {Cites("part", {"part"})})
             q == Claim("by class", "measured", {Cites("chart", {<<"inspection_stats", 1>>})})
             r == Claim("without a class", "measured", {})
  <2>3. <<p, q, r>> \in Seq(Said)
    <3>1. p \in Said /\ q \in Said /\ r \in Said  BY <2>2
    <3> HIDE DEF p, q, r
    <3> QED BY <3>1
  <2>4. ScriptedFinal(type, loaded, procedures, contradicts) \in Seq(Said)  BY <2>1, <2>3
  <2> QED BY <1>3, <2>4, FindingsAre
<1>8. CASE type = "traceability"
  <2>1. ScriptedFinal(type, loaded, procedures, contradicts)
          = <<Claim("traced", "measured", {Cites("part", {"part"})})>>
    BY <1>8 DEF ScriptedFinal
  <2>2. Claim("traced", "measured", {Cites("part", {"part"})}) \in Said  BY <1>4, <1>5
  <2>3. ScriptedFinal(type, loaded, procedures, contradicts) \in Seq(Said)  BY <2>1, <2>2
  <2> QED BY <1>3, <2>3, FindingsAre
<1>9. CASE type \in {"status", "trend"}
  <2>1. ScriptedFinal(type, loaded, procedures, contradicts) = <<Claim("reported", "measured", {})>>
    BY <1>9 DEF ScriptedFinal
  <2>2. Claim("reported", "measured", {}) \in Said  BY <1>4, <1>5
  <2>3. ScriptedFinal(type, loaded, procedures, contradicts) \in Seq(Said)  BY <2>1, <2>2
  <2> QED BY <1>3, <2>3, FindingsAre
<1>10. CASE type \notin {"stop_investigation", "statistics", "quality_investigation", "traceability",
                       "status", "trend"}
  <2>1. ScriptedFinal(type, loaded, procedures, contradicts) = <<>>
    BY <1>10 DEF ScriptedFinal
  <2> QED BY <2>1, NothingStated
<1> QED BY <1>6, <1>7, <1>8, <1>9, <1>10

-----------------------------------------------------------------------------
(* Verification, from what is stated to what is shown.                       *)

\* What a run states has the shape of findings, and an answer that was verified rests on what
\* its run stated: nothing of the run changes once the answer is built.
ShippedInv ==
  \A a \in Asks :
    /\ AreFindings(run[a].stated)
    /\ answer[a].door = "answered" => at[a] \notin Early /\ Backed(run[a], answer[a])

LEMMA InitShipped == Init => ShippedInv
<1> SUFFICES ASSUME Init PROVE ShippedInv  OBVIOUS
<1>1. \A a \in Asks : run[a].stated = <<>> /\ answer[a].door # "answered"
  BY DEF Init, NoRun, NoAnswer
<1> QED BY <1>1, NothingStated DEF ShippedInv

\* A step of one question, which leaves every other one alone.
LEMMA ShippedByStep ==
  ASSUME ShippedInv, NEW a \in Asks, at \in [Asks -> Steps], NEW there,
         at' = at \/ at' = [at EXCEPT ![a] = there],
         \A b \in Asks \ {a} : run'[b] = run[b] /\ answer'[b] = answer[b],
         AreFindings(run'[a].stated),
         answer'[a].door = "answered" => at'[a] \notin Early /\ Backed(run'[a], answer'[a])
  PROVE  ShippedInv'
<1> SUFFICES ASSUME NEW b \in Asks
             PROVE  /\ AreFindings(run'[b].stated)
                    /\ answer'[b].door = "answered" =>
                         at'[b] \notin Early /\ Backed(run'[b], answer'[b])
  BY DEF ShippedInv, Backed, Keep, Resolves, MadeAs, Stamped
<1>1. CASE b = a  BY <1>1
<1>2. CASE b # a
  <2>1. at'[b] = at[b]  BY <1>2
  <2> QED BY <1>2, <2>1 DEF ShippedInv
<1> QED BY <1>1, <1>2

\* Requests, and what follows a run.
LEMMA RequestsKeepShipped ==
  ASSUME FailuresInv, ShippedInv, NEW a \in Asks,
         Request(a) \/ AnsweredReads(a) \/ AnsweredCommits(a) \/ SendAnswer(a) \/ GiveFeedback(a)
  PROVE  ShippedInv'
<1>1. UNCHANGED <<run, answer>>
  BY DEF Request, Refuse, MayAsk, Remember, AskedReads, AskedInserts, AnsweredReads, AnsweredCommits,
         SendAnswer, GiveFeedback, Snapshot, Keeps
<1>2. \/ at' = at
      \/ \E there : at' = [at EXCEPT ![a] = there] /\ (there \in Early => at[a] \in Early)
  BY DEF Request, Refuse, MayAsk, Remember, AskedReads, AskedInserts, AnsweredReads, AnsweredCommits,
         SendAnswer, GiveFeedback, Snapshot, From, Early
<1>3. at \in [Asks -> Steps]  BY DEF FailuresInv
<1>4. AreFindings(run[a].stated)
      /\ (answer[a].door = "answered" => at[a] \notin Early /\ Backed(run[a], answer[a]))
  BY DEF ShippedInv
<1>5. at'[a] \in Early => at[a] \in Early  BY <1>2, <1>3
<1> HIDE DEF AreFindings, Backed
<1> QED BY <1>1, <1>2, <1>3, <1>4, <1>5, ShippedByStep

\* A stage that answers nothing: what the run states is untouched, nothing, or findings.
LEMMA StagesState ==
  ASSUME FailuresInv, NEW a \in Asks, Works(a), ~Deliver(a)
  PROVE  /\ at[a] \in Early /\ \E there : at' = [at EXCEPT ![a] = there]
         /\ \A b \in Asks \ {a} : run'[b] = run[b] /\ answer'[b] = answer[b]
         /\ \/ run'[a].stated = run[a].stated
            \/ run'[a].stated = <<>>
            \/ \E type, loaded, procedures, contradicts :
                 run'[a].stated = ScriptedFinal(type, loaded, procedures, contradicts)
            \/ run'[a].stated \in Finals
         /\ answer'[a] = answer[a] \/ answer'[a].door # "answered"
<1> DEFINE Stated(stated) ==
             \/ stated = run[a].stated
             \/ stated = <<>>
             \/ \E type, loaded, procedures, contradicts :
                  stated = ScriptedFinal(type, loaded, procedures, contradicts)
             \/ stated \in Finals
           Stays ==
             /\ at[a] \in Early /\ \E there : at' = [at EXCEPT ![a] = there]
             /\ answer' = answer
             /\ \A b \in Asks \ {a} : run'[b] = run[b]
             /\ Stated(run'[a].stated)
           Leaves ==
             /\ at[a] \in Early /\ \E there : at' = [at EXCEPT ![a] = there]
             /\ run' = run
             /\ \A b \in Asks \ {a} : answer'[b] = answer[b]
             /\ answer'[a].door # "answered"
<1>0. /\ IsRun(run[a]) /\ run = [b \in Asks |-> run[b]] /\ answer = [b \in Asks |-> answer[b]]
      /\ at \in [Asks -> Steps]
  BY DEF FailuresInv
<1>1. CASE Classify(a)
  <2>1. PICK class, sel, caveats :
          run' = [run EXCEPT ![a].class = class, ![a].sel = sel, ![a].caveats = caveats]
    BY <1>1, Zenon DEF Classify
  <2>2. From(a, "classify", "routed") /\ answer' = answer  BY <1>1 DEF Classify, Keeps
  <2>3. run'[a].stated = run[a].stated /\ \A b \in Asks \ {a} : run'[b] = run[b]
    BY <1>0, <2>1 DEF IsRun
  <2>4. Stays  BY <2>2, <2>3 DEF From, Early
  <2> QED BY <2>4
<1>2. CASE AnswerWithoutTools(a)
  <2>1. Leaves  BY <1>0, <1>2 DEF AnswerWithoutTools, Leave, From, Early
  <2> QED BY <2>1
<1>3. CASE ReadWindow(a)
  <2>1. PICK caveats : run' = [run EXCEPT ![a].caveats = caveats]
    <3>1. run' = [run EXCEPT ![a].caveats =
                    @ \cup (IF run[a].class.phrase = "known" THEN {} ELSE {"window"})
                      \cup (IF Len(run[a].class.readings) > 1 THEN {"assumed reading"} ELSE {})]
      BY <1>3 DEF ReadWindow
    <3> QED BY <3>1
  <2>2. From(a, "routed", "covering") /\ answer' = answer  BY <1>3 DEF ReadWindow, Keeps
  <2>3. run'[a].stated = run[a].stated /\ \A b \in Asks \ {a} : run'[b] = run[b]
    BY <1>0, <2>1 DEF IsRun
  <2>4. Stays  BY <2>2, <2>3 DEF From, Early
  <2> QED BY <2>4
<1>4. CASE Covered(a)
  <2>1. PICK gaps \in BOOLEAN :
          run' = [run EXCEPT ![a].caveats = @ \cup (IF gaps THEN {"gaps"} ELSE {})]
    BY <1>4 DEF Covered
  <2>2. From(a, "covering", "loop") /\ answer' = answer  BY <1>4 DEF Covered, Keeps
  <2>3. run'[a].stated = run[a].stated /\ \A b \in Asks \ {a} : run'[b] = run[b]
    BY <1>0, <2>1 DEF IsRun
  <2>4. Stays  BY <2>2, <2>3 DEF From, Early
  <2> QED BY <2>4
<1>5. CASE NoData(a)
  <2>1. Leaves  BY <1>0, <1>5 DEF NoData, Leave, From, Early
  <2> QED BY <2>1
<1>6. CASE Turn(a)
  <2>1. PICK p, q, there : Says(a, p, q, there) /\ Stated(q)  BY <1>6 DEF Turn
  <2>2. answer' = answer  BY <1>6 DEF Turn, Keeps
  <2>3. run'[a].stated = q /\ \A b \in Asks \ {a} : run'[b] = run[b]
    BY <1>0, <2>1 DEF IsRun, Says
  <2>4. at[a] \in Early /\ at' = [at EXCEPT ![a] = there]  BY <2>1 DEF Says, From, Early
  <2> HIDE DEF Stated
  <2>5. Stays  BY <2>1, <2>2, <2>3, <2>4
  <2> QED BY <2>5 DEF Stated
<1>7. CASE CallTool(a)
  <2> DEFINE name == Head(run[a].pending)
             left == Tail(run[a].pending)
             calls(failed) == Append(run[a].calls, [id |-> CallId(a, name), name |-> name,
                                                    failed |-> failed])
             aborts(failed) == failed /\ Failures(a, failed) >= ToolFailureLimit
  <2>1. PICK failed \in BOOLEAN, noted \in BOOLEAN :
          /\ run' = [run EXCEPT ![a] = [run[a] EXCEPT
                      !.calls = calls(failed), !.failures = Failures(a, failed),
                      !.pending = left, !.caveats = @ \cup (IF noted THEN {"stop"} ELSE {})]]
          /\ at' = [at EXCEPT ![a] = IF aborts(failed) THEN "storing"
                                     ELSE IF left = <<>> THEN "loop" ELSE "tools"]
          /\ IF aborts(failed)
               THEN \E caveats : answer' = [answer EXCEPT ![a] =
                      [door |-> "aborted", findings |-> <<>>, caveats |-> caveats,
                       tools |-> [i \in DOMAIN calls(failed) |-> calls(failed)[i].name]]]
               ELSE answer' = answer
    BY <1>7 DEF CallTool
  <2>2. at[a] \in Early  BY <1>7 DEF CallTool, Early
  <2>3. run'[a].stated = run[a].stated /\ \A b \in Asks \ {a} : run'[b] = run[b]
    BY <1>0, <2>1 DEF IsRun
  <2>4. /\ \A b \in Asks \ {a} : answer'[b] = answer[b]
        /\ answer'[a] = answer[a] \/ answer'[a].door # "answered"
    BY <1>0, <2>1
  <2> QED BY <2>1, <2>2, <2>3, <2>4
<1>8. CASE Exhausted(a)
  <2>1. Leaves  BY <1>0, <1>8 DEF Exhausted, Leave, From, Early
  <2> QED BY <2>1
<1>9. CASE Retry(a)
  <2>1. /\ run' = [run EXCEPT ![a].retried = TRUE, ![a].stated = <<>>]
        /\ From(a, "verify", "loop") /\ answer' = answer
    BY <1>9 DEF Retry, Keeps
  <2>2. run'[a].stated = <<>> /\ \A b \in Asks \ {a} : run'[b] = run[b]
    BY <1>0, <2>1 DEF IsRun
  <2>3. Stays  BY <2>1, <2>2 DEF From, Early
  <2> QED BY <2>3
<1> HIDE DEF Stated
<1> QED BY <1>1, <1>2, <1>3, <1>4, <1>5, <1>6, <1>7, <1>8, <1>9 DEF Works

LEMMA WorksKeepShipped ==
  ASSUME FailuresInv, ShippedInv, NEW a \in Asks, Works(a)
  PROVE  ShippedInv'
<1>0. at \in [Asks -> Steps] /\ answer = [b \in Asks |-> answer[b]]  BY DEF FailuresInv
<1>1. AreFindings(run[a].stated) /\ (at[a] \in Early => answer[a].door # "answered")
  BY DEF ShippedInv
<1>2. CASE ~Deliver(a)
  <2>1. PICK there : at' = [at EXCEPT ![a] = there]  BY <1>2, StagesState
  <2>2. at[a] \in Early /\ \A b \in Asks \ {a} : run'[b] = run[b] /\ answer'[b] = answer[b]
    BY <1>2, StagesState
  <2>3. answer'[a].door # "answered"
    BY <1>1, <1>2, StagesState
  <2>4. \/ run'[a].stated = run[a].stated
        \/ run'[a].stated = <<>>
        \/ \E type, loaded, procedures, contradicts :
             run'[a].stated = ScriptedFinal(type, loaded, procedures, contradicts)
        \/ run'[a].stated \in Finals
    BY <1>2, StagesState
  <2>5. AreFindings(run'[a].stated)
    BY <1>1, <2>4, NothingStated, ScriptedStates, AgentAssumption
  <2> QED BY <1>0, <2>1, <2>2, <2>3, <2>5, ShippedByStep
<1>3. CASE Deliver(a)
  <2>1. PICK kept, caveats :
          /\ kept = Checked(a).kept
          /\ caveats = IF Checked(a).failed # {} THEN {"removed"} ELSE {}
          /\ Leave(a, "verify", "answered", Compose(Stamped(run[a].stated), kept, SummaryAfter),
                   caveats, Called(a))
    BY <1>3 DEF Deliver
  <2>2. run' = run  BY <1>3 DEF Deliver
  <2>3. at' = [at EXCEPT ![a] = "storing"]  BY <2>1 DEF Leave, From
  <2>4. /\ answer'[a].findings = Compose(Stamped(run[a].stated), Checked(a).kept, SummaryAfter)
        /\ caveats \subseteq answer'[a].caveats
        /\ \A b \in Asks \ {a} : answer'[b] = answer[b]
    BY <1>0, <2>1 DEF Leave
  <2>5. Backed(run[a], answer'[a])
    <3>1. Checked(a).failed # {} => "removed" \in answer'[a].caveats  BY <2>1, <2>4
    <3> QED BY <1>1, <2>4, <3>1, VerifiedIsBacked DEF Checked, Loaded
  <2>6. at'[a] \notin Early  BY <1>0, <2>3 DEF Early
  <2> QED BY <1>0, <1>1, <2>2, <2>3, <2>4, <2>5, <2>6, ShippedByStep
<1> QED BY <1>2, <1>3

LEMMA NextShipped == FailuresInv /\ ShippedInv /\ [Next]_vars => ShippedInv'
<1> SUFFICES ASSUME FailuresInv, ShippedInv, [Next]_vars PROVE ShippedInv'  OBVIOUS
<1>1. CASE UNCHANGED vars
  <2>1. UNCHANGED <<at, run, answer>>  BY <1>1 DEF vars
  <2> QED BY <2>1 DEF ShippedInv, Backed
<1>2. CASE Next
  <2>1. PICK a \in Asks : Request(a) \/ Stage(a) \/ Break(a) \/ GiveFeedback(a)
    BY <1>2 DEF Next
  <2>2. CASE Request(a) \/ AnsweredReads(a) \/ AnsweredCommits(a) \/ SendAnswer(a) \/ GiveFeedback(a)
    BY <2>2, RequestsKeepShipped
  <2>3. CASE Works(a)  BY <2>3, WorksKeepShipped
  <2>4. CASE Break(a)
    <3>1. /\ at' = [at EXCEPT ![a] = "failed"]
          /\ \A b \in Asks \ {a} : run'[b] = run[b] /\ answer'[b] = answer[b]
          /\ run'[a] = NoRun /\ answer'[a] = NoAnswer
      BY <2>4 DEF Break, FailuresInv
    <3>2. run'[a].stated = <<>> /\ answer'[a].door # "answered"
      BY <3>1 DEF NoRun, NoAnswer
    <3>3. AreFindings(run'[a].stated)  BY <3>2, NothingStated
    <3>4. at \in [Asks -> Steps]  BY DEF FailuresInv
    <3> QED BY <3>1, <3>2, <3>3, <3>4, ShippedByStep
  <2> QED BY <2>1, <2>2, <2>3, <2>4 DEF Stage, Works
<1> QED BY <1>1, <1>2

\* Whatever a model states, and however often a finding is repeated, summarised or dropped:
\* what is shown rests on citations that open in this run, and says so when a claim was
\* removed (citations.py: keep; compose.py: compose; pipeline.py: the verification).
THEOREM ShippedClaimsAreBacked == Spec => []ShippedClaimsResolve
<1>1. Init => FailuresInv /\ ShippedInv  BY InitFailures, InitShipped
<1>2. FailuresInv /\ ShippedInv /\ [Next]_vars => (FailuresInv /\ ShippedInv)'
  BY NextFailures, NextShipped
<1>3. ShippedInv => ShippedClaimsResolve
  BY DEF ShippedInv, Backed, ShippedClaimsResolve, Checked, Loaded
<1> QED BY <1>1, <1>2, <1>3, PTL DEF Spec

=============================================================================
