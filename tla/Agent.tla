-------------------------------- MODULE Agent --------------------------------
(***************************************************************************)
(* Questions put to the agent at the same time: the session tables they    *)
(* share, and for each of them the staged pipeline between its question's  *)
(* row and its answer's (agent/app.py, sessions.py, pipeline.py).          *)
(*                                                                         *)
(* A step of a question ends at an await.  Every transaction reads under   *)
(* READ COMMITTED, so what an INSERT computes from the table may be stale  *)
(* by the time it is written; the primary key then refuses it.             *)
(***************************************************************************)
EXTENDS Answers

CONSTANTS
  Asks,              \* the questions
  Tokens,            \* question -> the subject of the token it comes with: the cases
  SessionIds,        \* ids of sessions
  OpenBefore,        \* sessions opened before: id -> subject
  Replies,           \* question -> what the model may classify it as
  Turns,             \* what one turn of an investigating model may ask for
  Finals,            \* what a model may answer with
  Tree,              \* the knowledge index
  RetrievalBudget, Vocabulary,
  SopIds,            \* the documents the scripted provider cites: [stop, intervention]
  Rows,              \* what can be opened in the database: <<kind, id>>
  ToolBudget, ToolFailureLimit, SummaryAfter,
  MaxFeedback        \* bound: messages given feedback

ASSUME AgentAssumption ==
  /\ ToolBudget \in Nat \ {0} /\ ToolFailureLimit \in Nat \ {0} /\ SummaryAfter \in Nat \ {0}
  /\ MaxFeedback \in Nat /\ \A final \in Finals : AreFindings(final)

VARIABLES
  sessions,   \* agent.sessions: id -> subject, for the ids in use
  messages,   \* agent.messages: rows [session, seq, role, ask]
  traces,     \* agent.traces: rows [session, seq, ask, calls, sops]
  feedback,   \* agent.feedback: rows [session, seq, useful, matched]
  at,         \* per question: the step it is at
  exchange,   \* per question: [session, seq] its stream named first, or NoExchange
  number,     \* per question: the number the running INSERT computed
  run,        \* per question: the pipeline's own state
  answer,     \* per question: the answer it built, or NoAnswer
  AskedBy,    \* question -> the subject of its token
  provider    \* the provider the deployment selected

tables == <<sessions, messages, traces, feedback>>
config == <<AskedBy, provider>>
vars == <<tables, at, exchange, number, run, answer, config>>

NoExchange == [session |-> "none", seq |-> 0]
NoAnswer == [door |-> "none", findings |-> <<>>, caveats |-> {}, tools |-> <<>>]
NoRun == [class |-> ClassificationOf(NoReply, Vocabulary), sel |-> [documents |-> <<>>, dropped |-> <<>>],
          caveats |-> {}, calls |-> <<>>, pending |-> <<>>, turns |-> 0, failures |-> 0,
          retried |-> FALSE, stated |-> <<>>]
Unset == "null"

Init ==
  /\ sessions = OpenBefore
  /\ messages = {} /\ traces = {} /\ feedback = {}
  /\ at = [a \in Asks |-> "idle"]
  /\ exchange = [a \in Asks |-> NoExchange]
  /\ number = [a \in Asks |-> 0]
  /\ run = [a \in Asks |-> NoRun]
  /\ answer = [a \in Asks |-> NoAnswer]
  /\ provider \in {"scripted", "anthropic"} /\ AskedBy \in Tokens

From(a, here, there) == at[a] = here /\ at' = [at EXCEPT ![a] = there]
Keeps == UNCHANGED <<tables, exchange, number, answer, config>>

SeqsOf(session) == {m.seq : m \in {n \in messages : n.session = session}}

\* COALESCE(MAX(seq), 0) + 1
NextSeq(session) == Max({0} \cup SeqsOf(session)) + 1

-----------------------------------------------------------------------------
(* POST /ask                                                                 *)

\* A session named and somebody else's: 403, and nothing is written.
Refuse(a) ==
  /\ From(a, "idle", "refused")
  /\ \E s \in SessionIds \cap DOMAIN sessions : sessions[s] # AskedBy[a]
  /\ Keeps /\ UNCHANGED run

\* subject_of: the session named is the asker's, or nobody has opened it. A client may name
\* any id.
MayAsk(a) ==
  /\ From(a, "idle", "remembering")
  /\ \E s \in SessionIds : /\ s \in DOMAIN sessions => sessions[s] = AskedBy[a]
                           /\ exchange' = [exchange EXCEPT ![a].session = s]
  /\ UNCHANGED <<tables, number, run, answer, config>>

\* The ids that a database asked for a new one may still give.
Fresh == SessionIds \ (DOMAIN sessions \cup {exchange[a].session : a \in Asks})

\* remember, a transaction of its own: ON CONFLICT DO NOTHING leaves a session that somebody
\* opened by now to whoever did; without a session named, a new one.
Remember(a) ==
  /\ \E s \in SessionIds :
       /\ \/ From(a, "remembering", "asking") /\ s = exchange[a].session
          \/ From(a, "idle", "asking") /\ s \in Fresh
       /\ exchange' = [exchange EXCEPT ![a].session = s]
       /\ sessions' = [x \in DOMAIN sessions \cup {s} |->
                         IF x \in DOMAIN sessions THEN sessions[x] ELSE AskedBy[a]]
  /\ UNCHANGED <<messages, traces, feedback, number, run, answer, config>>

\* The number an INSERT ... SELECT computes from its snapshot.
Snapshot(a, here, there) ==
  /\ From(a, here, there)
  /\ number' = [number EXCEPT ![a] = NextSeq(exchange[a].session)]
  /\ UNCHANGED <<tables, exchange, run, answer, config>>

AskedReads(a) == Snapshot(a, "asking", "inserting")

\* asked commits, and the stream opens with the exchange; or the primary key refuses the row
\* and the request fails with a status code.
AskedInserts(a) ==
  LET s == exchange[a].session IN
  /\ IF number[a] \in SeqsOf(s)
       THEN From(a, "inserting", "failed") /\ UNCHANGED <<messages, exchange>>
       ELSE /\ From(a, "inserting", "classify")
            /\ messages' = messages \cup {[session |-> s, seq |-> number[a], role |-> "user", ask |-> a]}
            /\ exchange' = [exchange EXCEPT ![a].seq = number[a]]
  /\ UNCHANGED <<sessions, traces, feedback, number, run, answer, config>>

-----------------------------------------------------------------------------
(* Stages 1 to 4                                                             *)

Loaded(a) == IdsOf(run[a].sel.documents)

\* Stages 1 and 4: classify, and route the documents the question gets.
Classify(a) ==
  /\ From(a, "classify", "routed")
  /\ \E reply \in Replies[a] :
       LET class == ClassificationOf(reply, Vocabulary)
           sel == Route(Tree, class.facets, RetrievalBudget)
       IN run' = [run EXCEPT ![a].class = class, ![a].sel = sel,
                    ![a].caveats = {c \in {"disclosure", "unclassified", "correction", "dropped"} :
                                      CASE c = "disclosure" -> provider = "scripted"
                                        [] c = "unclassified" -> class.fallback
                                        [] c = "correction" -> class.unknown
                                        [] c = "dropped" -> sel.dropped # <<>>}]
  /\ Keeps

\* The answer of a door: what a run leaves by.
Leave(a, here, door, findings, caveats, tools) ==
  /\ From(a, here, "storing")
  /\ answer' = [answer EXCEPT ![a] = [door |-> door, findings |-> findings,
                                      caveats |-> run[a].caveats \cup caveats, tools |-> tools]]
  /\ UNCHANGED <<tables, exchange, number, config>>

Called(a) == [i \in DOMAIN run[a].calls |-> run[a].calls[i].name]

\* Declined or asked back before anything reaches for a tool.
NoInvestigation(a) == AskBack(run[a].class) \/ run[a].class.question_type = "out_of_scope"

AnswerWithoutTools(a) ==
  /\ NoInvestigation(a)
  /\ Leave(a, "routed", IF AskBack(run[a].class) THEN "asked back" ELSE "declined", <<>>,
           IF Len(run[a].class.readings) > 1 /\ ~AskBack(run[a].class) THEN {"assumed reading"} ELSE {},
           <<>>)
  /\ UNCHANGED run

\* Stage 2: the calendar's window for the phrase, or the default one and a caveat.
ReadWindow(a) ==
  /\ ~NoInvestigation(a)
  /\ From(a, "routed", "covering")
  /\ run' = [run EXCEPT ![a].caveats = @ \cup (IF run[a].class.phrase = "known" THEN {} ELSE {"window"})
                                       \cup (IF Len(run[a].class.readings) > 1 THEN {"assumed reading"} ELSE {})]
  /\ Keeps

\* Stage 3: a guard over what the window holds.
Covered(a) ==
  /\ From(a, "covering", "loop")
  /\ \E gaps \in BOOLEAN :
       run' = [run EXCEPT ![a].caveats = @ \cup (IF gaps THEN {"gaps"} ELSE {})]
  /\ Keeps

\* Nothing was recorded: the line's status says where the nearest data is.
NoData(a) == Leave(a, "covering", "no data", <<>>, {"no data"}, <<"line_status">>) /\ UNCHANGED run

-----------------------------------------------------------------------------
(* Stage 5: the tool loop                                                    *)

Says(a, pending, stated, there) ==
  /\ From(a, "loop", there)
  /\ run' = [run EXCEPT ![a].turns = @ + 1, ![a].pending = pending, ![a].stated = stated]

\* The next tool of a scripted investigation that has not answered; a question that names no
\* serial, or a window that holds no stop, ends it early.
ScriptedNext(a, short) ==
  LET asks == Investigation(run[a].class.question_type)
      open == {i \in DOMAIN asks : ~Answered(run[a].calls, asks[i])}
  IN IF open = {} THEN <<>>
     ELSE LET i == Min(open) IN
          IF short /\ (asks[i] \in {"get_stop", "get_part"}) THEN <<>> ELSE <<asks[i]>>

\* One turn: the model asks for tools, answers, or writes something nothing reads.
Turn(a) ==
  /\ run[a].turns < ToolBudget
  /\ \/ /\ provider = "scripted"
        /\ \E short \in BOOLEAN, contradicts \in BOOLEAN :
             LET next == ScriptedNext(a, short)
                 type == run[a].class.question_type
             IN IF next # <<>> THEN Says(a, next, <<>>, "tools")
                ELSE Says(a, <<>>, IF short /\ type \in {"stop_investigation", "traceability"} THEN <<>>
                                   ELSE ScriptedFinal(type, Loaded(a), SopIds, contradicts), "verify")
     \/ /\ provider = "anthropic"
        /\ \/ \E names \in Turns : Says(a, names, <<>>, IF names = <<>> THEN "loop" ELSE "tools")
           \/ \E final \in Finals : Says(a, <<>>, final, "verify")
  /\ Keeps

\* The id of a call: the scripted provider's is the tool's name, a model's is its own.
CallId(a, name) ==
  IF provider = "scripted" THEN <<name, 1>>
  ELSE <<name, Cardinality({i \in DOMAIN run[a].calls : run[a].calls[i].name = name}) + 1>>

\* Mutant of Failures: a call that answered would not end the run of failures.
FailuresInTotal(a, failed) == run[a].failures + (IF failed THEN 1 ELSE 0)

\* Consecutive, not total.
Failures(a, failed) == IF failed THEN run[a].failures + 1 ELSE 0

\* One tool call: it answers, is refused, or the service is not reached; the last two go
\* back to the model, and too many of them in a row end the run.
CallTool(a) ==
  /\ at[a] = "tools"
  /\ \E failed \in BOOLEAN, several \in BOOLEAN :
       LET name == Head(run[a].pending)
           left == Tail(run[a].pending)
           failures == Failures(a, failed)
           calls == Append(run[a].calls, [id |-> CallId(a, name), name |-> name, failed |-> failed])
           noted == several /\ ~failed /\ name = "list_stops" /\ run[a].class.singular
           aborts == failed /\ failures >= ToolFailureLimit
           after == [run[a] EXCEPT !.calls = calls, !.failures = failures, !.pending = left,
                                   !.caveats = @ \cup (IF noted THEN {"stop"} ELSE {})]
       IN /\ several => name = "list_stops" /\ ~failed
          /\ run' = [run EXCEPT ![a] = after]
          /\ at' = [at EXCEPT ![a] = IF aborts THEN "storing" ELSE IF left = <<>> THEN "loop" ELSE "tools"]
          /\ answer' = IF ~aborts THEN answer
                       ELSE [answer EXCEPT ![a] = [door |-> "aborted", findings |-> <<>>,
                               caveats |-> after.caveats \cup {"aborted"},
                               tools |-> [i \in DOMAIN calls |-> calls[i].name]]]
  /\ UNCHANGED <<tables, exchange, number, config>>

\* The budget is spent: a partial answer that says so.
Exhausted(a) ==
  /\ run[a].turns = ToolBudget
  /\ Leave(a, "loop", "exhausted", <<>>, {"exhausted"}, Called(a))
  /\ UNCHANGED run

-----------------------------------------------------------------------------
(* Stages 6 and 7                                                            *)

Checked(a) == Keep(Stamped(run[a].stated), Rows, IdsOf(Tree), Loaded(a), run[a].calls)

MayRetry(a) == Checked(a).failed # {} /\ ~run[a].retried

\* Mutant of Retry: the retry would cost no turn and not be remembered.
RetryForFree(a) ==
  /\ MayRetry(a)
  /\ From(a, "verify", "loop")
  /\ run' = [run EXCEPT ![a].turns = @ - 1, ![a].stated = <<>>]
  /\ Keeps

\* The labels go back to the model once, for one more turn of the budget.
Retry(a) ==
  /\ MayRetry(a)
  /\ From(a, "verify", "loop")
  /\ run' = [run EXCEPT ![a].retried = TRUE, ![a].stated = <<>>]
  /\ Keeps

\* What is left is composed and delivered; a removal is a caveat.
Deliver(a) ==
  /\ ~MayRetry(a)
  /\ \E kept \in {Checked(a).kept} :
       Leave(a, "verify", "answered", Compose(Stamped(run[a].stated), kept, SummaryAfter),
             IF Checked(a).failed # {} THEN {"removed"} ELSE {}, Called(a))
  /\ UNCHANGED run

-----------------------------------------------------------------------------
(* The answer's row, its trace, and its event                                *)

AnsweredReads(a) == Snapshot(a, "storing", "committing")

\* Mutant of TraceAddress: the trace would hang off the answer's row.
TraceAddressOfTheAnswer(a) == number[a]

\* The trace is addressed by the question's number, promised before the run.
TraceAddress(a) == exchange[a].seq

\* answered: the assistant's row and the trace in one transaction, or neither.
AnsweredCommits(a) ==
  LET s == exchange[a].session IN
  /\ IF number[a] \in SeqsOf(s)
       THEN From(a, "committing", "failed") /\ UNCHANGED <<messages, traces>>
       ELSE /\ From(a, "committing", "stored")
            /\ messages' = messages \cup {[session |-> s, seq |-> number[a], role |-> "assistant", ask |-> a]}
            /\ traces' = traces \cup {[session |-> s, seq |-> TraceAddress(a), ask |-> a,
                                       calls |-> run[a].calls, sops |-> Loaded(a)]}
  /\ UNCHANGED <<sessions, feedback, exchange, number, run, answer, config>>

SendAnswer(a) == From(a, "stored", "shown") /\ Keeps /\ UNCHANGED run

Streaming == {"classify", "routed", "covering", "loop", "tools", "verify", "storing", "committing", "stored"}

\* A fault no stage recovers from (the model or the database unreachable, a verification
\* that cannot tell, an answer of the wrong shape), or the client goes away.
Break(a) ==
  /\ at[a] \in Streaming
  /\ at' = [at EXCEPT ![a] = "failed"]
  /\ run' = [run EXCEPT ![a] = NoRun]
  /\ answer' = [answer EXCEPT ![a] = NoAnswer]
  /\ UNCHANGED <<tables, exchange, number, config>>

-----------------------------------------------------------------------------
(* GET .../trace and POST .../feedback                                       *)

\* _owned: the message exists and its session is the caller's.
Owned(who, s, seq) == s \in DOMAIN sessions /\ sessions[s] = who /\ seq \in SeqsOf(s)

\* What the trace endpoint answers the caller: the trace, or none.
TraceOf(who, s, seq) == {t \in traces : Owned(who, s, seq) /\ t.session = s /\ t.seq = seq}

\* The row the upsert leaves: a column not answered this time stays as it was.
Merged(given, stored) == IF given = Unset THEN stored ELSE given

\* The screen asks under an answer it has shown; the endpoint takes it for the address the
\* stream named.
GiveFeedback(a) ==
  /\ at[a] = "shown"
  /\ \E useful \in {Unset, "yes"} : \E matched \in IF useful = Unset THEN {"no"} ELSE {Unset} :
       LET s == exchange[a].session
           seq == exchange[a].seq
           before == {f \in feedback : f.session = s /\ f.seq = seq}
           was == IF before = {} THEN [useful |-> Unset, matched |-> Unset]
                  ELSE CHOOSE f \in before : TRUE
       IN /\ Owned(AskedBy[a], s, seq)
          /\ before # {} \/ Cardinality(feedback) < MaxFeedback
          /\ feedback' = (feedback \ before) \cup
               {[session |-> s, seq |-> seq, useful |-> Merged(useful, was.useful),
                 matched |-> Merged(matched, was.matched)]}
  /\ UNCHANGED <<sessions, messages, traces, at, exchange, number, run, answer, config>>

-----------------------------------------------------------------------------
Request(a) == Refuse(a) \/ MayAsk(a) \/ Remember(a) \/ AskedReads(a) \/ AskedInserts(a)

Stage(a) ==
  \/ Classify(a) \/ AnswerWithoutTools(a) \/ ReadWindow(a) \/ Covered(a) \/ NoData(a)
  \/ Turn(a) \/ CallTool(a) \/ Exhausted(a) \/ Retry(a) \/ Deliver(a)
  \/ AnsweredReads(a) \/ AnsweredCommits(a) \/ SendAnswer(a)

Next == \E a \in Asks : Request(a) \/ Stage(a) \/ Break(a) \/ GiveFeedback(a)

Spec == Init /\ [][Next]_vars

\* The event loop runs every stream that can go on; every call out of it has a timeout.
Fairness == \A a \in Asks : WF_vars(at[a] \in Streaming /\ Stage(a))

FairSpec == Spec /\ Fairness

-----------------------------------------------------------------------------
\* What a stream names first stays good, whatever else is asked into the session, under an
\* id that others may be naming too: that number is this question's row, no number is used
\* twice or skipped, and once the answer is shown the trace endpoint gives the session's owner
\* exactly the trace of this very run, and nobody else any (sessions.py: "What addresses an
\* exchange is the question's `seq`"). The owner is the one asker whose question opened the
\* session, and a session opened before takes nobody else's question. The asker is not always
\* the owner: of two that name one unopened id both may pass the check, and the one that loses
\* the insert asks into the other's session (sessions.py:100 says that what subject_of read
\* cannot go stale).
ExchangeKeepsItsAddress ==
  /\ \A m, n \in messages : m.session = n.session /\ m.seq = n.seq => m = n
  /\ \A s \in DOMAIN sessions :
       /\ SeqsOf(s) = 1 .. Cardinality(SeqsOf(s))
       /\ IF s \in DOMAIN OpenBefore
            THEN /\ sessions[s] = OpenBefore[s]
                 /\ \A m \in messages : m.session = s => AskedBy[m.ask] = OpenBefore[s]
            ELSE \E a \in Asks : exchange[a].session = s /\ sessions[s] = AskedBy[a]
  /\ \A a \in Asks :
       LET s == exchange[a].session  seq == exchange[a].seq IN
       /\ seq > 0 => [session |-> s, seq |-> seq, role |-> "user", ask |-> a] \in messages
       /\ at[a] \in {"stored", "shown"} =>
            \A b \in Asks : TraceOf(AskedBy[b], s, seq) =
              IF AskedBy[b] = sessions[s]
                THEN {[session |-> s, seq |-> seq, ask |-> a, calls |-> run[a].calls, sops |-> Loaded(a)]}
                ELSE {}
       /\ \A t \in traces : t.session = s /\ t.seq = seq /\ seq > 0 => t.ask = a
  /\ \A f \in feedback : f.seq \in SeqsOf(f.session)

\* Nothing an answer ships, its summary included, rests on a citation that does not open or
\* on a procedure the run did not load; and an answer that lost a claim says so
\* (citations.py, compose.py: the one retry, the removal, the inherited citations).
ShippedClaimsResolve ==
  \A a \in Asks : answer[a].door = "answered" =>
    /\ \A i \in DOMAIN answer[a].findings : \A c \in answer[a].findings[i].cites :
         /\ Resolves(c, Rows, IdsOf(Tree), Loaded(a), run[a].calls)
         /\ c.windowed = (c.kind \in WINDOWED)
    /\ Checked(a).kept # DOMAIN run[a].stated => "removed" \in answer[a].caveats

\* The run gives up exactly when the trace shows that many failures in a row at its end, and
\* a run that went on shows no such row of them anywhere.
AbortsOnConsecutiveFailures ==
  \A a \in Asks :
    LET calls == run[a].calls
        row(n) == n >= ToolFailureLimit /\ \A i \in (n - ToolFailureLimit + 1) .. n : calls[i].failed
    IN /\ \A n \in DOMAIN calls : row(n) => n = Len(calls) /\ answer[a].door = "aborted"
       /\ answer[a].door = "aborted" => row(Len(calls))

\* A stream that has opened ends: with an answer, or broken, but it does not turn forever.
EveryQuestionEnds == \A a \in Asks : at[a] = "classify" ~> at[a] \in {"shown", "failed"}
=============================================================================
