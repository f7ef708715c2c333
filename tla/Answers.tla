------------------------------- MODULE Answers -------------------------------
(***************************************************************************)
(* The answer side of the agent, as pure operators: what a classification  *)
(* is made of, which citations resolve and what a failed one takes with    *)
(* it, how the findings are composed, and the scripted provider's moves    *)
(* (agent/classify.py, answer.py, citations.py, compose.py,                *)
(* providers_scripted.py).                                                 *)
(*                                                                         *)
(* A finding is [statement, basis, cites]; a citation is                   *)
(* [kind, ids, windowed], its ids being what its endpoint is asked for: a  *)
(* row, a document, or the tool calls a chart is drawn from.  A tool call  *)
(* is [id, name, failed].                                                  *)
(***************************************************************************)
EXTENDS Routing

QUESTION_TYPES == {"stop_investigation", "quality_investigation", "status", "trend",
                   "statistics", "traceability", "knowledge", "out_of_scope"}

-----------------------------------------------------------------------------
(* Stage 1.  A reply of the model is [question_type, phrase, singular,       *)
(* readings, ranked, named]; named maps the facet keys to what it mentions.  *)

\* What a model that does not call the tool has said.
NoReply == [question_type |-> "unclassifiable", phrase |-> "none", singular |-> FALSE,
            readings |-> <<>>, ranked |-> TRUE, named |-> NoFacets]

\* The reply checked against the vocabulary: an unknown type falls back to "knowledge", what
\* the line does not have is kept out of the facets and in "unknown".
ClassificationOf(reply, vocabulary) ==
  LET fallback == reply.question_type \notin QUESTION_TYPES
      type == IF fallback THEN "knowledge" ELSE reply.question_type
  IN [question_type |-> type,
      facets |-> [key \in FACET_KEYS |-> IF key = "question_types" THEN {type}
                                         ELSE reply.named[key] \cap vocabulary[key]],
      phrase |-> reply.phrase,
      singular |-> reply.singular,
      readings |-> SelectSeq(reply.readings, LAMBDA r : r \in QUESTION_TYPES),
      ranked |-> reply.ranked,
      fallback |-> fallback,
      unknown |-> \E key \in FACET_KEYS \ {"question_types"} :
                    reply.named[key] \ vocabulary[key] # {}]

\* Ask only when the readings lead to different investigations and none is more likely.
AskBack(class) == ~class.ranked /\ Cardinality(Range(class.readings)) > 1

-----------------------------------------------------------------------------
(* Stage 6.                                                                  *)

\* Of the shape the answer's schema lets through.
IsFinding(f) ==
  /\ f = [statement |-> f.statement, basis |-> f.basis, cites |-> f.cites]
  /\ \A c \in f.cites : c = [kind |-> c.kind, ids |-> c.ids, windowed |-> c.windowed]

AreFindings(s) == s \in Seq(Range(s)) /\ \A f \in Range(s) : IsFinding(f)

WINDOWED == {"pattern", "signal", "chart"}

\* The run's own window goes onto the kinds that take one and off the others.
Stamped(findings) ==
  [i \in DOMAIN findings |->
     [findings[i] EXCEPT !.cites = {[c EXCEPT !.windowed = c.kind \in WINDOWED] : c \in @}]]

\* The record a call id stands for: of several with one id, the last.
MadeAs(calls, id) == LET n == Max({i \in DOMAIN calls : calls[i].id = id}) IN calls[n]

\* resolves: a chart needs calls this run made and that answered; a procedure has to exist
\* and to have been loaded; any other kind has to open, each of its ids.
Resolves(c, rows, documents, loaded, calls) ==
  CASE c.kind = "chart" ->
         \A id \in c.ids : /\ \E i \in DOMAIN calls : calls[i].id = id
                           /\ ~MadeAs(calls, id).failed
    [] c.kind = "sop" -> c.ids \subseteq loaded /\ c.ids \subseteq documents
    [] OTHER -> \A id \in c.ids : <<c.kind, id>> \in rows

\* Mutant of Keep: the claim would ship with the citations that did resolve.
KeepTrimmed(findings, rows, documents, loaded, calls) ==
  LET ok(c) == Resolves(c, rows, documents, loaded, calls) IN
  [kept |-> DOMAIN findings,
   failed |-> {c \in UNION {findings[i].cites : i \in DOMAIN findings} : ~ok(c)}]

\* keep: a finding goes when one of its own citations fails. Findings are named by position.
Keep(findings, rows, documents, loaded, calls) ==
  LET ok(c) == Resolves(c, rows, documents, loaded, calls) IN
  [kept |-> {i \in DOMAIN findings : \A c \in findings[i].cites : ok(c)},
   failed |-> {c \in UNION {findings[i].cites : i \in DOMAIN findings} : ~ok(c)}]

-----------------------------------------------------------------------------
(* Stage 6.5.                                                                *)

Certainty == [measured |-> 0, derived |-> 1, hypothesis |-> 2]
SUMMARY == "In short:"

\* Two findings that say the same thing are one: the first of them.
Collapse(findings, kept) ==
  {i \in kept : \A j \in kept : j < i => findings[j].statement # findings[i].statement}

\* The union of what it summarises, on the least certain basis of theirs.
Summarise(leads) ==
  [statement |-> SUMMARY,
   basis |-> CHOOSE b \in {f.basis : f \in leads} : \A f \in leads : Certainty[f.basis] <= Certainty[b],
   cites |-> UNION {f.cites : f \in leads}]

\* What a sequence has at these positions, in its order.
Picked(s, positions) ==
  [n \in 1 .. Cardinality(positions) |->
     s[CHOOSE i \in positions : Cardinality({j \in positions : j <= i}) = n]]

\* What ships: the findings with sources lead, the others support them, and from
\* summaryAfter findings on a summary of the leading ones stands before both.
Compose(findings, kept, summaryAfter) ==
  LET ordered == Collapse(findings, kept)
      cited == {i \in ordered : findings[i].cites # {}}
      leads == IF cited # {} THEN cited ELSE {i \in ordered : \A j \in ordered : i <= j}
  IN (IF Cardinality(ordered) >= summaryAfter /\ leads # {}
        THEN <<Summarise({findings[i] : i \in leads})>> ELSE <<>>)
       \o Picked(findings, leads) \o Picked(findings, ordered \ leads)

-----------------------------------------------------------------------------
(* The scripted provider.  It decides on the latest result of each tool in   *)
(* its transcript and asks again for one that came back an error.            *)

Answered(calls, name) ==
  \E i \in DOMAIN calls : /\ calls[i].name = name /\ ~calls[i].failed
                          /\ \A j \in DOMAIN calls : calls[j].name = name => j <= i

\* The tools of each investigation, in the order it asks for them; only the kinds of
\* question listed here reach for one.
Investigation(type) ==
  CASE type = "stop_investigation" -> <<"list_stops", "get_stop">>
    [] type = "status" -> <<"line_status">>
    [] type = "trend" -> <<"signal_trend">>
    [] type = "traceability" -> <<"get_part">>
    [] type \in {"statistics", "quality_investigation"} -> <<"inspection_stats">>
    [] OTHER -> <<>>

Cites(kind, ids) == [kind |-> kind, ids |-> ids, windowed |-> FALSE]
Claim(statement, basis, cites) == [statement |-> statement, basis |-> basis, cites |-> cites]

\* The stop, and the procedure that says how to read it when routing loaded it.
CiteStop(loaded, procedure) == {Cites("stop", {"stop"})} \cup
  {Cites("sop", {d}) : d \in {procedure} \cap loaded}

\* The findings each investigation can state; the contradiction of a computed root rests on
\* its own procedure.
ScriptedFinal(type, loaded, procedures, contradicts) ==
  CASE type = "stop_investigation" ->
         <<Claim("stood", "measured", CiteStop(loaded, procedures.stop)),
           Claim("root", "derived", CiteStop(loaded, procedures.stop))>>
         \o (IF contradicts
               THEN <<Claim("contradiction", "hypothesis", CiteStop(loaded, procedures.intervention))>>
               ELSE <<>>)
    [] type \in {"statistics", "quality_investigation"} ->
         <<Claim("rejected", "measured", {Cites("part", {"part"})}),
           Claim("by class", "measured", {Cites("chart", {<<"inspection_stats", 1>>})}),
           Claim("without a class", "measured", {})>>
    [] type = "traceability" -> <<Claim("traced", "measured", {Cites("part", {"part"})})>>
    [] type \in {"status", "trend"} -> <<Claim("reported", "measured", {})>>
    [] OTHER -> <<>>
=============================================================================
