------------------------------ MODULE MCAgent ------------------------------
(* The instance of Agent that TLC checks.                                    *)
EXTENDS Agent, TLC

CONSTANTS a1, a2, s0, s1

MCTokens == {a1 :> "u1" @@ a2 :> u : u \in {"u1", "u2"}}
MCOpenBefore == s0 :> "u1"

MCVocabulary == [key \in FACET_KEYS |-> IF key = "stations" THEN {"S1", "S2"} ELSE {}]

Names(stations) == [NoFacets EXCEPT !["stations"] = stations]
Reply(type, phrase, singular, readings, ranked, named) ==
  [question_type |-> type, phrase |-> phrase, singular |-> singular, readings |-> readings,
   ranked |-> ranked, named |-> named]

Stop == Reply("stop_investigation", "none", TRUE, <<>>, TRUE, Names({"S2", "S9"}))
Figures == Reply("statistics", "known", FALSE, <<"statistics", "status">>, TRUE, NoFacets)
Ambiguous == Reply("stop_investigation", "known", FALSE, <<"stop_investigation", "statistics">>, FALSE, NoFacets)
Command == Reply("out_of_scope", "unknown", FALSE, <<>>, TRUE, NoFacets)

\* One question is investigated, the other is not: what they share are the tables.
MCReplies == a1 :> {NoReply, Stop, Figures, Ambiguous} @@ a2 :> {Command}

Doc(id, always, types, stations, size) ==
  [id |-> id, always_load |-> always, size |-> size,
   applies_to |-> [NoFacets EXCEPT !["question_types"] = types, !["stations"] = stations]]

\* The method; two procedures; two documents about S2 of which one fits.
MCTree == <<Doc(1, TRUE, {}, {}, 9), Doc(2, FALSE, {"stop_investigation"}, {}, 2),
            Doc(3, FALSE, {"statistics"}, {}, 1), Doc(4, FALSE, {}, {"S2"}, 2),
            Doc(5, FALSE, {"stop_investigation"}, {"S1", "S2"}, 3)>>
MCRetrievalBudget == [documents |-> 2, characters |-> 4]
MCSopIds == [stop |-> 2, intervention |-> 5]

MCRows == {<<"stop", "stop">>, <<"part", "part">>}
MCTurns == {<<>>, <<"list_stops", "inspection_stats">>}

Good == Claim("good", "measured", {Cites("part", {"part"}), Cites("chart", {<<"inspection_stats", 1>>})})
Invented == Claim("invented", "derived", {Cites("part", {"invented"}), Cites("part", {"part"})})
Unread == Claim("unread", "hypothesis", {Cites("sop", {5})})
MCFinals == {<<Good, Invented>>, <<Good, Unread>>}
=============================================================================
