-------------------------- MODULE MCSuggestionLife --------------------------
(* SuggestionLife for TLC, its runs deciding what CardChoice computes. *)
EXTENDS SuggestionLife, CardChoice

MCUnderlyings == <<"FINNIFTY", "NIFTY", "BANKNIFTY">>
MCKinds == <<"Weekly">>
MCNames == Range(MCUnderlyings) \cup Range(MCKinds)

Clear == [soft |-> 0, unsure |-> 0, hard |-> FALSE]
Near  == [found |-> TRUE, priced |-> TRUE, kind |-> "Weekly", gates |-> Clear]

\* A candidate that sits out, and one of high IV without a trend.
Absent == [gap |-> TRUE, structural |-> "SIDEWAYS", today |-> "none", ret |-> "none",
           rank |-> 600, ivMove |-> "flat", prem |-> 110, pcr |-> 100, quiet |-> FALSE,
           catalyst |-> FALSE, gates |-> Clear, walls |-> {}, near |-> Near,
           weak |-> {}, thin |-> {}, score |-> 1]
Condor == [Absent EXCEPT !.gap = FALSE, !.today = "SIDEWAYS", !.thin = {"BEAR_CALL_SPREAD"}]

\* Bullish candidates of high and of middle IV; the session is not always bullish.
Up     == [Condor EXCEPT !.structural = "BULLISH", !.ret = "BULLISH", !.score = 2]
Middle == [Up EXCEPT !.rank = 400, !.today = "BULLISH"]

\* The halves of the condor lose to Up's card of their strategy and to Middle's of
\* their direction.
MCSurveys == {<<Absent, Condor, Up>>, <<Absent, Condor, Middle>>}

MCOutlooks == UNION {{[live |-> l, close |-> c] :
                        l \in Plans({fs}), c \in Plans({[n \in DOMAIN fs |-> AtClose(fs[n])]})} :
                     fs \in MCSurveys}
=============================================================================
