------------------------------ MODULE Decisions -----------------------------
(***************************************************************************)
(* How one candidate (an underlying and an expiry) becomes cards or a      *)
(* sit-out: the trend (engine/trend_model.py), the strategy matrix and its *)
(* sit-outs (engine/strategy_selector.py), the confidence gate             *)
(* (engine/confidence.py), and the order in which the suggestion engine    *)
(* applies them (_evaluate_underlying).  What the market data say is a     *)
(* record of facts; the gates that only compare one number with one limit  *)
(* are counted or listed in it.                                            *)
(*                                                                         *)
(*   gap         no spot, expiry, chain or ATM IV                          *)
(*   structural, today, ret   labels of the averages, of today's session   *)
(*               and of the last days; "none" without data                 *)
(*   rank        IV rank in tenths, or Unranked;  ivMove  its trajectory   *)
(*   prem        IV over realised volatility in hundredths, or Unpriced    *)
(*   pcr         put-call ratio in hundredths                              *)
(*   quiet, catalyst   a small session range; a high-impact event ahead    *)
(*   gates       soft: soft gates that fail; unsure: those that lack their *)
(*               data; hard: the spread gate fails                         *)
(*   walls       directions with an open-interest wall nearby              *)
(*   near        the calendar's near expiry: found, priced, kind, and the  *)
(*               gates on it                                               *)
(*   weak, thin  strategies that other entry gates veto, and those whose   *)
(*               legs cannot be built                                      *)
(*   score       confidence and edge, compared together                    *)
(***************************************************************************)
EXTENDS Integers, FiniteSets, Sequences

Directions == {"BULLISH", "BEARISH"}
Trends     == Directions \cup {"SIDEWAYS"}
Unranked   == 0 - 1
Unpriced   == 0

Bullish == {"BULL_PUT_SPREAD", "JADE_LIZARD", "BULL_CALL_SPREAD", "LONG_CALL"}
Bearish == {"BEAR_CALL_SPREAD", "BEAR_PUT_SPREAD", "LONG_PUT"}
LongVol == {"LONG_STRADDLE", "LONG_STRANGLE"}
Expansion  == LongVol \cup {"LONG_CALL", "LONG_PUT"}
Strategies == Bullish \cup Bearish \cup LongVol
              \cup {"IRON_CONDOR", "IRON_BUTTERFLY", "CALENDAR_SPREAD"}

Direction(s) == IF s \in Bullish THEN "BULLISH"
                ELSE IF s \in Bearish THEN "BEARISH" ELSE "NEUTRAL"

\* STRATEGY_CONFIG: iv_rank_*, pcr_strong_*, long_vol_entry_gate, the soft gates.
WritingMin == 500
BuyingMax  == 300
ButterflyMin == 700
NakedMax   == 200
LongVolMin == 150
NudgeWidth == 50
StrongBull == 55
StrongBear == 155
ButterflyPrem == 140
LongVolPrem   == 100
SoftMisses == 3
SoftGates  == 9
MayMiss == [s \in Strategies |-> IF s \in {"LONG_CALL", "LONG_PUT"} THEN 0
                                ELSE IF s \in LongVol \cup {"JADE_LIZARD"} THEN 1
                                ELSE SoftGates]

-----------------------------------------------------------------------------
(* The trend. *)

Opposed(a, b) == {a, b} = Directions

\* resolve_trend: today's session lifts a sideways structure, and opposes one.
Resolved(structural, today) ==
  IF today \notin Directions \/ today = structural THEN structural
  ELSE IF structural = "SIDEWAYS" THEN today ELSE "MIXED"

\* apply_return_override: the last days only ever oppose.
Trend(f) ==
  LET effective == Resolved(f.structural, f.today)
  IN IF Opposed(f.structural, f.ret) \/ Opposed(effective, f.ret) THEN "MIXED"
     ELSE effective

-----------------------------------------------------------------------------
(* The strategy. *)

\* effective_iv_rank_for_regime: near a boundary a lasting move decides.
RegimeRank(f) ==
  IF f.ivMove = "rising" /\ f.rank \in BuyingMax .. BuyingMax + NudgeWidth - 1
  THEN BuyingMax - 1
  ELSE IF f.ivMove = "falling" /\ f.rank \in WritingMin - NudgeWidth + 1 .. WritingMin
  THEN WritingMin + 1
  ELSE f.rank

Expands(f) == f.catalyst \/ ~f.quiet

LongVolQualified(f, rank) ==
  \/ f.catalyst
  \/ /\ Trend(f) = "SIDEWAYS" /\ ~f.quiet
     /\ f.prem # Unpriced /\ f.prem <= LongVolPrem
     /\ rank >= LongVolMin

Written(f, rank) ==
  CASE Trend(f) = "SIDEWAYS" ->
         IF rank > ButterflyMin /\ f.prem >= ButterflyPrem THEN "IRON_BUTTERFLY" ELSE "IRON_CONDOR"
    [] Trend(f) = "BULLISH" -> IF f.pcr < StrongBull THEN "JADE_LIZARD" ELSE "BULL_PUT_SPREAD"
    [] Trend(f) = "BEARISH" -> "BEAR_CALL_SPREAD"

Bought(f, rank) ==
  LET naked == rank < NakedMax /\ Expands(f)
  IN CASE Trend(f) = "SIDEWAYS" ->
            IF LongVolQualified(f, rank) THEN "LONG_STRADDLE" ELSE "CALENDAR_SPREAD"
       [] Trend(f) = "BULLISH" ->
            IF naked /\ f.pcr < StrongBull THEN "LONG_CALL"
            ELSE IF LongVolQualified(f, rank) THEN "LONG_STRANGLE" ELSE "BULL_CALL_SPREAD"
       [] Trend(f) = "BEARISH" ->
            IF naked /\ f.pcr > StrongBear THEN "LONG_PUT"
            ELSE IF LongVolQualified(f, rank) THEN "LONG_STRANGLE" ELSE "BEAR_PUT_SPREAD"

\* _select_strategy_matrix, of a candidate with a rank and a trend.
Pick(f) ==
  LET rank == RegimeRank(f)
  IN IF rank > WritingMin THEN Written(f, rank)
     ELSE IF rank < BuyingMax THEN Bought(f, rank)
     ELSE CASE Trend(f) = "BULLISH" -> "BULL_CALL_SPREAD"
            [] Trend(f) = "BEARISH" -> "BEAR_PUT_SPREAD"
            [] Trend(f) = "SIDEWAYS" -> "CALENDAR_SPREAD"

\* enforce_directional_tape_and_wall: today's session or a wall is against it.
Fought(s, f) ==
  /\ Direction(s) \in Directions
  /\ f.today \notin {"none", Direction(s)} \/ Direction(s) \in f.walls

-----------------------------------------------------------------------------
(* The card. *)

AllPassed(g) == ~g.hard /\ g.soft <= SoftMisses

\* _enforce_long_vol_entry_gate.
LongVolGate(s, f) ==
  \/ s \in Expansion /\ ~Expands(f)
  \/ /\ s \in LongVol /\ RegimeRank(f) < BuyingMax
     /\ \/ RegimeRank(f) < LongVolMin /\ ~f.catalyst
        \/ f.prem > LongVolPrem

\* The vetoes of assemble_suggestion that a warning may defer.
Vetoed(s, f, gates) ==
  LongVolGate(s, f) \/ gates.soft + gates.unsure > MayMiss[s] \/ s \in f.weak

\* assemble_suggestion: whether there is a card.
Assembled(s, f, gates, defer) ==
  AllPassed(gates) /\ s \notin f.thin /\ (defer \/ ~Vetoed(s, f, gates))

\* The gates and the kind of expiry the card is built on: a calendar's are those
\* of its near expiry.
GatesOf(f) == IF Pick(f) = "CALENDAR_SPREAD" THEN f.near.gates ELSE f.gates
KindOf(f, kind) == IF Pick(f) = "CALENDAR_SPREAD" THEN f.near.kind ELSE kind

\* What keeps a candidate from being assembled, in the order of the checks.
SitOut(f) ==
  \/ f.gap
  \/ Trend(f) = "MIXED"
  \/ f.rank = Unranked
  \/ Pick(f) = "CALENDAR_SPREAD" /\ ~(f.near.found /\ f.near.priced)
  \/ GatesOf(f).hard

\* A session or a wall against it, or a soft gate too many, defers the other vetoes.
Deferred(s, f) == Fought(s, f) \/ ~AllPassed(GatesOf(f))

\* Mutant of Attempt: the warning of the session and the walls is dropped.
AttemptUnwarned(s, f) ==
  [strategy |-> s, carded |-> Assembled(s, f, GatesOf(f), Deferred(s, f)), warned |-> FALSE]

\* One call of _assemble_sized_suggestion, with the warning it ends with.
Attempt(s, f) ==
  [strategy |-> s, carded |-> Assembled(s, f, GatesOf(f), Deferred(s, f)), warned |-> Fought(s, f)]

\* The primary card and, beside a condor or a butterfly, its two halves
\* (_append_ic_ib_companions).  Every attempt takes a suggestion id.
Attempts(f) ==
  IF SitOut(f) THEN <<>>
  ELSE LET primary == Attempt(Pick(f), f)
       IN IF primary.carded /\ primary.strategy \in {"IRON_CONDOR", "IRON_BUTTERFLY"}
          THEN <<primary, Attempt("BULL_PUT_SPREAD", f), Attempt("BEAR_CALL_SPREAD", f)>>
          ELSE <<primary>>

\* A candidate whose primary card fails, or that had none, leaves a sit-out row.
SitsOut(f) == Attempts(f) = <<>> \/ ~Attempts(f)[1].carded

\* Without live data there is no session, no depth and no trajectory.
AtClose(f) == [f EXCEPT !.today = "none", !.quiet = FALSE, !.ivMove = "flat",
                        !.gates.hard = FALSE, !.near.gates.hard = FALSE]
=============================================================================
