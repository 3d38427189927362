----------------------------- MODULE CardChoice -----------------------------
(***************************************************************************)
(* From what the data say of all the candidates to the cards of one run:   *)
(* the loops of run_eod_suggestions and run_live_suggestions and the first *)
(* half of _persist_and_notify (lifecycle/suggestion_engine.py).           *)
(***************************************************************************)
EXTENDS Decisions, SequencesExt

CONSTANTS
  Underlyings,   \* in the order of STRATEGY_CONFIG
  Kinds          \* kinds of expiry, in the order they are tried

Candidates == [n \in 1 .. Len(Underlyings) * Len(Kinds) |->
                 [u    |-> Underlyings[1 + ((n - 1) \div Len(Kinds))],
                  kind |-> Kinds[1 + ((n - 1) % Len(Kinds))]]]

\* What an attempt on the nth candidate offers.
Offer(known, n, attempt) ==
  [carded   |-> attempt.carded,
   strategy |-> attempt.strategy,
   warned   |-> attempt.warned,
   u        |-> Candidates[n].u,
   kind     |-> KindOf(known[n], Candidates[n].kind),
   today    |-> known[n].today,
   score    |-> known[n].score]

\* The attempts of a run in order, and the candidates that sit out.
Tried(known) ==
  [offers |-> FlattenSeq([n \in DOMAIN known |->
                [m \in DOMAIN Attempts(known[n]) |-> Offer(known, n, Attempts(known[n])[m])]]),
   sits   |-> Cardinality({n \in DOMAIN known : SitsOut(known[n])})]

\* Every attempt takes an id, the cards in the order of the attempts.
Cards(tried) ==
  [ids   |-> Len(tried.offers),
   sits  |-> tried.sits,
   cards |-> SelectSeq([m \in DOMAIN tried.offers |-> [offer |-> tried.offers[m], nth |-> m]],
                       LAMBDA c : c.offer.carded)]

Bucket(c) == <<c.offer.kind, c.offer.strategy>>
Better(c, d) == c.offer.score > d.offer.score

\* One card per kind and strategy over the underlyings: the best, of equals the first.
Best(cards) ==
  {n \in DOMAIN cards :
     ~\E k \in DOMAIN cards :
        /\ k # n /\ Bucket(cards[k]) = Bucket(cards[n])
        /\ Better(cards[k], cards[n]) \/ (k < n /\ ~Better(cards[n], cards[k]))}

\* The place of a card in the queue: that of the first card of its bucket.
Place(cards, n) == CHOOSE k \in DOMAIN cards :
  /\ Bucket(cards[k]) = Bucket(cards[n])
  /\ \A j \in DOMAIN cards : Bucket(cards[j]) = Bucket(cards[n]) => k <= j

\* Mutant of Capped: cards of different strategies are not compared.
CappedPerStrategy(cards, best) == best

\* Of the best, at most one per direction: the better, of equals the earlier.
Capped(cards, best) ==
  {n \in best :
     Direction(cards[n].offer.strategy) \in Directions =>
       ~\E k \in best \ {n} :
          /\ Direction(cards[k].offer.strategy) = Direction(cards[n].offer.strategy)
          /\ \/ Better(cards[k], cards[n])
             \/ Place(cards, k) < Place(cards, n) /\ ~Better(cards[n], cards[k])}

\* A card that a later one of its bucket displaces leaves a sit-out row; one that
\* does not displace an earlier one leaves none.
Displaced(cards) ==
  {n \in DOMAIN cards \ Best(cards) :
     \A k \in 1 .. n - 1 : Bucket(cards[k]) = Bucket(cards[n]) => Better(cards[n], cards[k])}

Queue(cards) ==
  LET placed == {[card |-> cards[n], at |-> Place(cards, n)] : n \in Capped(cards, Best(cards))}
      order  == SetToSortSeq(placed, LAMBDA p, q : p.at < q.at)
  IN FoldLeft(LAMBDA queue, p : Append(queue, p.card), <<>>, order)

\* What a run may decide from one of these surveys: the ids it takes, its cards and
\* its sit-outs.
Plans(surveys) ==
  {[ids   |-> p.ids,
    queue |-> Queue(p.cards),
    sits  |-> p.sits + Cardinality(Displaced(p.cards))
              + Cardinality(Best(p.cards) \ Capped(p.cards, Best(p.cards)))] :
     p \in {Cards(tried) : tried \in {Tried(known) : known \in surveys}}}
=============================================================================
