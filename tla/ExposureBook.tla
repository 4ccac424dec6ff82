---------------------------- MODULE ExposureBook ----------------------------
(***************************************************************************)
(* One client's book in one market, bets joining it in any order.  The     *)
(* amount locked for the book is the running sum of the deltas the service *)
(* answers, as bet placement adds them to the wallet's liability.  The     *)
(* module relates that amount to what the client can really lose, computed *)
(* over every outcome the market can have.                                 *)
(***************************************************************************)
EXTENDS Exposure

CONSTANTS Markets,    \* the kinds of market the client may choose from
          Offers(_),  \* the bets the client may place in a market
          Runners     \* the runners of the market, bet upon or not

ASSUME MarketsAssumption == Markets \subseteq {"matchodds", "bookmaker", "fancy"}

\* A market has at least two runners, and bets are placed on its runners.
ASSUME OffersAssumption ==
  /\ IsFiniteSet(Runners) /\ \E r, s \in Runners : r # s
  /\ \A b \in Offers("matchodds") \union Offers("bookmaker") :
       /\ b.selection \in Runners /\ b.side \in {"BACK", "LAY"}
       /\ b.stake \in Nat /\ b.profit \in Nat
  /\ \A b \in Offers("fancy") : b.win \in Nat /\ b.loss \in Nat /\ b.line \in Nat

VARIABLES market,    \* the market the client bets in
          book,      \* the open bets
          locked     \* the sum of the deltas of the bets placed

bookVars == <<market, book, locked>>

Delta(bets, b) ==
  CASE market = "matchodds" -> MatchOddsDelta(bets, b)
    [] market = "bookmaker" -> BookmakerDelta(bets, b)
    [] market = "fancy"     -> FancyDelta(bets, b)

BookInit == market \in Markets /\ book = {} /\ locked = 0

Place(b) ==
  /\ b \notin book
  /\ book' = book \union {b}
  /\ locked' = locked + Delta(book, b)
  /\ UNCHANGED market

BookNext == \E b \in Offers(market) : Place(b)

BookSpec == BookInit /\ [][BookNext]_bookVars

-----------------------------------------------------------------------------
(* What the market can really do to the client. *)

PossibleResults ==
  IF market = "fancy" THEN {FancyPnl(book, runs) : runs \in 0 .. MaxOutcome}
                      ELSE {NetIfWins(book, r) : r \in Runners}

WorstPossibleLoss == WorstLoss(PossibleResults)

\* The match odds service simulates the selections that carry a bet: that is
\* every outcome if every runner carries a bet, or at most one does.  The
\* bookmaker service adds amounts up and sees no outcomes: it is exact for
\* bets on one side of one runner.
EveryOutcomeSimulated ==
  CASE market = "matchodds" -> \/ Selections(book) = Runners
                               \/ Cardinality(Selections(book)) <= 1
    [] market = "bookmaker" -> Cardinality({<<b.selection, b.side>> : b \in book}) <= 1
    [] market = "fancy"     -> TRUE

\* The shape of the state.
TypeOK == market \in Markets /\ book \subseteq Offers(market) /\ locked \in Nat

\* The amount locked is what the client can lose at most, over every outcome
\* of the market and not only those the service looks at ("Liability = Max
\* Possible Loss", END_TO_END_AUDIT.md), and no money is locked beyond it.
LockedIsWorstLoss == EveryOutcomeSimulated => locked = WorstPossibleLoss

\* A bet that is offset to the last rupee releases everything: when no outcome
\* loses money, nothing stays locked, whatever the order of the bets.
RisklessBookLocksNothing ==
  market # "bookmaker" /\ WorstPossibleLoss = 0 => locked = 0
=============================================================================
