----------------------------- MODULE MCOpenBets -----------------------------
(***************************************************************************)
(* A client of an agent on one event: a match odds market of three         *)
(* runners, a bookmaker market of the same runners and one fancy line.     *)
(* Amounts are in thousands.  A bet is its own record, so that the         *)
(* exposure services of module Exposure apply to sets of bets.             *)
(***************************************************************************)
EXTENDS OpenBets

CONSTANT MaxOutcome

E == INSTANCE Exposure
F == INSTANCE FiniteSetsExt

MCBooks == {"matchOdds", "bookmaker", "fancy"}
MCMarketOf == [k \in MCBooks |-> k]
MCMatchOf == [k \in MCBooks |-> "match"]
MCKindOf == [k \in MCBooks |-> IF k = "matchOdds" THEN "matchodds" ELSE k]

Runners == {"home", "away", "draw"}

Leg(id, user, book, selection, side, stake, profit) ==
  [id |-> id, user |-> user, book |-> book, selection |-> selection, side |-> side,
   stake |-> stake, profit |-> profit]

FancyLeg(id, user, side, line, win, loss) ==
  [id |-> id, user |-> user, book |-> "fancy", selection |-> "overRuns", side |-> side,
   stake |-> loss, line |-> line, win |-> win, loss |-> loss]

\* The offsetting pair of match odds bets, and a third that breaks the cap.
Back1  == Leg(1, "ann", "matchOdds", "home", "BACK", 4, 4)
Lay1   == Leg(2, "ann", "matchOdds", "home", "LAY", 3, 3)
Back2  == Leg(3, "ann", "matchOdds", "home", "BACK", 2, 4)
\* Fancy bets on the same side of two lines.
Over1  == FancyLeg(4, "ann", "BACK", 3, 3, 2)
Over2  == FancyLeg(5, "ann", "BACK", 9, 3, 3)

OwnerIn(bets) == [b \in bets |-> b.user]
BookIn(bets) == [b \in bets |-> b.book]
SelectionIn(bets) == [b \in bets |-> b.selection]

MCOwner == OwnerIn(Bets)
MCBookOf == BookIn(Bets)
MCSelectionOf == SelectionIn(Bets)

\* The services' answers, tabulated once over all sets of bets.
BookExposureOf ==
  [S \in SUBSET Bets |->
     LET in(k) == {b \in S : b.book = k} IN
     E!MatchOddsExposure(in("matchOdds")) + E!BookmakerExposure(in("bookmaker"))
       + E!FancyExposure(in("fancy"))]

MCBookExposure(S) == BookExposureOf[S]

\* All books together: the services add the books up.
ExposureOf ==
  [S \in SUBSET Bets |->
     F!MapThenSumSet(LAMBDA k : BookExposureOf[{b \in S : b.book = k}], MCBooks)]

MCExposure(S) == ExposureOf[S]

Cap == 7

MCWithinLimit(S) ==
  \/ \E b \in S : b.book = "bookmaker"
  \/ \E b \in S : b.book = "matchOdds" /\ E!MatchOddsWinning(S, Runners) <= Cap
  \/ \E b \in S : b.book = "fancy" /\ E!FancyWinning(S) <= Cap

-----------------------------------------------------------------------------
(* The instances. *)

AnnOnly == {"ann"}

\* No bet here hedges one that an administrator can leave behind.
AnnsBets == {Back1, Lay1, Back2, Over1, Over2}
OffsetPair == {Back1, Lay1}
WholeMarkets == {{b \in Bets : b.book = k} : k \in {"matchOdds", "fancy"}}
TopUpAnn == [user |-> "ann", type |-> "TOPUP", amount |-> 4]
TopDownAnn == [user |-> "ann", type |-> "TOPDOWN", amount |-> 4]
MCTransfers == {TopUpAnn, TopDownAnn}

MCFunds == [u \in Users |-> 6]
None == {}
=============================================================================
