--------------------------- MODULE MCExposureBook ---------------------------
(* The books ExposureBook is checked on: stakes in thousands.              *)
EXTENDS ExposureBook

Leg(id, selection, side, stake, profit) ==
  [id |-> id, selection |-> selection, side |-> side,
   stake |-> stake, profit |-> profit]

\* Backs and lays on each of three runners; 1 and 3 offset each other fully.
MatchOddsOffers ==
  { Leg(1, "home", "BACK", 4, 4), Leg(2, "home", "BACK", 2, 6),
    Leg(3, "home", "LAY",  4, 4), Leg(4, "home", "LAY",  1, 5),
    Leg(5, "away", "BACK", 3, 3), Leg(6, "away", "LAY",  3, 6),
    Leg(7, "draw", "BACK", 2, 8), Leg(8, "draw", "LAY",  2, 2) }

BookmakerOffers ==
  { Leg(1, "home", "BACK", 4, 4), Leg(2, "home", "BACK", 2, 1),
    Leg(3, "home", "LAY",  4, 4), Leg(4, "away", "BACK", 3, 3),
    Leg(5, "away", "LAY",  4, 4) }

FancyLeg(id, side, line, win, loss) ==
  [id |-> id, selection |-> "sessionRuns", side |-> side, stake |-> loss,
   line |-> line, win |-> win, loss |-> loss]

\* Lines are in half runs: 0, 1.5, 3, 4.5 and 12, the last beyond the range.
FancyOffers ==
  { FancyLeg(1, "BACK", 0,  3, 4), FancyLeg(2, "LAY",  3,  2, 2),
    FancyLeg(3, "BACK", 3,  5, 2), FancyLeg(4, "LAY",  6,  4, 6),
    FancyLeg(5, "BACK", 6,  6, 5), FancyLeg(6, "LAY",  9,  5, 6),
    FancyLeg(7, "BACK", 24, 9, 1), FancyLeg(8, "LAY",  0,  1, 7) }

MCOffers(m) == CASE m = "matchodds" -> MatchOddsOffers
                 [] m = "bookmaker" -> BookmakerOffers
                 [] m = "fancy"     -> FancyOffers

AllMarkets == {"matchodds", "bookmaker", "fancy"}
ThreeRunners == {"home", "away", "draw"}
=============================================================================
