--------------------------- MODULE MCBetAcceptance ---------------------------
(* Instance of BetAcceptance: two events, one runner whose price to back   *)
(* is 2.00 or 1.50, or that is gone, in hundredths.                        *)
EXTENDS BetAcceptance, TLC

CONSTANTS p, q, a, b

High == [backs |-> {200, 190}, lays |-> {250}]
Low == [backs |-> {150}, lays |-> {200, 210}]
Gone == [backs |-> {}, lays |-> {}]
MCQuotes == {High, Low, Gone}

Bet(list, event, side, rate, checked) ==
  [list |-> list, event |-> event, side |-> side, rate |-> rate, checked |-> checked]

Back == Bet("matchodds", "derby", "BACK", 200, TRUE)
\* A rate of 20, which means 2.00.
Lay == Bet("matchodds", "derby", "LAY", 2000, TRUE)
Tied == Bet("matchodds", "final", "BACK", 150, FALSE)
Fancy == Bet("fancy", "derby", "BACK", 200, FALSE)
Bookmaker == Bet("none", "derby", "BACK", 200, FALSE)
MCRequests == {Back, Lay, Tied, Fancy, Bookmaker}

Mix(goes, bets, number) == [goes |-> goes, bets |-> bets, settings |-> number]
MCMixes ==
  {Mix({"prices"}, {Back, Lay}, 0), Mix({"prices", "delays"}, {Back}, 1),
   Mix({"delays"}, {}, 3), Mix({"stops"}, {Tied, Fancy, Bookmaker}, 3)}
Symmetry == Permutations({p, q}) \union Permutations({a, b})
=============================================================================
