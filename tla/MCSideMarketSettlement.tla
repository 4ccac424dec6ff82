----------------------- MODULE MCSideMarketSettlement -----------------------
(* Instances of SideMarketSettlement: ann hedges on the runs of an over,   *)
(* cat bets once or twice on those of the innings, bob and dan bet on the  *)
(* bookmaker's and the tied match market of the same event.                *)
EXTENDS SideMarketSettlement

Over == "over"
Innings == "innings"
Bookies == "bookies"
Tie == "tie"

MCMarkets == {Over, Innings, Bookies, Tie}
MCKindOf == [m \in MCMarkets |->
               CASE m \in {Over, Innings} -> "fancy" [] m = Bookies -> "bookmaker" [] m = Tie -> "tied"]

\* Lines in half runs: YES from 2 runs up, NO below 2 or below 3.
Fancy(id, user, m, side, stake, win, line) ==
  [id |-> id, user |-> user, market |-> m, selection |-> 9, side |-> side, stake |-> stake,
   profit |-> 0, percent |-> 0, win |-> win, loss |-> stake, line |-> line]

Bet(id, user, m, selection, stake, profit) ==
  [id |-> id, user |-> user, market |-> m, selection |-> selection, side |-> "BACK",
   stake |-> stake, profit |-> profit, percent |-> profit, win |-> profit, loss |-> stake,
   line |-> 0]

Yes == Fancy(1, "ann", Over, "BACK", 3, 3, 4)
No  == Fancy(2, "ann", Over, "LAY", 2, 2, 4)
NoAbove == Fancy(3, "ann", Over, "LAY", 3, 3, 6)
Single == Fancy(4, "cat", Innings, "BACK", 2, 3, 4)
Second == Fancy(5, "cat", Innings, "BACK", 1, 1, 6)
Home == Bet(6, "bob", Bookies, 1, 2, 1)
Away == Bet(7, "dan", Bookies, 2, 1, 2)
Tied == Bet(8, "bob", Tie, 1, 3, 6)
NotTied == Bet(9, "dan", Tie, 2, 2, 1)

Hedged == {Yes, No, Single}
RunBets == {Yes, NoAbove}
Singles == {Single, Second}
Others == {Home, Away, Tied, NotTied}

AllOffers == {Hedged, RunBets, Singles, Others}
Late == Singles \union Others

AllOrOne == {Bets, {Single}}

Clients == {"ann", "bob", "cat", "dan"}
MCFunds == [u \in Clients |-> 10]

MCOutcomesOf == [m \in MCMarkets |->
                   CASE m = Over -> {1, 2, 3} [] m = Innings -> {Void, 1, 2}
                     [] m = Bookies -> {1, 2} [] m = Tie -> {Void, 1, 2}]
MCReopenable == {Tie, Innings}

\* The bets of cat, bob and dan are those the theorems on money are about.
ASSUME PlainOffersHere == PlainOffer(Singles) /\ PlainOffer(Others)
=============================================================================
