------------------------- MODULE MCMarketSettlement -------------------------
(* Instances of MarketSettlement: clients ann and bob, a match odds market *)
(* of two runners and the first innings market of the same event, amounts  *)
(* in thousands.                                                           *)
EXTENDS MarketSettlement, TLC

Leg(id, user, market, selection, side, stake, profit) ==
  [id |-> id, user |-> user, market |-> market, selection |-> selection,
   side |-> side, stake |-> stake, profit |-> profit]

Match == "match"
Innings == "innings"

BackHome  == Leg(1, "ann", Match, "home", "BACK", 2, 3)
BackHome2 == Leg(2, "ann", Match, "home", "BACK", 3, 1)
LayHome   == Leg(3, "bob", Match, "home", "LAY", 4, 2)
LayAway   == Leg(4, "ann", Innings, "away", "LAY", 3, 2)

\* The client backs, or lays, one runner per market.
OneSided == {BackHome, BackHome2, LayAway}
OnePerMarket == {BackHome, LayHome}
Late == {BackHome, BackHome2}

Clients == {"ann", "bob"}
Ann == {"ann"}
MCFunds == [u \in Users |-> 10]
Both == {"home", "away"}
OneMarket == {Match}
AllMarkets == {Match, Innings}

NoFilter == {Bets}
PartFilter == NoFilter \union {{BackHome}}
None == {}

Symmetry == Permutations(Admins)
=============================================================================
