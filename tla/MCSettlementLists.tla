-------------------------- MODULE MCSettlementLists --------------------------
(* Instances of SettlementLists: an event with match odds, match odds       *)
(* including tie, tied match, bookmaker and fancy markets, where the vendor *)
(* renumbers the runners once.                                              *)
EXTENDS SettlementLists, TLC

MCMarketNamed == [odds |-> "match odds", tie |-> "tied match", three |-> "match odds including tie",
                  book |-> "bookmaker", over |-> "fancy"]

Number(m, n, k) ==
  CASE m = "odds" /\ n = "home" -> 201 + 10 * k
    [] m = "odds" /\ n = "away" -> 202 + 10 * k
    [] m = "three" /\ n \in {"home", "tie"} -> (IF n = "home" THEN 301 ELSE 302) + 10 * k
    [] m = "tie" /\ n \in {"yes", "no"} -> (IF n = "yes" THEN 1 ELSE 2) + 400 * k
    [] m = "book" /\ n \in {"home", "away"} -> (IF n = "home" THEN 1 ELSE 2)
    [] m = "over" /\ n = "runs" -> 501
    [] OTHER -> 0

MCNumberOf == [m \in DOMAIN MCMarketNamed |-> [n \in Names |-> [k \in Numberings |-> Number(m, n, k)]]]

Bet(id, m, name, side, gtype, type, title, line) ==
  [id |-> id, market |-> m, name |-> name, side |-> side, gtype |-> gtype, type |-> type,
   title |-> title, line |-> line]

Odds(id, name, side) == Bet(id, "odds", name, side, "matchodds", {"MATCH", "ODD"}, {"MATCH", "ODD"}, 0)
Book(id, name) == Bet(id, "book", name, "BACK", "bookmaker", {"BOOK"}, {"BOOK"}, 0)

\* TIED_MATCH of the one vendor and Tied Match of the other.
TiedBook == Bet(5, "tie", "yes", "BACK", "bookmaker", {"MATCH"}, {"MATCH", "tied_match"}, 0)
TiedOdds == Bet(6, "tie", "no", "BACK", "matchodds", {"MATCH"}, {"MATCH", "tied match"}, 0)
Three == Bet(7, "three", "tie", "BACK", "matchodds", {"MATCH", "ODD"},
             {"MATCH", "ODD", "match odds including tie"}, 0)
Completed == Bet(8, "three", "home", "BACK", "matchodds", {"MATCH"}, {"MATCH", "completed match"}, 0)
Yes == Bet(9, "over", "runs", "BACK", "fancy", {"FANCY"}, {}, 2)
No  == Bet(10, "over", "runs", "LAY", "fancy", {"FANCY"}, {}, 2)

MCOffers == {{Odds(1, "home", "BACK"), Odds(2, "away", "LAY")}, {Book(3, "home")}, {TiedBook, TiedOdds},
             {Yes, No}, {Yes, Completed}, {Three, Completed}}

Symmetry == Permutations(Admins)

\* The premises of the theorems.
ASSUME LabelledHere == Labelled
ASSUME NumbersTellHere == NumbersTell
=============================================================================
