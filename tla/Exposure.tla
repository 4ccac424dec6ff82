------------------------------ MODULE Exposure ------------------------------
(***************************************************************************)
(* The exposure formulas of the exchange: how much money a set of open     *)
(* bets of one client locks.  One service per kind of market computes it   *)
(* (src/src/bets/{matchodds,bookmaker,fancy}-exposure.service.ts); bet     *)
(* placement, deletion, cancellation and settlement all use these          *)
(* services.                                                               *)
(*                                                                         *)
(* A bet is a record with an `id`, a `selection` (the runner), a `side`    *)
(* ("BACK" or "LAY"; for a fancy market BACK is YES and LAY is NO), a      *)
(* `stake` and the amount `profit` = (odds - 1) * stake, which keeps the   *)
(* arithmetic in the integers.  A fancy bet has instead a `line`, given in *)
(* half runs because lines like 4.5 occur, and the amounts `win` and       *)
(* `loss` sent with the request (above zero).                              *)
(***************************************************************************)
EXTENDS Integers, FiniteSets, FiniteSetsExt, Sums

CONSTANT MaxOutcome     \* the largest number of runs a fancy market may end on

ASSUME MaxOutcomeAssumption == MaxOutcome \in Nat

Abs(n) == IF n < 0 THEN -n ELSE n

\* The worst of a set of results, as a loss: 0 if none of them loses money.
WorstLoss(results) == Max({0} \union {-r : r \in results})

Selections(bets) == {b.selection : b \in bets}

-----------------------------------------------------------------------------
(* Match odds. *)

\* What the bet earns if its runner won, or did not.
Earns(b, won) ==
  IF b.side = "BACK" THEN (IF won THEN b.profit ELSE -b.stake)
                     ELSE (IF won THEN -b.profit ELSE b.stake)

\* The result of the whole book if `runner` wins; a runner nobody bet upon
\* makes every bet's selection lose.
NetIfWins(bets, runner) ==
  Sum([b \in bets |-> Earns(b, b.selection = runner)], bets)

NetIfAllLose(bets) == Sum([b \in bets |-> Earns(b, FALSE)], bets)

\* Mutant: the loss of all selections is always simulated.
MatchOddsExposureAll(bets) ==
  WorstLoss({NetIfWins(bets, s) : s \in Selections(bets)} \union {NetIfAllLose(bets)})

\* The service simulates a win of each selection that carries a bet and, only
\* when all bets are on one selection, that selection's loss.
MatchOddsExposure(bets) ==
  LET simulated == {NetIfWins(bets, s) : s \in Selections(bets)}
      isolated  == IF Cardinality(Selections(bets)) = 1
                   THEN {NetIfAllLose(bets)} ELSE {}
  IN  WorstLoss(simulated \union isolated)

MatchOddsDelta(open, b) ==
  MatchOddsExposure(open \union {b}) - MatchOddsExposure(open)

-----------------------------------------------------------------------------
(* Bookmaker. *)

BookmakerExposure(bets) ==
  LET backs == {b \in bets : b.side = "BACK"}
      lays  == {b \in bets : b.side = "LAY"}
  IN  Abs(Sum([b \in backs |-> b.stake], backs) - Sum([b \in lays |-> b.profit], lays))

BookmakerDelta(open, b) ==
  BookmakerExposure(open \union {b}) - BookmakerExposure(open)

-----------------------------------------------------------------------------
(* Fancy: over/under bets on a number of runs. *)

\* YES wins from the line upwards, NO wins strictly below it.  (Not so on the
\* line according to SETTLEMENT_ENDPOINTS.md:190-191.)
FancyBetPnl(b, runs) ==
  LET wins == IF b.side = "BACK" THEN 2 * runs >= b.line ELSE 2 * runs < b.line
  IN  IF wins THEN b.win ELSE -b.loss

FancyPnl(bets, runs) == Sum([b \in bets |-> FancyBetPnl(b, runs)], bets)

\* Mutant: of a line's neighbours only the line rounded down.
CandidateLines(bets) ==
  {0, MaxOutcome} \union ({b.line \div 2 : b \in bets} \intersect (0 .. MaxOutcome))

\* The outcomes worth simulating: the two ends, and the neighbours of every
\* line rounded down and up, as far as they are possible outcomes.
CandidateOutcomes(bets) ==
  LET around(b) == LET floor == b.line \div 2
                       ceil  == (b.line + 1) \div 2
                   IN  (floor - 1 .. floor + 1) \union (ceil - 1 .. ceil + 1)
  IN  {0, MaxOutcome} \union {runs \in 0 .. MaxOutcome : \E b \in bets : runs \in around(b)}

FancyExposure(bets) ==
  WorstLoss({FancyPnl(bets, runs) : runs \in CandidateOutcomes(bets)})

FancyDelta(open, b) == FancyExposure(open \union {b}) - FancyExposure(open)

-----------------------------------------------------------------------------
(* The most a book may win, as the cap on winnings counts it. *)

\* Match odds: the best outcome over all runners of the market.
MatchOddsWinning(bets, runners) ==
  Max({0} \union {NetIfWins(bets, r) : r \in runners})

\* Fancy: one line is assumed.  YES wins the stakes of the backs and loses
\* what the lays stand to lose; NO loses the stakes and wins what the lays win.
FancyWinning(bets) ==
  LET backs == {b \in bets : b.side = "BACK"}
      lays  == {b \in bets : b.side = "LAY"}
      staked == Sum([b \in backs |-> b.stake], backs)
      yes == staked - Sum([b \in lays |-> b.loss], lays)
      no  == Sum([b \in lays |-> b.win], lays) - staked
  IN  Max({yes, no})
=============================================================================
