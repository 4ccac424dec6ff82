------------------------ MODULE SideMarketSettlement ------------------------
(***************************************************************************)
(* Settlement by hand of the markets beside match odds: fancy selections   *)
(* (settleFancyManual), bookmaker markets (settleBookmakerManualV2) and    *)
(* tied match markets (settleTiedMatchManual), and their rollback          *)
(* (rollbackSettlement), all in src/src/settlement/settlement.service.ts.  *)
(*                                                                         *)
(* Each kind has a path of its own through the steps of a request: which   *)
(* bets are read and when earlier settlements are looked for, the tagging  *)
(* of the bets with the market's settlement id, the record, and a          *)
(* transaction that either writes absolute values computed from a wallet   *)
(* it has read, or increments.                                             *)
(*                                                                         *)
(* A bet is a record of module Exposure with all of its amounts: `stake`,  *)
(* `profit` = (odds - 1) * stake, `percent` = odds * stake / 100, and the  *)
(* `win`, `loss` and `line` of a fancy bet.  An outcome is a number: the   *)
(* runs of a fancy selection, the selection that won, or Void for a        *)
(* cancellation.                                                           *)
(***************************************************************************)
EXTENDS Exposure

CONSTANTS
  Users, Markets,
  KindOf,        \* "fancy" (one selection), "bookmaker" or "tied"
  Offers,        \* sets of bets, one of which the clients will ask for
  LateBets,      \* bets that may come after a first request to settle their market
  Funds,         \* what each client starts with
  Filters,       \* the betIds of a request; the set Bets is no filter
  MaxDelta,      \* what a bookmaker settlement may move per client
  Admins,        \* the requests that may be in flight at once
  OutcomesOf,    \* the outcomes an administrator may give per market
  Reopenable     \* markets whose settlement may be rolled back

Void == -1
Unset == -2      \* no outcome on record

Incremental == {"bookmaker", "tied"}

ASSUME SideMarketAssumption ==
  /\ IsFiniteSet(UNION Offers) /\ IsFiniteSet(Markets)
  /\ KindOf \in [Markets -> Incremental \union {"fancy"}]
  /\ \A S \in Offers : S \subseteq
       [id : Nat, user : Users, market : Markets, selection : Nat, side : {"BACK", "LAY"},
        stake : Nat, profit : Nat, percent : Nat, win : Nat, loss : Nat, line : Nat]
  /\ LateBets \subseteq UNION Offers
  /\ Filters \subseteq SUBSET UNION Offers /\ MaxDelta \in Nat
  /\ Funds \in [Users -> Nat]
  /\ OutcomesOf \in [Markets -> SUBSET (Nat \union {Void})]
  /\ \A m \in Markets : KindOf[m] = "bookmaker" => Void \notin OutcomesOf[m]
  /\ Reopenable \subseteq Markets

Bets == UNION Offers

VARIABLES
  offer,                \* the bets of this behaviour
  balance, liability,   \* Wallet.balance and Wallet.liability of each client
  status, pnl,          \* Bet.status and Bet.pnl
  pairedWith,           \* Bet.refundedByBetId, as a set of at most one bet
  tagged,               \* the bets that carry their market's settlement id
  row,                  \* FancyExposure.remainingExposure per client and market
  record,               \* Settlement: state and winnerId per market
  task                  \* the administrators' requests

books == <<offer, balance, liability, status, pnl, pairedWith, row>>
vars == <<offer, balance, liability, status, pnl, pairedWith, tagged, row, record, task>>

Settled == {"WON", "LOST", "CANCELLED"}
In(S, m) == {b \in S : b.market = m}
Of(S, u) == {b \in S : b.user = u}
Open(S) == {b \in S : status[b] = "PENDING"}
SettledIn(m) == {b \in In(tagged, m) : status[b] \in Settled}

BookExposure(S, m) == IF KindOf[m] = "fancy" THEN FancyExposure(S) ELSE BookmakerExposure(S)

\* The exposure of a client's open bets: markets add up.
ExposureOf(S) == Sum([m \in Markets |-> BookExposure(In(S, m), m)], Markets)

\* Bets that were refunded at placement, and those that refunded them.
FancyPairs(S) == {b \in S : pairedWith[b] # {} \/ \E c \in S : b \in pairedWith[c]}

Task(pc, kind, m, o, S) ==
  [pc |-> pc, kind |-> kind, market |-> m, outcome |-> o, bets |-> S, pairs |-> FancyPairs(S),
   balance |-> [u \in Users |-> 0], liability |-> [u \in Users |-> 0],
   taken |-> [u \in Users |-> 0]]

Idle == Task("idle", "none", "none", Unset, {})
Concerned(a) == {b.user : b \in task[a].bets}
InFlight(m) == \E a \in Admins : task[a].pc # "idle" /\ task[a].market = m

\* A transaction that has read the wallet and will overwrite it.
Overwriting(u) == \E a \in Admins : task[a].pc = "open" /\ u \in Concerned(a)

-----------------------------------------------------------------------------
Init ==
  /\ offer \in Offers
  /\ balance = Funds
  /\ liability = [u \in Users |-> 0]
  /\ status = [b \in Bets |-> "none"]
  /\ pnl = [b \in Bets |-> 0]
  /\ pairedWith = [b \in Bets |-> {}]
  /\ tagged = {}
  /\ row = [u \in Users |-> [m \in Markets |-> 0]]
  /\ record = [m \in Markets |-> [state |-> "none", winner |-> Unset]]
  /\ task = [a \in Admins |-> Idle]

\* A bet is placed, as OpenBets models it when requests come one at a time: a
\* bet that lowers the exposure marks its peers as refunded by it.
Place(b) ==
  LET u == b.user
      peers == In(Of(Open(Bets), u), b.market)
      before == BookExposure(peers, b.market)
      after == BookExposure(peers \union {b}, b.market)
  IN
  /\ b \in offer
  /\ status[b] = "none"
  /\ after - before <= balance[u]
  /\ ~Overwriting(u)
  /\ InFlight(b.market) \/ In(tagged, b.market) # {} => b \in LateBets
  /\ status' = [status EXCEPT ![b] = "PENDING"]
  /\ balance' = [balance EXCEPT ![u] = @ - (after - before)]
  /\ liability' = [liability EXCEPT ![u] = @ + (after - before)]
  /\ pairedWith' = [c \in Bets |-> IF after < before /\ c \in peers /\ c.selection = b.selection
                                   THEN {b} ELSE pairedWith[c]]
  /\ row' = IF KindOf[b.market] = "fancy" THEN [row EXCEPT ![u][b.market] = after] ELSE row
  /\ UNCHANGED <<offer, pnl, tagged, record, task>>

-----------------------------------------------------------------------------
(* The requests.  Two of them run at once only on different markets, and    *)
(* only if both increment the wallets.                                      *)

MayStart(m, o) ==
  \A a \in Admins : task[a].pc # "idle" =>
    /\ task[a].market # m
    /\ {KindOf[m], KindOf[task[a].market]} \subseteq Incremental
    /\ Void \notin {o, task[a].outcome} /\ task[a].kind # "rollback"

Begin(a, task0) ==
  /\ task[a].pc = "idle"
  /\ task' = [task EXCEPT ![a] = task0]
  /\ UNCHANGED <<books, tagged, record>>

Step(a, task1) ==
  /\ task' = [task EXCEPT ![a] = task1]
  /\ UNCHANGED <<books, tagged, record>>

Kind(o) == IF o = Void THEN "cancel" ELSE "settle"

\* settleFancyManual reads the open bets tagged with the selection's settlement
\* id, and only without any the untagged ones.
FancyRead(m, filter) ==
  LET known == Open(In(tagged \intersect filter, m)) IN
  IF known # {} THEN known ELSE Open(In(filter, m))

\* It looks for no earlier settlement, and ends if it found nothing.
ReadFancy(a, m, o, filter) ==
  /\ KindOf[m] = "fancy" /\ MayStart(m, o)
  /\ FancyRead(m, filter) # {}
  /\ Begin(a, Task("validated", Kind(o), m, o, FancyRead(m, filter)))

\* settleBookmakerManualV2 reads the open bets of the market,
ReadBookmaker(a, m, o, filter) ==
  /\ KindOf[m] = "bookmaker" /\ MayStart(m, o)
  /\ Begin(a, Task("read", "settle", m, o, Open(In(filter, m))))

\* Mutant: a market whose bets were settled is settled again.
NeverSettledBefore(m) == FALSE

\* validateSettlement: a record that was not rolled back, with settled bets.
SettledBefore(m) == record[m].state = "live" /\ SettledIn(m) # {}

\* then refuses a market that was settled before, and an empty one.
ValidateBookmaker(a) ==
  LET t == task[a] IN
  /\ t.pc = "read" /\ KindOf[t.market] = "bookmaker"
  /\ Step(a, IF SettledBefore(t.market) \/ t.bets = {} THEN Idle
             ELSE [t EXCEPT !.pc = "validated"])

\* settleTiedMatchManual looks for an earlier settlement first
CheckTied(a, m, o, filter) ==
  /\ KindOf[m] = "tied" /\ MayStart(m, o)
  /\ ~SettledBefore(m)
  /\ Begin(a, Task("checked", Kind(o), m, o, In(filter, m)))

\* and reads the open bets then.
ReadTied(a) ==
  LET t == task[a]
      S == Open(t.bets)
  IN
  /\ t.pc = "checked"
  /\ Step(a, IF S = {} THEN Idle ELSE [t EXCEPT !.pc = "validated", !.bets = S])

\* The bets get the settlement id of the market,
TagBets(a) ==
  /\ task[a].pc = "validated"
  /\ tagged' = tagged \union task[a].bets
  /\ task' = [task EXCEPT ![a].pc = "tagged"]
  /\ UNCHANGED <<books, record>>

\* Mutant: the record of a market that was rolled back stays rolled back.
RecordOnce(a) ==
  LET t == task[a]
      state == record[t.market].state IN
  /\ t.pc = "tagged"
  /\ record' = [record EXCEPT ![t.market] = [state |-> IF state = "none" THEN "live" ELSE state,
                                            winner |-> t.outcome]]
  /\ task' = [task EXCEPT ![a].pc = "recorded"]
  /\ UNCHANGED <<books, tagged>>

\* and the record is written, before the transaction.
Record(a) ==
  LET t == task[a] IN
  /\ t.pc = "tagged"
  /\ record' = [record EXCEPT ![t.market] = [state |-> "live", winner |-> t.outcome]]
  /\ task' = [task EXCEPT ![a].pc = "recorded"]
  /\ UNCHANGED <<books, tagged>>

\* Transactions that overwrite begin by reading the wallets: all of them but
\* the settlement of bookmaker and tied match bets.
Overwrites(t) == KindOf[t.market] = "fancy" \/ t.kind # "settle"

ReadWallets(a) ==
  /\ task[a].pc = "recorded" /\ Overwrites(task[a])
  /\ Step(a, [task[a] EXCEPT !.pc = "open", !.balance = balance, !.liability = liability])

-----------------------------------------------------------------------------
(* What the settlement of one bet does. *)

LockOf(b) == IF b.side = "LAY" THEN b.loss ELSE b.stake

FancyWins(b, runs) == FancyBetPnl(b, runs) > 0

\* Mutant: pairs are settled like single bets.
FancyCreditUnpaired(S, pairs, runs, exposure) ==
  LET won == {b \in S : FancyWins(b, runs)} IN Sum([b \in won |-> b.stake + b.win], won)

\* The sum credited for a client's bets: the paired ones that win get the
\* exposure that was left, once, and the result of the book if that is a gain,
\* or without exposure their own profits; single bets get stake and profit.
FancyCredit(S, pairs, runs, exposure) ==
  LET total == FancyPnl(S, runs)
      won == {b \in S : FancyWins(b, runs)}
      forPairs == IF exposure > 0 THEN exposure + total ELSE Sum([b \in won |-> b.win], won \intersect pairs)
  IN  Sum([b \in won |-> b.stake + b.win], won \ pairs)
        + (IF won \intersect pairs # {} /\ total > 0 THEN forPairs ELSE 0)

\* A cancelled bet gets back what it locked by itself, hedged or not.
FancyRefund(S) == Sum([b \in S |-> LockOf(b)], S)

\* A bookmaker bet: profits without the stake, and lays that lose pay again.
BookmakerCredit(b, o) ==
  CASE b.side = "BACK" /\ b.selection = o -> b.percent
    [] b.side = "LAY" /\ b.selection = o -> -b.percent
    [] OTHER -> 0

BookmakerRelease(b) == IF b.side = "BACK" THEN b.stake ELSE b.percent

Wins(b, o) == IF KindOf[b.market] = "fancy" THEN FancyWins(b, o)
              ELSE (b.selection = o) = (b.side = "BACK")

\* Bet.pnl, as each kind reports it.
BetPnl(b, o) ==
  IF o = Void THEN 0
  ELSE CASE KindOf[b.market] = "fancy" -> FancyBetPnl(b, o)
         [] KindOf[b.market] = "tied" -> IF Wins(b, o) THEN b.win ELSE -b.loss
         [] OTHER -> IF b.side = "BACK" THEN (IF Wins(b, o) THEN b.percent ELSE -b.stake)
                                        ELSE (IF Wins(b, o) THEN b.stake ELSE -b.percent)

\* The bets read are settled, whatever their status is by now, and get the
\* settlement id once more.
Decide(t) ==
  /\ status' = [b \in Bets |-> IF b \notin t.bets THEN status[b]
                               ELSE IF t.outcome = Void THEN "CANCELLED"
                               ELSE IF Wins(b, t.outcome) THEN "WON" ELSE "LOST"]
  /\ pnl' = [b \in Bets |-> IF b \in t.bets THEN BetPnl(b, t.outcome) ELSE pnl[b]]
  /\ tagged' = tagged \union t.bets

\* Mutant: the rows of the whole event are deleted.
DeleteEventRows(m) == row' = [u \in Users |-> [n \in Markets |-> 0]]

\* The exposure rows of all clients for the selection are deleted.
DeleteRows(m) == row' = [u \in Users |-> [row[u] EXCEPT ![m] = 0]]

CommitFancy(a) ==
  LET t == task[a]
      mine(u) == Of(t.bets, u)
      credit(u) == IF t.kind = "cancel" THEN FancyRefund(mine(u))
                   ELSE FancyCredit(mine(u), t.pairs, t.outcome, row[u][t.market])
  IN
  /\ t.pc = "open" /\ KindOf[t.market] = "fancy" /\ t.kind # "rollback"
  /\ Decide(t)
  /\ balance' = [u \in Users |-> IF u \in Concerned(a) THEN t.balance[u] + credit(u) ELSE balance[u]]
  /\ liability' = [u \in Users |-> IF u \in Concerned(a)
                                   THEN Max({0, t.liability[u] - FancyRefund(mine(u))})
                                   ELSE liability[u]]
  /\ DeleteRows(t.market)
  /\ task' = [task EXCEPT ![a] = Idle]
  /\ UNCHANGED <<offer, pairedWith, record>>

\* Wallets are incremented by what each client is credited and its bets release.
Increment(a, credit, release) ==
  /\ ~Overwrites(task[a])
  /\ Decide(task[a])
  /\ balance' = [u \in Users |-> balance[u] + credit[u]]
  /\ liability' = [u \in Users |-> liability[u] - release[u]]
  /\ task' = [task EXCEPT ![a] = Idle]
  /\ UNCHANGED <<offer, pairedWith, row, record>>

\* settleBookmakerBetsStrict moves nothing if a client's balance would change
\* by an abnormal amount.
CommitBookmaker(a) ==
  LET credit == [u \in Users |-> Sum([b \in Bets |-> BookmakerCredit(b, task[a].outcome)], Of(task[a].bets, u))]
      release == [u \in Users |-> Sum([b \in Bets |-> BookmakerRelease(b)], Of(task[a].bets, u))] IN
  /\ task[a].pc = "recorded" /\ KindOf[task[a].market] = "bookmaker"
  /\ \A u \in Users : Abs(credit[u]) <= MaxDelta
  /\ Increment(a, credit, release)

TiedCredit(b, o) == IF Wins(b, o) THEN b.stake + b.win ELSE 0

\* Mutant: a tied match bet releases what it may win.
TiedReleaseOfWin(b) == b.win

TiedRelease(b) == b.loss

\* settleTiedMatchBetsIsolated always releases the loss amount.
CommitTied(a) ==
  LET credit == [u \in Users |-> Sum([b \in Bets |-> TiedCredit(b, task[a].outcome)], Of(task[a].bets, u))]
      release == [u \in Users |-> Sum([b \in Bets |-> TiedRelease(b)], Of(task[a].bets, u))] IN
  /\ task[a].pc = "recorded" /\ KindOf[task[a].market] = "tied"
  /\ Increment(a, credit, release)

TiedRefund(b) == b.stake

\* The cancellation of tied match bets refunds the stakes and leaves the
\* liability as it is.
CancelTied(a) ==
  LET t == task[a] IN
  /\ t.pc = "open" /\ KindOf[t.market] = "tied" /\ t.kind = "cancel"
  /\ Decide(t)
  /\ balance' = [u \in Users |-> IF u \in Concerned(a)
                                 THEN t.balance[u] + Sum([b \in Bets |-> TiedRefund(b)], Of(t.bets, u)) ELSE balance[u]]
  /\ task' = [task EXCEPT ![a] = Idle]
  /\ UNCHANGED <<offer, liability, pairedWith, row, record>>

-----------------------------------------------------------------------------
(* rollbackSettlement *)

TakenBack(b) ==
  CASE status[b] = "WON" -> (IF b.side = "LAY" THEN b.loss ELSE b.stake) + b.win
    [] status[b] = "CANCELLED" -> LockOf(b)
    [] OTHER -> 0

ReadToRollback(a, m) ==
  /\ m \in Reopenable /\ record[m].state = "live"
  /\ \A c \in Admins : task[c].pc = "idle"
  /\ Begin(a, [Task("recorded", "rollback", m, Unset, SettledIn(m)) EXCEPT
                 !.taken = [u \in Users |-> Sum([b \in Bets |-> TakenBack(b)], Of(SettledIn(m), u))]])

\* The liability is recalculated from all open bets.
Recalculated(t, u) == ExposureOf(Open(Of(Bets, u)) \union Of(t.bets, u))

CommitRollback(a) ==
  LET t == task[a] IN
  /\ t.pc = "open" /\ t.kind = "rollback"
  /\ status' = [b \in Bets |-> IF b \in t.bets THEN "PENDING" ELSE status[b]]
  /\ pnl' = [b \in Bets |-> IF b \in t.bets THEN 0 ELSE pnl[b]]
  /\ balance' = [u \in Users |-> IF u \in Concerned(a) /\ t.taken[u] # 0
                                 THEN t.balance[u] - t.taken[u] ELSE balance[u]]
  /\ liability' = [u \in Users |-> IF u \in Concerned(a) THEN Recalculated(t, u) ELSE liability[u]]
  /\ record' = [record EXCEPT ![t.market].state = "rolled back"]
  /\ task' = [task EXCEPT ![a] = Idle]
  /\ UNCHANGED <<offer, pairedWith, tagged, row>>

-----------------------------------------------------------------------------
\* The request fails where it is: an error, a time limit, a crash.
Fail(a) == task[a].pc # "idle" /\ Step(a, Idle)

Ask(a) ==
  \E m \in Markets :
    \/ \E o \in OutcomesOf[m], filter \in Filters :
         ReadFancy(a, m, o, filter) \/ ReadBookmaker(a, m, o, filter) \/ CheckTied(a, m, o, filter)
    \/ ReadToRollback(a, m)

GoOn(a) ==
  \/ ValidateBookmaker(a) \/ ReadTied(a) \/ TagBets(a) \/ Record(a) \/ ReadWallets(a)
  \/ CommitFancy(a) \/ CommitBookmaker(a) \/ CommitTied(a) \/ CancelTied(a) \/ CommitRollback(a)

Next ==
  \/ \E b \in Bets : Place(b)
  \/ \E a \in Admins : Ask(a) \/ GoOn(a) \/ Fail(a)

Spec == Init /\ [][Next]_vars

\* Bets whose markets each kind settles as it locked them: no client bets on
\* both sides of a fancy selection, every fancy bet can lose, what it and a tied
\* match bet lock is their stake, and those of the other kinds are backs.  A
\* rollback, which recalculates a client's liability, meets no bookmaker bets,
\* and no cancelled tied match bets of another market.
PlainOffer(S) ==
  /\ \A b \in S :
       CASE KindOf[b.market] = "bookmaker" -> b.side = "BACK" /\ b.market \notin Reopenable
         [] KindOf[b.market] = "tied" -> b.side = "BACK" /\ b.loss = b.stake
         [] OTHER -> b.loss = b.stake /\ b.win > 0
                       /\ IF b.side = "BACK" THEN b.line > 0 ELSE b.line <= 2 * MaxOutcome
  /\ \A b, c \in S : b.user = c.user =>
       /\ b.market = c.market /\ KindOf[b.market] = "fancy" => b.side = c.side
       /\ KindOf[b.market] = "tied" /\ c.market \in Reopenable => b.market = c.market

-----------------------------------------------------------------------------
\* The shape of the state.
TypeOK ==
  /\ offer \in Offers
  /\ balance \in [Users -> Int] /\ liability \in [Users -> Int]
  /\ status \in [Bets -> {"none", "PENDING"} \union Settled]
  /\ pnl \in [Bets -> Int]
  /\ pairedWith \in [Bets -> SUBSET Bets] /\ tagged \subseteq Bets
  /\ row \in [Users -> [Markets -> Nat]]
  /\ record \in [Markets -> [state : {"none", "live", "rolled back"}, winner : Int]]
  /\ \A a \in Admins : task[a].pc \in {"idle", "read", "checked", "validated", "tagged", "recorded", "open"}

Results(u) == Sum(pnl, Of(Bets, u))

\* The stakes of won bookmaker backs: "Stake is NEVER credited back".
KeptStakes(u) ==
  Sum([b \in Bets |-> b.stake],
      {b \in Of(Bets, u) : KindOf[b.market] = "bookmaker" /\ status[b] = "WON" /\ b.side = "BACK"})

\* The locks of cancelled tied match bets: their liability is left unchanged.
LeftLocked(u) ==
  Sum([b \in Bets |-> b.loss], {b \in Of(Bets, u) : KindOf[b.market] = "tied" /\ status[b] = "CANCELLED"})

\* Whatever was settled, cancelled, rolled back, settled again, or failed on the
\* way, a client has what it was funded with and the results of its bets, less
\* the stakes the bookmaker keeps and plus the locks a cancelled tied match
\* leaves: balance and liability of END_TO_END_AUDIT.md, with these exceptions.
MoneyMatchesResults ==
  \A u \in Users :
    balance[u] + liability[u] = Funds[u] + Results(u) - KeptStakes(u) + LeftLocked(u)

\* The liability, which every kind releases in its own way, is the exposure of
\* the open bets, and those locks.
LiabilityIsExposure ==
  \A u \in Users : liability[u] = ExposureOf(Open(Of(Bets, u))) + LeftLocked(u)

\* The settled bets of a bookmaker or tied match market agree on the outcome,
\* which is the one on record (a fancy selection may be settled again for bets
\* that came late, with other runs).
OneWinner ==
  \A b \in Bets :
    status[b] \in Settled /\ KindOf[b.market] \in Incremental =>
      pnl[b] = BetPnl(b, record[b.market].winner)

\* A settled bet can be rolled back: it stands under a live record that finds
\* it by its settlement id.
Reversible ==
  \A b \in Bets : status[b] \in Settled => record[b.market].state = "live" /\ b \in SettledIn(b.market)

\* A client's exposure row decides what its hedged bets on a selection are paid.
\* It covers the open ones until a bet on that selection is settled, whatever
\* is settled, cancelled or rolled back beside it.  (The settlement of one bet
\* deletes the rows of all clients for the selection; what the removal of bets
\* leaves of a row is FancyRowCovers of OpenBets.)
RowCoversOpenBets ==
  \A u \in Users, m \in Markets :
    KindOf[m] = "fancy" /\ m \notin Reopenable /\ SettledIn(m) = {} =>
      row[u][m] >= BookExposure(Open(In(Of(Bets, u), m)), m)
=============================================================================
