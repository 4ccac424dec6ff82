-------------------------- MODULE MarketSettlement --------------------------
(***************************************************************************)
(* Settlement, cancellation and rollback of the match odds markets of one  *)
(* event by administrators (settleMarketManual, settleMarket,              *)
(* rollbackSettlement of src/src/settlement/settlement.service.ts) and the *)
(* reports made afterwards (pnl.service.ts, hierarchy-pnl.service.ts).     *)
(*                                                                         *)
(* A settlement request reads the open bets, validates, writes its record  *)
(* and pays in a transaction, then brings the reports of the clients       *)
(* concerned up to date, each client's by itself: each is a step of its    *)
(* own, with bets placed and other requests running in between.  A bet is  *)
(* a record of module Exposure with a `user` and a `market` besides.       *)
(***************************************************************************)
EXTENDS Exposure

CONSTANTS
  Users, Markets, Runners,
  Bets,              \* the bets placed in the markets, each at most once
  Funds,             \* what each client starts with
  Admins,            \* the requests that may be in flight at once
  Outcomes,          \* what may be asked for: {"settle"}, {"settle", "cancel"}
  SettleFilters,     \* the betIds of a settlement; the set Bets is no filter
  RollbackFilters,   \* the betIds of a rollback, likewise
  PlacesInside,      \* may a bet of a client be placed while a transaction that
                     \* has read the client's wallet is open?
  PayTogether,       \* may requests overlap that have still to pay?
  FailsAt            \* the steps a request may have reached when it fails

ASSUME SettlementAssumption ==
  /\ IsFiniteSet(Bets) /\ IsFiniteSet(Markets) /\ "none" \notin Markets
  /\ Bets \subseteq [id : Nat, user : Users, market : Markets, selection : Runners,
                     side : {"BACK", "LAY"}, stake : Nat, profit : Nat]
  /\ Funds \in [Users -> Nat]
  /\ Outcomes \subseteq {"settle", "cancel"}
  /\ SettleFilters \subseteq SUBSET Bets /\ RollbackFilters \subseteq SUBSET Bets
  /\ PlacesInside \in BOOLEAN /\ PayTogether \in BOOLEAN
  /\ FailsAt \subseteq {"read", "validated", "recorded", "open", "reporting"}

VARIABLES
  balance, liability,   \* Wallet.balance and Wallet.liability of each client
  status, pnl,          \* Bet.status and Bet.pnl of each bet
  record,               \* the Settlement row of each market
  userPnl,              \* UserPnl.netPnl of each client for the event, 0 without a row
  ledger,               \* the sum of HierarchyPnl.amount over a client's parents
  task,                 \* the administrators' requests
  report,               \* how far each request is with the report of each client
  spoiled, cleared      \* histories, read by the properties only: the clients whose
                        \* last report met another or failed, and those whose shares
                        \* a rollback deleted with nothing distributed since

books == <<balance, liability, status, pnl>>
reports == <<userPnl, ledger, report, spoiled, cleared>>
vars == <<balance, liability, status, pnl, record, userPnl, ledger, task, report, spoiled, cleared>>

Settled == {"WON", "LOST", "CANCELLED"}

In(S, m) == {b \in S : b.market = m}
Of(S, u) == {b \in S : b.user = u}
Pending(u) == {b \in Of(Bets, u) : status[b] = "PENDING"}

\* Mutant: only the bets that were won count as settled.
WonIn(m) == {b \in In(Bets, m) : status[b] = "WON"}

SettledIn(m) == {b \in In(Bets, m) : status[b] \in Settled}

\* The exposure of open bets: markets add up.
ExposureOf(S) == Sum([m \in Markets |-> MatchOddsExposure(In(S, m))], Markets)

Task(pc, kind, m, w, S) ==
  [pc |-> pc, kind |-> kind, market |-> m, winner |-> w, bets |-> S,
   balance |-> [u \in Users |-> 0], liability |-> [u \in Users |-> 0],
   taken |-> [u \in Users |-> 0]]

Idle == Task("idle", "none", "none", "none", {})

Concerned(a) == {b.user : b \in task[a].bets}

Stage(rollback, at, net) == [rollback |-> rollback, at |-> at, net |-> net]
NoReport == Stage(FALSE, "none", 0)

\* The requests that have not finished the report of client u.
Reporting(u) == {a \in Admins : report[a][u] # NoReport}

-----------------------------------------------------------------------------
Init ==
  /\ balance = Funds
  /\ liability = [u \in Users |-> 0]
  /\ status = [b \in Bets |-> "none"]
  /\ pnl = [b \in Bets |-> 0]
  /\ record = [m \in Markets |-> [state |-> "none", winner |-> "none"]]
  /\ userPnl = [u \in Users |-> 0]
  /\ ledger = [u \in Users |-> 0]
  /\ task = [a \in Admins |-> Idle]
  /\ report = [a \in Admins |-> [u \in Users |-> NoReport]]
  /\ spoiled = {} /\ cleared = {}

\* A bet is placed, as OpenBets models it when requests come one at a time.
\* Nothing stops bets on a market that is being or has been settled.
Place(b) ==
  LET u == b.user
      delta == ExposureOf(Pending(u) \union {b}) - ExposureOf(Pending(u))
  IN
  /\ status[b] = "none"
  /\ delta > 0 => delta <= balance[u]
  /\ \A a \in Admins : task[a].pc = "open" /\ u \in Concerned(a) => PlacesInside
  /\ status' = [status EXCEPT ![b] = "PENDING"]
  /\ balance' = [balance EXCEPT ![u] = @ - delta]
  /\ liability' = [liability EXCEPT ![u] = @ + delta]
  /\ UNCHANGED <<pnl, record, reports, task>>

-----------------------------------------------------------------------------
(* settleMarketManual *)

MayStart(a) ==
  /\ task[a].pc = "idle"
  /\ \A u \in Users : report[a][u] = NoReport
  /\ PayTogether \/ \A c \in Admins : task[c].pc = "idle"

\* The request names the market, the winner, whether to cancel and perhaps
\* bets; the open ones are read, and if there are none the request is refused
\* with nothing changed.  The winner is one of the runners the feed lists, or if
\* the feed fails one that carries a bet; a cancellation needs none.
ReadToSettle(a, kind, m, w, filter) ==
  LET open == {b \in In(filter, m) : status[b] = "PENDING"} IN
  /\ MayStart(a) /\ open # {}
  /\ task' = [task EXCEPT ![a] = Task("read", kind, m, w, open)]
  /\ UNCHANGED <<books, record, reports>>

\* Mutants: the test of the rollback mark is inverted; a record is enough.
SettledBeforeInverted(m) == record[m].state = "rolled back" /\ SettledIn(m) # {}
SettledBeforeByRecord(m) == record[m].state = "live"

\* There is a record that was not rolled back and bets were settled under it.
SettledBefore(m) == record[m].state = "live" /\ SettledIn(m) # {}

\* The settlement is refused if the market was settled before.
Validate(a) ==
  LET t == task[a] IN
  /\ t.pc = "read"
  /\ task' = [task EXCEPT ![a] =
                IF SettledBefore(t.market) THEN Idle ELSE [t EXCEPT !.pc = "validated"]]
  /\ UNCHANGED <<books, record, reports>>

\* The record is written before and outside the transaction.
Record(a) ==
  LET t == task[a] IN
  /\ t.pc = "validated"
  /\ record' = [record EXCEPT ![t.market] = [state |-> "live", winner |-> t.winner]]
  /\ task' = [task EXCEPT ![a] = [t EXCEPT !.pc = "recorded"]]
  /\ UNCHANGED <<books, reports>>

\* A transaction opens and reads the wallets of the clients concerned.
Open(a) ==
  /\ task[a].pc = "recorded"
  /\ task' = [task EXCEPT ![a] =
                [@ EXCEPT !.pc = "open", !.balance = balance, !.liability = liability]]
  /\ UNCHANGED <<books, record, reports>>

BetPnl(b, w) == Earns(b, b.selection = w)

\* Mutant: a lay locks its stake.
LockedByStake(b) == b.stake

\* What a bet locked by itself.
LockedBy(b) == IF b.side = "BACK" THEN b.stake ELSE b.profit

TotalLocked(S) == Sum([b \in Bets |-> LockedBy(b)], S)

\* What a client's bets are taken to have locked: the sum over the bets, or
\* with lays on several selections the worst case over these selections,
\* where a back counts as returned.
Released(S) ==
  LET laid == {b.selection : b \in {c \in S : c.side = "LAY"}}
      net(s) == Sum([b \in S |-> IF b.side = "LAY" /\ b.selection = s THEN -b.profit ELSE b.stake], S)
  IN  IF Cardinality(laid) <= 1 THEN TotalLocked(S) ELSE Abs(Min({net(s) : s \in laid}))

\* A client who backed and laid the same selection.
Offset(S) ==
  \E b, c \in S : b.selection = c.selection /\ b.side = "BACK" /\ c.side = "LAY"

\* The wallet of a client whose bets S are settled for winner w, from the
\* values read and the exposure of the open bets with and without S.
PaidWallet(read, S, w, before, after) ==
  LET total == Sum([b \in S |-> BetPnl(b, w)], S) IN
  IF Offset(S)
  THEN [balance |-> IF total > 0 THEN read.balance + total + (before - after) ELSE read.balance,
        liability |-> after]
  ELSE [balance |-> read.balance + total + Released(S),
        liability |-> Max({0, read.liability - Released(S)})]

\* Cancellation refunds per selection the stakes backed less what the lays
\* locked, and clears the liability.
RefundedWallet(read, S) ==
  LET side(s, d) == {b \in S : b.selection = s /\ b.side = d}
      refund == [s \in Selections(S) |->
                   Abs(TotalLocked(side(s, "BACK")) - TotalLocked(side(s, "LAY")))]
  IN  [balance |-> read.balance + Sum(refund, Selections(S)),
       liability |-> 0]

\* Once paid, the reports of the clients concerned are to be made.
ReportsDue(a) ==
  /\ task' = [task EXCEPT ![a] = Idle]
  /\ report' = [report EXCEPT ![a] =
                  [u \in Users |-> IF u \in Concerned(a)
                                   THEN Stage(task[a].kind = "rollback", "due", 0) ELSE NoReport]]
  /\ spoiled' = (spoiled \ Concerned(a)) \union {u \in Concerned(a) : Reporting(u) # {}}
  /\ UNCHANGED <<userPnl, ledger, cleared>>

\* The commit: every bet read is settled, whatever its status is by now.
CommitSettlement(a) ==
  LET t == task[a]
      wallet(u) ==
        LET S == Of(t.bets, u)
            read == [balance |-> t.balance[u], liability |-> t.liability[u]]
        IN  IF t.kind = "cancel" THEN RefundedWallet(read, S)
            ELSE PaidWallet(read, S, t.winner, ExposureOf(Pending(u)), ExposureOf(Pending(u) \ S))
  IN
  /\ t.pc = "open" /\ t.kind # "rollback"
  /\ status' = [b \in Bets |-> IF b \notin t.bets THEN status[b]
                               ELSE IF t.kind = "cancel" THEN "CANCELLED"
                               ELSE IF (b.selection = t.winner) = (b.side = "BACK")
                                    THEN "WON" ELSE "LOST"]
  /\ pnl' = [b \in Bets |-> IF b \notin t.bets THEN pnl[b]
                            ELSE IF t.kind = "cancel" THEN 0 ELSE BetPnl(b, t.winner)]
  /\ balance' = [u \in Users |-> IF u \in Concerned(a) THEN wallet(u).balance ELSE balance[u]]
  /\ liability' = [u \in Users |-> IF u \in Concerned(a) THEN wallet(u).liability ELSE liability[u]]
  /\ ReportsDue(a)
  /\ UNCHANGED record

-----------------------------------------------------------------------------
(* rollbackSettlement *)

\* Mutant: a cancelled bet takes nothing back.
TakenBackIfWon(b) == IF status[b] = "WON" THEN b.stake + b.profit ELSE 0

\* What the settlement of a bet is taken to have paid.
TakenBack(b) ==
  CASE status[b] = "WON" -> b.stake + b.profit
    [] status[b] = "CANCELLED" -> LockedBy(b)
    [] OTHER -> 0

\* Only a record that was not rolled back may be; its settled bets are read,
\* and what to take back follows from the status they have now.
ReadToRollback(a, m, filter) ==
  /\ MayStart(a)
  /\ record[m].state = "live"
  /\ LET S == SettledIn(m) \intersect filter IN
     task' = [task EXCEPT ![a] =
                [Task("recorded", "rollback", m, "none", S)
                   EXCEPT !.taken = [u \in Users |-> Sum([b \in S |-> TakenBack(b)], Of(S, u))]]]
  /\ UNCHANGED <<books, record, reports>>

\* Mutant: recalculated from the bets that were open before.
ExposureBefore(t, u) == ExposureOf(Pending(u))

ExposureAfter(t, u) == ExposureOf(Pending(u) \union Of(t.bets, u))

\* The commit: the bets are open again, the payments are taken back, and the
\* liability is recalculated from all open bets.
CommitRollback(a) ==
  LET t == task[a] IN
  /\ t.pc = "open" /\ t.kind = "rollback"
  /\ status' = [b \in Bets |-> IF b \in t.bets THEN "PENDING" ELSE status[b]]
  /\ pnl' = [b \in Bets |-> IF b \in t.bets THEN 0 ELSE pnl[b]]
  /\ balance' = [u \in Users |-> IF u \in Concerned(a) /\ t.taken[u] # 0
                                 THEN t.balance[u] - t.taken[u] ELSE balance[u]]
  /\ liability' = [u \in Users |-> IF u \in Concerned(a)
                                   THEN ExposureAfter(t, u) ELSE liability[u]]
  /\ record' = [record EXCEPT ![t.market].state = "rolled back"]
  /\ ReportsDue(a)

-----------------------------------------------------------------------------
(* The reports: the clients' are made side by side, each in steps of its own. *)

At(a, u, at) == report[a][u].at = at
Advance(a, u, at, net) == report' = [report EXCEPT ![a][u] = [@ EXCEPT !.at = at, !.net = net]]
End(a, u) == report' = [report EXCEPT ![a][u] = NoReport]

\* After a rollback the clients' shares are deleted first.
DeleteShares(a, u) ==
  /\ report[a][u].rollback /\ At(a, u, "due")
  /\ ledger' = [ledger EXCEPT ![u] = 0]
  /\ cleared' = cleared \union {u}
  /\ Advance(a, u, "ready", 0)
  /\ UNCHANGED <<books, record, userPnl, spoiled, task>>

Decided(u) == {b \in Of(Bets, u) : status[b] \in {"WON", "LOST"}}

\* Mutant: the losses are not netted.
Profit(u) == Sum(pnl, {b \in Decided(u) : pnl[b] > 0})

\* PnL = SUM(bet.pnl) over the client's won and lost bets of the event.
NetPnl(u) == Sum(pnl, Decided(u))

\* The won and lost bets are read; there is nothing to write without any.
ReadResults(a, u) ==
  /\ IF report[a][u].rollback
     THEN At(a, u, "ready") /\ \A v \in Users : ~At(a, v, "due")
     ELSE At(a, u, "due")
  /\ IF Decided(u) # {} THEN Advance(a, u, "read", NetPnl(u))
     ELSE IF report[a][u].rollback THEN End(a, u) ELSE Advance(a, u, "written", 0)
  /\ UNCHANGED <<books, record, userPnl, ledger, spoiled, cleared, task>>

\* The sum is written; a rollback distributes nothing.
WriteReport(a, u) ==
  /\ At(a, u, "read")
  /\ userPnl' = [userPnl EXCEPT ![u] = report[a][u].net]
  /\ IF report[a][u].rollback THEN End(a, u) ELSE Advance(a, u, "written", 0)
  /\ UNCHANGED <<books, record, ledger, spoiled, cleared, task>>

\* What is distributed is read from the report again; nothing is if it is zero.
FetchReport(a, u) ==
  /\ At(a, u, "written")
  /\ IF userPnl[u] = 0 THEN End(a, u) ELSE Advance(a, u, "fetched", userPnl[u])
  /\ UNCHANGED <<books, record, userPnl, ledger, spoiled, cleared, task>>

\* Mutant: what was distributed before is not deleted.
KeptShares(u) == ledger[u]

\* What a distribution leaves of the shares it finds.
SharesLeft(u) == 0

\* A transaction distributes: the shares it finds are deleted.  Another's that
\* are not committed by now are not found.
OpenDistribution(a, u) ==
  /\ At(a, u, "fetched")
  /\ ledger' = [ledger EXCEPT ![u] = SharesLeft(u)]
  /\ Advance(a, u, "open", report[a][u].net)
  /\ UNCHANGED <<books, record, userPnl, spoiled, cleared, task>>

\* The commit: the parents share the opposite of the client's result.
InsertShares(a, u) ==
  /\ At(a, u, "open")
  /\ ledger' = [ledger EXCEPT ![u] = @ - report[a][u].net]
  /\ cleared' = cleared \ {u}
  /\ End(a, u)
  /\ UNCHANGED <<books, record, userPnl, spoiled, task>>

\* A step of a client's report fails, which is only logged: a rollback that
\* could not delete the shares goes on, any other report ends.  A transaction
\* that fails leaves what it would have had it not been opened.
FailReport(a, u) ==
  /\ "reporting" \in FailsAt
  /\ report[a][u].at \in {"due", "ready", "read", "written", "fetched"}
  /\ IF report[a][u].rollback /\ At(a, u, "due") THEN Advance(a, u, "ready", 0) ELSE End(a, u)
  /\ spoiled' = spoiled \union {u}
  /\ UNCHANGED <<books, record, userPnl, ledger, cleared, task>>

-----------------------------------------------------------------------------
\* The request fails before it has paid: an error, a time limit, a crash.
Fail(a) ==
  /\ task[a].pc \in FailsAt
  /\ task' = [task EXCEPT ![a] = Idle]
  /\ UNCHANGED <<books, record, reports>>

AskToSettle(a) ==
  \E kind \in Outcomes, m \in Markets, w \in Runners, filter \in SettleFilters :
    ReadToSettle(a, kind, m, w, filter)

AskToRollback(a) ==
  \E m \in Markets, filter \in RollbackFilters : ReadToRollback(a, m, filter)

GoOnReporting(a, u) ==
  \/ DeleteShares(a, u) \/ ReadResults(a, u) \/ WriteReport(a, u) \/ FetchReport(a, u)
  \/ OpenDistribution(a, u) \/ InsertShares(a, u)

GoOn(a) ==
  \/ Validate(a) \/ Record(a) \/ Open(a) \/ CommitSettlement(a) \/ CommitRollback(a)
  \/ \E u \in Users : GoOnReporting(a, u)

Next ==
  \/ \E b \in Bets : Place(b)
  \/ \E a \in Admins :
       \/ AskToSettle(a) \/ AskToRollback(a) \/ GoOn(a) \/ Fail(a)
       \/ \E u \in Users : FailReport(a, u)

Spec == Init /\ [][Next]_vars

\* An administrator asks again while a market has open bets; a request that
\* has started goes on, and no step of it fails each time it is tried.
AskAgain(a, m) ==
  /\ \E b \in In(Bets, m) : status[b] = "PENDING"
  /\ \E w \in Runners : ReadToSettle(a, "settle", m, w, Bets)

Settling(a, m) == task[a].market = m /\ task[a].kind = "settle"

Persistence ==
  \A a \in Admins :
    /\ WF_vars(GoOn(a))
    /\ \A m \in Markets :
         /\ SF_vars(AskAgain(a, m))
         /\ SF_vars(Settling(a, m) /\ Validate(a))
         /\ SF_vars(Settling(a, m) /\ Record(a))
         /\ SF_vars(Settling(a, m) /\ Open(a))
         /\ SF_vars(Settling(a, m) /\ CommitSettlement(a))

PersistentSpec == Spec /\ Persistence

-----------------------------------------------------------------------------
Stages == {"none", "due", "ready", "read", "written", "fetched", "open"}

\* The shape of the state.
TypeOK ==
  /\ balance \in [Users -> Int] /\ liability \in [Users -> Int]
  /\ status \in [Bets -> {"none", "PENDING"} \union Settled]
  /\ pnl \in [Bets -> Int]
  /\ record \in [Markets -> [state : {"none", "live", "rolled back"}, winner : Runners \union {"none"}]]
  /\ userPnl \in [Users -> Int] /\ ledger \in [Users -> Int]
  /\ \A a \in Admins :
       /\ task[a].pc \in {"idle", "read", "validated", "recorded", "open"}
       /\ task[a].kind \in {"none", "settle", "cancel", "rollback"}
       /\ task[a].bets \subseteq Bets
  /\ report \in [Admins -> [Users -> [rollback : BOOLEAN, at : Stages, net : Int]]]
  /\ spoiled \subseteq Users /\ cleared \subseteq Users

Results(u) == Sum(pnl, Of(Bets, u))

\* Settling pays exactly the results of the bets and releases exactly what
\* they locked, and a rollback undoes both: "balance + liability = constant
\* (except when profit is added on win)", END_TO_END_AUDIT.md.
MoneyMatchesResults ==
  \A u \in Users : balance[u] + liability[u] = Funds[u] + Results(u)

\* The liability, which settling reduces by a sum over the bets and rolling
\* back recalculates, is the exposure of the bets that are open.
LiabilityIsExposure == \A u \in Users : liability[u] = ExposureOf(Pending(u))

\* Settled bets stand under a record that can be rolled back: one that was
\* rolled back has none left.
SettledUnderLiveRecord ==
  \A b \in Bets : status[b] \in Settled => record[b.market].state = "live"

\* All the bets of a market that were won or lost agree on the winner, which is
\* the one on record.
OneWinner ==
  \A b \in Bets : status[b] \in {"WON", "LOST"} => pnl[b] = BetPnl(b, record[b.market].winner)

\* Every report of client u has ended, the last one by itself and without a
\* failure.
Reported(u) == u \notin spoiled /\ Reporting(u) = {}

\* The report of a client with decided bets is the sum of their results,
\* however the markets of the event were settled, rolled back and settled again
\* and whichever requests failed, once all requests have reported on the client
\* and the last of them met no other report of the client and none of its steps
\* failed.  Reports that meet are no exception the code rules out: the older of
\* two sums may be written last, and stays until the client's next report.
ReportIsSum ==
  \A u \in Users : Reported(u) /\ Decided(u) # {} => userPnl[u] = Results(u)

\* And the parents' ledgers then hold that result exactly once, or not at all
\* if a rollback deleted it with nothing distributed since: it stays out even
\* for the markets of the event that stand.  (A result of zero is not
\* distributed: the ledgers keep what they held.)
SharesFollowResults ==
  \A u \in Users : Reported(u) /\ Results(u) # 0 =>
    ledger[u] = IF u \in cleared THEN 0 ELSE -Results(u)

Unpaid(m) ==
  /\ record[m].state = "live" /\ SettledIn(m) = {}
  /\ \E b \in In(Bets, m) : status[b] = "PENDING"

\* A request that failed between its record and its transaction does not leave
\* the market unpaid for ever: asking again works.
UnpaidIsPaid == \A m \in Markets : Unpaid(m) ~> ~Unpaid(m)
=============================================================================
