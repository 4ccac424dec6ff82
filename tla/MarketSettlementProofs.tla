----------------------- MODULE MarketSettlementProofs -----------------------
(***************************************************************************)
(* Proofs about MarketSettlement: the types of its state, the records      *)
(* settled bets stand under, the reports, and the money, for any number of *)
(* clients, markets, bets and requests.                                    *)
(***************************************************************************)
EXTENDS MarketSettlement, MoneyTheorems

-----------------------------------------------------------------------------
(* Types *)

PCs == {"idle", "read", "validated", "recorded", "open"}

Requests ==
  [pc : PCs, kind : {"none", "settle", "cancel", "rollback"}, market : Markets \union {"none"},
   winner : Runners \union {"none"}, bets : SUBSET Bets,
   balance : [Users -> Int], liability : [Users -> Int], taken : [Users -> Int]]

Reports == [rollback : BOOLEAN, at : Stages, net : Int]

TypeInv ==
  /\ balance \in [Users -> Int] /\ liability \in [Users -> Int]
  /\ status \in [Bets -> {"none", "PENDING"} \union Settled]
  /\ pnl \in [Bets -> Int]
  /\ record \in [Markets -> [state : {"none", "live", "rolled back"}, winner : Runners \union {"none"}]]
  /\ userPnl \in [Users -> Int] /\ ledger \in [Users -> Int]
  /\ report \in [Admins -> [Users -> Reports]]
  /\ spoiled \subseteq Users /\ cleared \subseteq Users
  /\ task \in [Admins -> Requests]
  /\ \A a \in Admins : task[a].pc # "idle" => task[a].market \in Markets

LEMMA Amounts ==
  ASSUME TypeInv
  PROVE  /\ \A u \in Users : balance[u] \in Int /\ liability[u] \in Int
         /\ \A u \in Users : userPnl[u] \in Int /\ ledger[u] \in Int
         /\ \A b \in Bets : pnl[b] \in Int
BY DEF TypeInv

LEMMA ReadAmounts ==
  ASSUME NEW t \in Requests
  PROVE  /\ \A u \in Users : t.balance[u] \in Int /\ t.liability[u] \in Int /\ t.taken[u] \in Int
         /\ t.bets \in SUBSET Bets
BY DEF Requests

LEMMA BetFields ==
  ASSUME NEW b \in Bets
  PROVE  /\ b.user \in Users /\ b.market \in Markets /\ b.selection \in Runners
         /\ b.side \in {"BACK", "LAY"} /\ b.stake \in Nat /\ b.profit \in Nat
BY SettlementAssumption

LEMMA BetsMakeBooks ==
  ASSUME NEW S \in SUBSET Bets
  PROVE  Book(S) /\ IsFiniteSet(S)
<1>1. IsFiniteSet(S)
  BY FS_Subset, SettlementAssumption
<1>2. QED BY <1>1, BetFields DEF Book

LEMMA ExposureInteger ==
  ASSUME NEW S \in SUBSET Bets
  PROVE  ExposureOf(S) \in Int
<1> DEFINE f == [m \in Markets |-> MatchOddsExposure(In(S, m))]
<1>1. \A m \in Markets : f[m] \in Int
  BY BetsMakeBooks, MatchOddsExposureNatural DEF In
<1> HIDE DEF f
<1>2. Sum(f, Markets) \in Int
  BY <1>1, SumType, SettlementAssumption
<1>3. QED BY <1>2 DEF f, ExposureOf

Locks == [b \in Bets |-> LockedBy(b)]

LEMMA LocksNatural == \A b \in Bets : Locks[b] \in Nat
BY BetFields DEF Locks, LockedBy

LEMMA LockedNatural ==
  ASSUME NEW S \in SUBSET Bets
  PROVE  TotalLocked(S) = Sum(Locks, S) /\ TotalLocked(S) \in Nat
<1>1. TotalLocked(S) = Sum(Locks, S)
  BY DEF TotalLocked, Locks
<1>2. Sum(Locks, S) \in Nat
  BY LocksNatural, SumNatural, BetsMakeBooks
<1>3. QED BY <1>1, <1>2

LEMMA BetPnlInteger == \A b \in Bets : \A w : BetPnl(b, w) \in Int
BY BetsMakeBooks, EarnsInteger DEF BetPnl

LEMMA ResultsInteger ==
  ASSUME NEW S \in SUBSET Bets, NEW w
  PROVE  Sum([b \in S |-> BetPnl(b, w)], S) \in Int
<1> DEFINE f == [b \in S |-> BetPnl(b, w)]
<1>1. \A b \in S : f[b] \in Int
  BY BetPnlInteger
<1> HIDE DEF f
<1>2. Sum(f, S) \in Int
  BY <1>1, SumType, BetsMakeBooks
<1>3. QED BY <1>2 DEF f

LEMMA ReleasedInteger ==
  ASSUME NEW S \in SUBSET Bets
  PROVE  Released(S) \in Int
<1> DEFINE laid == {b.selection : b \in {c \in S : c.side = "LAY"}}
           row(s) == [b \in S |-> IF b.side = "LAY" /\ b.selection = s THEN -b.profit ELSE b.stake]
           net(s) == Sum(row(s), S)
           nets == [s \in laid |-> net(s)]
<1>1. TotalLocked(S) \in Int
  BY LockedNatural
<1>2. ASSUME ~(Cardinality(laid) <= 1) PROVE Min({net(s) : s \in laid}) \in Int
  <2>1. \A s : net(s) \in Int
    <3> SUFFICES ASSUME NEW s PROVE net(s) \in Int
      OBVIOUS
    <3> DEFINE f == row(s)
    <3>1. \A b \in S : f[b] \in Int
      <4> SUFFICES ASSUME NEW b \in S PROVE f[b] \in Int
        OBVIOUS
      <4>1. -b.profit \in Int /\ b.stake \in Int
        BY BetFields
      <4>2. QED BY <4>1
    <3> HIDE DEF f
    <3>2. Sum(f, S) \in Int
      BY <3>1, SumType, BetsMakeBooks
    <3>3. QED BY <3>2 DEF f
  <2>2. IsFiniteSet(laid)
    <3> DEFINE T == {c \in S : c.side = "LAY"}
               f == [b \in T |-> b.selection]
    <3>1. IsFiniteSet({f[b] : b \in T})
      BY BetsMakeBooks, ImageFinite
    <3>2. {f[b] : b \in T} = laid
      OBVIOUS
    <3>3. QED BY <3>1, <3>2
  <2>3. laid # {}
    BY <1>2, FS_EmptySet
  <2> DEFINE R == {net(s) : s \in laid}
  <2>4. IsFiniteSet(R)
    <3>1. IsFiniteSet({nets[s] : s \in laid})
      BY <2>2, ImageFinite
    <3> HIDE DEF net
    <3>2. {nets[s] : s \in laid} = R
      OBVIOUS
    <3>3. QED BY <3>1, <3>2
  <2>5. R # {} /\ \A x \in R : x \in Int
    <3> HIDE DEF net
    <3>1. QED BY <2>1, <2>3
  <2> HIDE DEF R
  <2>6. Min(R) \in R
    BY <2>4, <2>5, MinIsLeast
  <2>7. QED BY <2>5, <2>6 DEF R
<1>3. Released(S) = IF Cardinality(laid) <= 1 THEN TotalLocked(S) ELSE Abs(Min({net(s) : s \in laid}))
  BY DEF Released
<1> HIDE DEF laid, net
<1>4. QED BY <1>1, <1>2, <1>3 DEF Abs

LEMMA PaidWalletType ==
  ASSUME NEW read \in [balance : Int, liability : Int], NEW S \in SUBSET Bets, NEW w,
         NEW before \in Int, NEW after \in Int
  PROVE  /\ PaidWallet(read, S, w, before, after).balance \in Int
         /\ PaidWallet(read, S, w, before, after).liability \in Int
<1> DEFINE total == Sum([b \in S |-> BetPnl(b, w)], S)
           left == read.liability - Released(S)
<1>1. total \in Int /\ Released(S) \in Int
  BY ResultsInteger, ReleasedInteger
<1>2. read.balance \in Int /\ read.liability \in Int
  OBVIOUS
<1>3. Max({0, left}) \in Int
  <2>1. left \in Int
    BY <1>1, <1>2
  <2> HIDE DEF left
  <2>2. QED BY <2>1, MaxWithZero
<1>4. PaidWallet(read, S, w, before, after) =
        IF Offset(S)
        THEN [balance |-> IF total > 0 THEN read.balance + total + (before - after) ELSE read.balance,
              liability |-> after]
        ELSE [balance |-> read.balance + total + Released(S), liability |-> Max({0, left})]
  BY DEF PaidWallet
<1> HIDE DEF total, left
<1>5. QED BY <1>1, <1>2, <1>3, <1>4

LEMMA RefundedWalletType ==
  ASSUME NEW read \in [balance : Int, liability : Int], NEW S \in SUBSET Bets
  PROVE  RefundedWallet(read, S).balance \in Int /\ RefundedWallet(read, S).liability \in Int
<1> DEFINE side(s, d) == {b \in S : b.selection = s /\ b.side = d}
           refund == [s \in Selections(S) |->
                        Abs(TotalLocked(side(s, "BACK")) - TotalLocked(side(s, "LAY")))]
<1>1. \A s \in Selections(S) : refund[s] \in Int
  <2> SUFFICES ASSUME NEW s \in Selections(S) PROVE refund[s] \in Int
    OBVIOUS
  <2>1. side(s, "BACK") \in SUBSET Bets /\ side(s, "LAY") \in SUBSET Bets
    OBVIOUS
  <2> HIDE DEF side
  <2>2. TotalLocked(side(s, "BACK")) \in Int /\ TotalLocked(side(s, "LAY")) \in Int
    BY <2>1, LockedNatural
  <2>3. QED BY <2>2 DEF Abs
<1>2. IsFiniteSet(Selections(S))
  BY BetsMakeBooks, SelectionsFinite
<1>3. RefundedWallet(read, S) = [balance |-> read.balance + Sum(refund, Selections(S)), liability |-> 0]
  BY DEF RefundedWallet
<1> HIDE DEF refund
<1>4. Sum(refund, Selections(S)) \in Int
  BY <1>1, <1>2, SumType
<1>5. read.balance \in Int
  OBVIOUS
<1>6. QED BY <1>3, <1>4, <1>5

LEMMA TaskType ==
  ASSUME NEW pc \in PCs, NEW kind \in {"none", "settle", "cancel", "rollback"},
         NEW m \in Markets \union {"none"}, NEW w \in Runners \union {"none"}, NEW S \in SUBSET Bets
  PROVE  Task(pc, kind, m, w, S) \in Requests /\ Task(pc, kind, m, w, S).market = m
         /\ Task(pc, kind, m, w, S).pc = pc
BY DEF Task, Requests

LEMMA IdleType == Idle \in Requests /\ Idle.pc = "idle"
BY TaskType DEF Idle, PCs

LEMMA TakenInteger ==
  ASSUME TypeInv, NEW S \in SUBSET Bets, NEW u
  PROVE  Sum([b \in S |-> TakenBack(b)], Of(S, u)) \in Int
<1> DEFINE f == [b \in S |-> TakenBack(b)]
<1>1. \A b \in Of(S, u) : f[b] \in Int
  <2> SUFFICES ASSUME NEW b \in S PROVE TakenBack(b) \in Int
    BY DEF Of
  <2>1. b.stake + b.profit \in Int /\ LockedBy(b) \in Int /\ 0 \in Int
    BY BetFields DEF LockedBy
  <2>2. QED BY <2>1 DEF TakenBack
<1>2. Of(S, u) \in SUBSET Bets
  BY DEF Of
<1> HIDE DEF f
<1>3. Sum(f, Of(S, u)) \in Int
  BY <1>1, <1>2, SumType, BetsMakeBooks
<1>4. QED BY <1>3 DEF f

LEMMA NetPnlInteger ==
  ASSUME TypeInv, NEW u \in Users
  PROVE  NetPnl(u) \in Int
<1>1. Decided(u) \in SUBSET Bets
  BY DEF Decided, Of
<1>2. Sum(pnl, Decided(u)) \in Int
  BY <1>1, BetsMakeBooks, SumType DEF TypeInv
<1>3. QED BY <1>2 DEF NetPnl

LEMMA StageType ==
  /\ NoReport \in Reports
  /\ \A rollback \in BOOLEAN, at \in Stages, net \in Int :
       /\ Stage(rollback, at, net) \in Reports
       /\ Stage(rollback, at, net).rollback = rollback
       /\ Stage(rollback, at, net).at = at /\ Stage(rollback, at, net).net = net
BY DEF NoReport, Stage, Reports, Stages

\* The report of a client moves on, or ends.
LEMMA ReportMoves ==
  ASSUME TypeInv, NEW a \in Admins, NEW u \in Users, NEW at \in Stages, NEW net \in Int,
         Advance(a, u, at, net) \/ End(a, u)
  PROVE  \E r \in Reports :
           /\ report' = [report EXCEPT ![a][u] = r]
           /\ End(a, u) \/ (r.at = at /\ r.net = net /\ r.rollback = report[a][u].rollback)
<1>1. report[a][u] \in Reports
  BY DEF TypeInv
<1>2. CASE Advance(a, u, at, net)
  <2> DEFINE r == [report[a][u] EXCEPT !.at = at, !.net = net]
  <2>1. r \in Reports /\ r.at = at /\ r.net = net /\ r.rollback = report[a][u].rollback
    BY <1>1 DEF Reports
  <2>2. report' = [report EXCEPT ![a][u] = r]
    BY <1>2 DEF Advance
  <2> HIDE DEF r
  <2>3. QED BY <2>1, <2>2
<1>3. CASE End(a, u)
  BY <1>3, StageType DEF End
<1>4. QED BY <1>2, <1>3

LEMMA TypeInit == Init => TypeInv
<1> SUFFICES ASSUME Init PROVE TypeInv
  OBVIOUS
<1>1. balance \in [Users -> Int]
  BY SettlementAssumption DEF Init
<1>2. task \in [Admins -> Requests] /\ \A a \in Admins : task[a].pc = "idle"
  BY IdleType DEF Init
<1>3. report \in [Admins -> [Users -> Reports]]
  BY StageType DEF Init
<1>4. QED BY <1>1, <1>2, <1>3 DEF Init, TypeInv, Settled

\* A request goes on with a task of the right type.
LEMMA TaskStep ==
  ASSUME TypeInv, NEW a \in Admins, NEW t \in Requests, task' = [task EXCEPT ![a] = t],
         t.pc # "idle" => t.market \in Markets
  PROVE  task' \in [Admins -> Requests] /\ \A c \in Admins : task'[c].pc # "idle" => task'[c].market \in Markets
BY DEF TypeInv

\* A request that has paid leaves reports to be made.
LEMMA TypeReportsDue ==
  ASSUME TypeInv, NEW a \in Admins, ReportsDue(a)
  PROVE  /\ task' \in [Admins -> Requests]
         /\ \A c \in Admins : task'[c].pc # "idle" => task'[c].market \in Markets
         /\ userPnl' \in [Users -> Int] /\ ledger' \in [Users -> Int]
         /\ report' \in [Admins -> [Users -> Reports]]
         /\ spoiled' \subseteq Users /\ cleared' \subseteq Users
<1>1. /\ task' \in [Admins -> Requests]
      /\ \A c \in Admins : task'[c].pc # "idle" => task'[c].market \in Markets
  BY IdleType, TaskStep DEF ReportsDue
<1>2. report' \in [Admins -> [Users -> Reports]]
  <2> DEFINE f == [u \in Users |-> IF u \in Concerned(a)
                                  THEN Stage(task[a].kind = "rollback", "due", 0) ELSE NoReport]
  <2>1. (task[a].kind = "rollback") \in BOOLEAN /\ "due" \in Stages /\ 0 \in Int
    BY DEF Stages
  <2>2. f \in [Users -> Reports]
    BY <2>1, StageType
  <2>3. report' = [report EXCEPT ![a] = f]
    BY DEF ReportsDue
  <2> HIDE DEF f
  <2>4. QED BY <2>2, <2>3 DEF TypeInv
<1>3. spoiled' \subseteq Users
  <2>1. task[a].bets \subseteq Bets
    BY DEF TypeInv, Requests
  <2>2. Concerned(a) \subseteq Users
    BY <2>1, BetFields DEF Concerned
  <2>3. QED BY <2>2 DEF ReportsDue, TypeInv
<1>4. QED BY <1>1, <1>2, <1>3 DEF ReportsDue, TypeInv

LEMMA TypePlace ==
  ASSUME TypeInv, NEW b \in Bets, Place(b)
  PROVE  TypeInv'
<1> DEFINE u == b.user
           before == ExposureOf(Pending(u))
           after == ExposureOf(Pending(u) \union {b})
<1>1. u \in Users
  BY BetFields
<1>2. before \in Int /\ after \in Int
  BY ExposureInteger DEF Pending, Of
<1>3. /\ balance' = [balance EXCEPT ![u] = @ - (after - before)]
      /\ liability' = [liability EXCEPT ![u] = @ + (after - before)]
      /\ status' = [status EXCEPT ![b] = "PENDING"]
      /\ UNCHANGED <<pnl, record, reports, task>>
  BY DEF Place
<1> DEFINE delta == after - before
<1>4. balance' \in [Users -> Int] /\ liability' \in [Users -> Int]
  <2>1. delta \in Int
    BY <1>2
  <2>2. balance' = [balance EXCEPT ![u] = balance[u] - delta]
    BY <1>3
  <2>3. liability' = [liability EXCEPT ![u] = liability[u] + delta]
    BY <1>3
  <2> HIDE DEF delta, u
  <2>4. balance[u] - delta \in Int /\ liability[u] + delta \in Int
    BY <1>1, <2>1, Amounts
  <2>5. QED BY <2>2, <2>3, <2>4 DEF TypeInv
<1> HIDE DEF before, after, u
<1>5. QED BY <1>3, <1>4 DEF TypeInv, reports

LEMMA TypeCommitSettlement ==
  ASSUME TypeInv, NEW a \in Admins, CommitSettlement(a)
  PROVE  TypeInv'
<1> DEFINE t == task[a]
           S(u) == Of(t.bets, u)
           read(u) == [balance |-> t.balance[u], liability |-> t.liability[u]]
           wallet(u) == IF t.kind = "cancel" THEN RefundedWallet(read(u), S(u))
                        ELSE PaidWallet(read(u), S(u), t.winner,
                                        ExposureOf(Pending(u)), ExposureOf(Pending(u) \ S(u)))
<1>1. t \in Requests /\ t.pc = "open" /\ t.market \in Markets
  BY DEF TypeInv, CommitSettlement
<1>2. \A u \in Users : wallet(u).balance \in Int /\ wallet(u).liability \in Int
  <2> SUFFICES ASSUME NEW u \in Users PROVE wallet(u).balance \in Int /\ wallet(u).liability \in Int
    OBVIOUS
  <2>1. S(u) \in SUBSET Bets /\ Pending(u) \in SUBSET Bets /\ Pending(u) \ S(u) \in SUBSET Bets
    BY <1>1 DEF Of, Pending, Requests
  <2>2. read(u) \in [balance : Int, liability : Int]
    BY <1>1 DEF Requests
  <2>3. ExposureOf(Pending(u)) \in Int /\ ExposureOf(Pending(u) \ S(u)) \in Int
    BY <2>1, ExposureInteger
  <2> HIDE DEF S, read, t
  <2>4. QED BY <2>1, <2>2, <2>3, RefundedWalletType, PaidWalletType
<1>3. /\ balance' = [u \in Users |-> IF u \in Concerned(a) THEN wallet(u).balance ELSE balance[u]]
      /\ liability' = [u \in Users |-> IF u \in Concerned(a) THEN wallet(u).liability ELSE liability[u]]
  BY DEF CommitSettlement
<1>4. balance' \in [Users -> Int] /\ liability' \in [Users -> Int]
  <2> HIDE DEF wallet
  <2>1. QED BY <1>2, <1>3 DEF TypeInv
<1>5. pnl' \in [Bets -> Int]
  <2> DEFINE value(b) == IF b \notin t.bets THEN pnl[b]
                         ELSE IF t.kind = "cancel" THEN 0 ELSE BetPnl(b, t.winner)
  <2>1. \A b \in Bets : value(b) \in Int
    BY BetPnlInteger, Amounts
  <2>2. pnl' = [b \in Bets |-> value(b)]
    BY DEF CommitSettlement
  <2> HIDE DEF value
  <2>3. QED BY <2>1, <2>2
<1>6. status' \in [Bets -> {"none", "PENDING"} \union Settled]
  BY DEF CommitSettlement, TypeInv, Settled
<1>7. ReportsDue(a) /\ UNCHANGED record
  BY DEF CommitSettlement
<1>8. QED BY <1>4, <1>5, <1>6, <1>7, TypeReportsDue DEF TypeInv

LEMMA TypeCommitRollback ==
  ASSUME TypeInv, NEW a \in Admins, CommitRollback(a)
  PROVE  TypeInv'
<1> DEFINE t == task[a]
<1>1. t \in Requests /\ t.pc = "open" /\ t.market \in Markets
  BY DEF TypeInv, CommitRollback
<1>2. balance' \in [Users -> Int]
  <2> DEFINE value(u) == IF u \in Concerned(a) /\ t.taken[u] # 0
                         THEN t.balance[u] - t.taken[u] ELSE balance[u]
  <2>1. \A u \in Users : value(u) \in Int
    BY <1>1, Amounts, ReadAmounts
  <2>2. balance' = [u \in Users |-> value(u)]
    BY DEF CommitRollback
  <2> HIDE DEF value
  <2>3. QED BY <2>1, <2>2
<1>3. liability' \in [Users -> Int]
  <2> DEFINE after(u) == ExposureOf(Pending(u) \union Of(t.bets, u))
  <2>1. \A u \in Users : after(u) \in Int
    BY <1>1, ExposureInteger DEF Pending, Of, Requests
  <2>2. liability' = [u \in Users |-> IF u \in Concerned(a) THEN after(u) ELSE liability[u]]
    BY DEF CommitRollback, ExposureAfter
  <2> HIDE DEF after
  <2>3. QED BY <2>1, <2>2 DEF TypeInv
<1>4. ReportsDue(a)
  BY DEF CommitRollback
<1>5. record' \in [Markets -> [state : {"none", "live", "rolled back"}, winner : Runners \union {"none"}]]
  BY <1>1 DEF CommitRollback, TypeInv
<1>6. status' \in [Bets -> {"none", "PENDING"} \union Settled]
  BY DEF CommitRollback, TypeInv
<1>7. pnl' \in [Bets -> Int]
  <2>1. pnl' = [b \in Bets |-> IF b \in t.bets THEN 0 ELSE pnl[b]]
    BY DEF CommitRollback
  <2>2. QED BY <2>1, Amounts
<1>8. QED BY <1>2, <1>3, <1>4, <1>5, <1>6, <1>7, TypeReportsDue DEF TypeInv

\* Reporting leaves the wallets, the bets, the records and the requests alone.
LEMMA ReportingElsewhere ==
  ASSUME NEW a, NEW u, GoOnReporting(a, u) \/ FailReport(a, u)
  PROVE  UNCHANGED <<balance, liability, status, pnl, record, task>>
BY DEF GoOnReporting, DeleteShares, ReadResults, WriteReport, FetchReport, OpenDistribution, InsertShares,
       FailReport, books

LEMMA TypeReporting ==
  ASSUME TypeInv, NEW a \in Admins, NEW u \in Users, GoOnReporting(a, u) \/ FailReport(a, u)
  PROVE  TypeInv'
<1>1. UNCHANGED <<balance, liability, status, pnl, record, task>>
  BY ReportingElsewhere
<1>2. userPnl' \in [Users -> Int] /\ ledger' \in [Users -> Int]
  <2>1. report[a][u].net \in Int
    BY DEF TypeInv, Reports
  <2>2. ledger[u] \in Int /\ ledger[u] - report[a][u].net \in Int
    BY <2>1, Amounts
  <2>3. CASE DeleteShares(a, u) \/ OpenDistribution(a, u)
    <3>1. UNCHANGED userPnl /\ ledger' = [ledger EXCEPT ![u] = 0]
      BY <2>3 DEF DeleteShares, OpenDistribution, SharesLeft
    <3>2. userPnl \in [Users -> Int] /\ ledger \in [Users -> Int]
      BY DEF TypeInv
    <3>3. QED BY <3>1, <3>2
  <2>4. CASE WriteReport(a, u)
    <3> DEFINE net == report[a][u].net
    <3>1. UNCHANGED ledger /\ userPnl' = [userPnl EXCEPT ![u] = net]
      BY <2>4 DEF WriteReport
    <3>2. net \in Int
      BY <2>1
    <3> HIDE DEF net
    <3>3. QED BY <3>1, <3>2 DEF TypeInv
  <2>5. CASE InsertShares(a, u)
    <3>1. UNCHANGED userPnl /\ ledger' = [ledger EXCEPT ![u] = ledger[u] - report[a][u].net]
      BY <2>5 DEF InsertShares
    <3>2. QED BY <2>2, <3>1 DEF TypeInv
  <2>6. CASE ReadResults(a, u) \/ FetchReport(a, u) \/ FailReport(a, u)
    BY <2>6 DEF ReadResults, FetchReport, FailReport, TypeInv
  <2>7. QED BY <2>3, <2>4, <2>5, <2>6 DEF GoOnReporting
<1>3. spoiled' \subseteq Users /\ cleared' \subseteq Users
  BY DEF GoOnReporting, DeleteShares, ReadResults, WriteReport, FetchReport, OpenDistribution, InsertShares,
         FailReport, TypeInv
<1>4. report' \in [Admins -> [Users -> Reports]]
  <2>1. \E at \in Stages, net \in Int : Advance(a, u, at, net) \/ End(a, u)
    <3>1. NetPnl(u) \in Int /\ userPnl[u] \in Int /\ report[a][u].net \in Int
      BY NetPnlInteger DEF TypeInv, Reports
    <3>2. QED BY <3>1 DEF GoOnReporting, DeleteShares, ReadResults, WriteReport, FetchReport,
                          OpenDistribution, InsertShares, FailReport, Stages
  <2>2. PICK r \in Reports : report' = [report EXCEPT ![a][u] = r]
    BY <2>1, ReportMoves
  <2>3. QED BY <2>2 DEF TypeInv
<1>5. QED BY <1>1, <1>2, <1>3, <1>4 DEF TypeInv

\* The steps that only prepare: the wallets, the bets and the reports stay.
LEMMA TypePreparing ==
  ASSUME TypeInv, NEW a \in Admins,
         AskToSettle(a) \/ AskToRollback(a) \/ Validate(a) \/ Record(a) \/ Open(a) \/ Fail(a)
  PROVE  TypeInv'
<1> DEFINE t == task[a]
<1>1. t \in Requests /\ (t.pc # "idle" => t.market \in Markets)
  BY DEF TypeInv
<1>2. CASE AskToSettle(a)
  <2>1. PICK kind \in Outcomes, m \in Markets, w \in Runners, filter \in SettleFilters :
          ReadToSettle(a, kind, m, w, filter)
    BY <1>2 DEF AskToSettle
  <2> DEFINE S == {b \in In(filter, m) : status[b] = "PENDING"}
  <2>2. S \in SUBSET Bets /\ kind \in {"none", "settle", "cancel", "rollback"}
    BY SettlementAssumption DEF In
  <2>3. Task("read", kind, m, w, S) \in Requests /\ Task("read", kind, m, w, S).market = m
    <3> HIDE DEF S
    <3>1. QED BY <2>2, TaskType DEF PCs
  <2>4. task' = [task EXCEPT ![a] = Task("read", kind, m, w, S)] /\ UNCHANGED <<books, record, reports>>
    BY <2>1 DEF ReadToSettle
  <2> HIDE DEF S
  <2>5. QED BY <2>3, <2>4, TaskStep DEF TypeInv, books, reports
<1>3. CASE AskToRollback(a)
  <2>1. PICK m \in Markets, filter \in RollbackFilters : ReadToRollback(a, m, filter)
    BY <1>3 DEF AskToRollback
  <2> DEFINE S == SettledIn(m) \intersect filter
             T == [Task("recorded", "rollback", m, "none", S)
                     EXCEPT !.taken = [u \in Users |-> Sum([b \in S |-> TakenBack(b)], Of(S, u))]]
  <2>2. S \in SUBSET Bets
    BY DEF SettledIn, In
  <2>3. [u \in Users |-> Sum([b \in S |-> TakenBack(b)], Of(S, u))] \in [Users -> Int]
    <3> HIDE DEF S
    <3>1. QED BY <2>2, TakenInteger
  <2>4. Task("recorded", "rollback", m, "none", S) \in Requests /\ Task("recorded", "rollback", m, "none", S).market = m
    <3> HIDE DEF S
    <3>1. QED BY <2>2, TaskType DEF PCs
  <2>5. T \in Requests /\ T.market = m
    BY <2>3, <2>4 DEF Requests
  <2>6. task' = [task EXCEPT ![a] = T] /\ UNCHANGED <<books, record, reports>>
    BY <2>1 DEF ReadToRollback
  <2> HIDE DEF T
  <2>7. QED BY <2>5, <2>6, TaskStep DEF TypeInv, books, reports
<1>4. CASE Validate(a)
  <2>1. PICK r \in {Idle, [t EXCEPT !.pc = "validated"]} :
          task' = [task EXCEPT ![a] = r]
    BY <1>4 DEF Validate
  <2>2. r \in Requests /\ (r.pc # "idle" => r.market \in Markets)
    BY <1>1, <1>4, <2>1, IdleType DEF Requests, PCs, Validate
  <2>3. UNCHANGED <<books, record, reports>>
    BY <1>4 DEF Validate
  <2>4. QED BY <2>1, <2>2, <2>3, TaskStep DEF TypeInv, books, reports
<1>5. CASE Record(a)
  <2> DEFINE r == [t EXCEPT !.pc = "recorded"]
  <2>1. task' = [task EXCEPT ![a] = r] /\ UNCHANGED <<books, reports>>
    BY <1>5 DEF Record
  <2>2. r \in Requests /\ r.market \in Markets
    BY <1>1, <1>5 DEF Requests, PCs, Record
  <2>3. record' \in [Markets -> [state : {"none", "live", "rolled back"}, winner : Runners \union {"none"}]]
    BY <1>1, <1>5 DEF Record, TypeInv, Requests
  <2> HIDE DEF r
  <2>4. QED BY <2>1, <2>2, <2>3, TaskStep DEF TypeInv, books, reports
<1>6. CASE Open(a)
  <2> DEFINE r == [t EXCEPT !.pc = "open", !.balance = balance, !.liability = liability]
  <2>1. task' = [task EXCEPT ![a] = r] /\ UNCHANGED <<books, record, reports>>
    BY <1>6 DEF Open
  <2>2. r \in Requests /\ r.market \in Markets
    BY <1>1, <1>6 DEF Requests, PCs, Open, TypeInv
  <2> HIDE DEF r
  <2>3. QED BY <2>1, <2>2, TaskStep DEF TypeInv, books, reports
<1>7. CASE Fail(a)
  <2>1. task' = [task EXCEPT ![a] = Idle] /\ UNCHANGED <<books, record, reports>>
    BY <1>7 DEF Fail
  <2>2. QED BY <2>1, IdleType, TaskStep DEF TypeInv, books, reports
<1>8. QED BY <1>2, <1>3, <1>4, <1>5, <1>6, <1>7

LEMMA TypeStep ==
  ASSUME TypeInv, [Next]_vars
  PROVE  TypeInv'
<1>1. ASSUME NEW b \in Bets, Place(b) PROVE TypeInv'
  BY <1>1, TypePlace
<1>2. ASSUME NEW a \in Admins, AskToSettle(a) \/ AskToRollback(a) \/ GoOn(a) \/ Fail(a)
      PROVE  TypeInv'
  BY <1>2, TypePreparing, TypeCommitSettlement, TypeCommitRollback, TypeReporting DEF GoOn
<1>3. ASSUME NEW a \in Admins, NEW u \in Users, FailReport(a, u) PROVE TypeInv'
  BY <1>3, TypeReporting
<1>4. CASE UNCHANGED vars
  BY <1>4 DEF TypeInv, vars
<1>5. QED BY <1>1, <1>2, <1>3, <1>4 DEF Next

\* Every reachable state has its types: no combination of overlapping or failed
\* settlements, cancellations and rollbacks writes anything else.
THEOREM TypeInvariant == Spec => []TypeInv
<1>1. QED BY TypeInit, TypeStep, PTL DEF Spec

-----------------------------------------------------------------------------
(* The records settled bets stand under *)

\* Requests that still have to commit are for different markets.
Busy(a) == task[a].pc \in {"read", "validated", "recorded", "open"}
Apart == \A a, c \in Admins : a # c /\ Busy(a) /\ Busy(c) => task[a].market # task[c].market

\* Rollbacks name no bets.
WholeRollbacks == RollbackFilters \subseteq {Bets}

\* A settlement under way has open bets of its market, in which nothing else is
\* settled once it was validated, and stands under its own record once that is
\* written; a rollback has all the settled bets.
RequestInv(a) ==
  LET t == task[a] IN
  /\ Busy(a) /\ t.kind # "rollback" =>
       /\ \A b \in t.bets : b.market = t.market /\ status[b] = "PENDING"
       /\ t.pc # "read" => SettledIn(t.market) = {}
       /\ t.pc \in {"recorded", "open"} => record[t.market] = [state |-> "live", winner |-> t.winner]
  /\ Busy(a) /\ t.kind = "rollback" => t.pc \in {"recorded", "open"} /\ t.bets = SettledIn(t.market)

RecordInv == SettledUnderLiveRecord /\ OneWinner /\ \A a \in Admins : RequestInv(a)

LEMMA RecordInit == Init => RecordInv
<1> SUFFICES ASSUME Init PROVE RecordInv
  OBVIOUS
<1>1. \A a \in Admins : ~Busy(a)
  BY IdleType DEF Init, Busy
<1>2. \A a \in Admins : RequestInv(a)
  BY <1>1 DEF RequestInv
<1>3. QED BY <1>2 DEF Init, RecordInv, SettledUnderLiveRecord, OneWinner, Settled

\* Steps that settle nothing and write no record keep what other requests need.
LEMMA OthersUndisturbed ==
  ASSUME TypeInv, RecordInv, NEW a \in Admins, UNCHANGED <<status, pnl, record>>,
         NEW t \in Requests, task' = [task EXCEPT ![a] = t], RequestInv(a)'
  PROVE  RecordInv'
<1>1. SettledUnderLiveRecord' /\ OneWinner'
  BY DEF RecordInv, SettledUnderLiveRecord, OneWinner
<1>2. ASSUME NEW c \in Admins, c # a PROVE RequestInv(c)'
  <2>1. task'[c] = task[c] /\ RequestInv(c)
    BY <1>2 DEF TypeInv, RecordInv
  <2>2. QED BY <2>1 DEF RequestInv, Busy, SettledIn, In
<1>3. QED BY <1>1, <1>2 DEF RecordInv

LEMMA RecordPlace ==
  ASSUME TypeInv, RecordInv, NEW b \in Bets, Place(b)
  PROVE  RecordInv'
<1>1. /\ status[b] = "none" /\ status' = [status EXCEPT ![b] = "PENDING"]
      /\ UNCHANGED <<pnl, record, task>>
  BY DEF Place
<1>2. \A c \in Bets : c # b => status'[c] = status[c]
  BY <1>1 DEF TypeInv
<1>3. status'[b] = "PENDING"
  BY <1>1 DEF TypeInv
<1>4. \A m : SettledIn(m)' = SettledIn(m)
  BY <1>1, <1>2, <1>3 DEF SettledIn, In, Settled
<1>5. SettledUnderLiveRecord' /\ OneWinner'
  BY <1>1, <1>2, <1>3 DEF RecordInv, SettledUnderLiveRecord, OneWinner, Settled
<1>6. ASSUME NEW c \in Admins PROVE RequestInv(c)'
  <2>1. RequestInv(c) /\ task[c].bets \subseteq Bets
    BY DEF RecordInv, TypeInv, Requests
  <2>2. QED BY <1>1, <1>2, <1>3, <1>4, <2>1 DEF RequestInv, Busy
<1>7. QED BY <1>5, <1>6 DEF RecordInv

LEMMA RecordPreparing ==
  ASSUME TypeInv, RecordInv, WholeRollbacks, NEW a \in Admins,
         AskToSettle(a) \/ AskToRollback(a) \/ Validate(a) \/ Open(a) \/ Fail(a)
  PROVE  RecordInv'
<1> DEFINE t == task[a]
<1>1. t \in Requests /\ RequestInv(a)
  BY DEF TypeInv, RecordInv
<1>2. CASE AskToSettle(a)
  <2>1. PICK kind \in Outcomes, m \in Markets, w \in Runners, filter \in SettleFilters :
          ReadToSettle(a, kind, m, w, filter)
    BY <1>2 DEF AskToSettle
  <2> DEFINE S == {b \in In(filter, m) : status[b] = "PENDING"}
             r == Task("read", kind, m, w, S)
  <2>2. S \in SUBSET Bets /\ kind \in {"settle", "cancel"}
    BY SettlementAssumption DEF In
  <2>3. r \in Requests
    <3> HIDE DEF S
    <3>1. QED BY <2>2, TaskType DEF PCs
  <2>4. task' = [task EXCEPT ![a] = r] /\ UNCHANGED <<books, record, reports>>
    BY <2>1 DEF ReadToSettle
  <2>5. r.pc = "read" /\ r.kind = kind /\ r.market = m /\ r.bets = S
    BY DEF Task
  <2>6. \A b \in S : b.market = m /\ status[b] = "PENDING"
    BY DEF In
  <2> HIDE DEF r, S
  <2>7. task'[a] = r
    BY <2>4 DEF TypeInv
  <2>8. RequestInv(a)'
    BY <2>2, <2>4, <2>5, <2>6, <2>7 DEF RequestInv, books
  <2>9. QED BY <2>3, <2>4, <2>8, OthersUndisturbed DEF books
<1>3. CASE AskToRollback(a)
  <2>1. PICK m \in Markets, filter \in RollbackFilters : ReadToRollback(a, m, filter)
    BY <1>3 DEF AskToRollback
  <2> DEFINE S == SettledIn(m) \intersect filter
             T == [u \in Users |-> Sum([b \in S |-> TakenBack(b)], Of(S, u))]
             q == Task("recorded", "rollback", m, "none", S)
             r == [q EXCEPT !.taken = T]
  <2>2. S = SettledIn(m) /\ S \in SUBSET Bets
    BY DEF WholeRollbacks, SettledIn, In
  <2>3. T \in [Users -> Int]
    <3> HIDE DEF S
    <3>1. QED BY <2>2, TakenInteger
  <2>4. q \in Requests /\ q.pc = "recorded" /\ q.kind = "rollback" /\ q.market = m /\ q.bets = S
    <3>1. q \in Requests
      <4> HIDE DEF S
      <4>1. QED BY <2>2, TaskType DEF PCs
    <3>2. QED BY <3>1 DEF Task
  <2>5. task' = [task EXCEPT ![a] = r] /\ UNCHANGED <<books, record, reports>>
    BY <2>1 DEF ReadToRollback
  <2> HIDE DEF S, T, q
  <2>6. r \in Requests /\ r.pc = "recorded" /\ r.kind = "rollback" /\ r.market = m /\ r.bets = S
    BY <2>3, <2>4 DEF Requests
  <2> HIDE DEF r
  <2>7. task'[a] = r
    BY <2>5 DEF TypeInv
  <2>8. SettledIn(m)' = SettledIn(m)
    BY <2>5 DEF SettledIn, In, books
  <2>9. RequestInv(a)'
    BY <2>2, <2>6, <2>7, <2>8 DEF RequestInv
  <2>10. QED BY <2>5, <2>6, <2>9, OthersUndisturbed DEF books
<1>4. CASE Validate(a)
  <2> DEFINE v == [t EXCEPT !.pc = "validated"]
             r == IF SettledBefore(t.market) THEN Idle ELSE v
  <2>1. t.pc = "read" /\ task' = [task EXCEPT ![a] = r] /\ UNCHANGED <<books, record, reports>>
    BY <1>4 DEF Validate
  <2>2. r \in Requests
    BY <1>1, IdleType DEF Requests, PCs
  <2>3. task'[a] = r
    BY <2>1 DEF TypeInv
  <2>4. UNCHANGED <<status, pnl, record>> /\ \A k : SettledIn(k)' = SettledIn(k)
    BY <2>1 DEF books, SettledIn, In
  <2>5. RequestInv(a)'
    <3>1. CASE r = v /\ ~SettledBefore(t.market)
      <4>1. SettledIn(t.market) = {}
        BY <3>1, <1>4 DEF RecordInv, SettledUnderLiveRecord, SettledBefore, SettledIn, In
      <4>2. t.kind # "rollback" => \A b \in t.bets : b.market = t.market /\ status[b] = "PENDING"
        BY <1>1, <2>1 DEF RequestInv, Busy
      <4>3. t.kind # "rollback"
        BY <1>1, <2>1 DEF RequestInv, Busy
      <4>4. v.pc = "validated" /\ v.kind = t.kind /\ v.market = t.market /\ v.bets = t.bets
        BY <1>1 DEF Requests
      <4> HIDE DEF v, r
      <4>5. QED BY <2>3, <2>4, <3>1, <4>1, <4>2, <4>3, <4>4 DEF RequestInv
    <3>2. CASE r = Idle
      <4> HIDE DEF r
      <4>1. QED BY <2>3, <3>2, IdleType DEF RequestInv, Busy
    <3>3. QED BY <3>1, <3>2
  <2> HIDE DEF r
  <2>6. QED BY <2>1, <2>2, <2>4, <2>5, OthersUndisturbed
<1>5. CASE Open(a)
  <2> DEFINE r == [t EXCEPT !.pc = "open", !.balance = balance, !.liability = liability]
  <2>1. t.pc = "recorded" /\ task' = [task EXCEPT ![a] = r] /\ UNCHANGED <<books, record, reports>>
    BY <1>5 DEF Open
  <2>2. /\ r \in Requests /\ r.pc = "open" /\ r.kind = t.kind /\ r.market = t.market /\ r.bets = t.bets
        /\ r.winner = t.winner
    BY <1>1 DEF Requests, PCs, TypeInv
  <2> HIDE DEF r
  <2>3. task'[a] = r
    BY <2>1 DEF TypeInv
  <2>4. UNCHANGED <<status, pnl, record>> /\ \A k : SettledIn(k)' = SettledIn(k)
    BY <2>1 DEF books, SettledIn, In
  <2>5. RequestInv(a)'
    BY <1>1, <2>1, <2>2, <2>3, <2>4 DEF RequestInv, Busy
  <2>6. QED BY <2>1, <2>2, <2>4, <2>5, OthersUndisturbed
<1>6. CASE Fail(a)
  <2>1. task' = [task EXCEPT ![a] = Idle] /\ UNCHANGED <<books, record>>
    BY <1>6 DEF Fail
  <2>2. task'[a] = Idle
    BY <2>1 DEF TypeInv
  <2>3. RequestInv(a)'
    BY <2>2, IdleType DEF RequestInv, Busy
  <2>4. QED BY <2>1, <2>3, IdleType, OthersUndisturbed DEF books
<1>7. QED BY <1>2, <1>3, <1>4, <1>5, <1>6

LEMMA RecordRecord ==
  ASSUME TypeInv, RecordInv, Apart, NEW a \in Admins, Record(a)
  PROVE  RecordInv'
<1> DEFINE t == task[a]
           m == t.market
           r == [t EXCEPT !.pc = "recorded"]
<1>1. /\ t \in Requests /\ RequestInv(a) /\ m \in Markets
      /\ t.pc = "validated" /\ Busy(a)
  BY DEF TypeInv, RecordInv, Record, Busy
<1>2. /\ record' = [record EXCEPT ![m] = [state |-> "live", winner |-> t.winner]]
      /\ task' = [task EXCEPT ![a] = r] /\ UNCHANGED <<status, pnl>>
  BY DEF Record, books
<1>3. t.kind # "rollback" /\ SettledIn(m) = {} /\ \A b \in t.bets : b.market = m /\ status[b] = "PENDING"
  BY <1>1 DEF RequestInv
<1>4. /\ record'[m] = [state |-> "live", winner |-> t.winner]
      /\ \A k \in Markets : k # m => record'[k] = record[k]
  BY <1>1, <1>2 DEF TypeInv
<1>5. \A k : SettledIn(k)' = SettledIn(k)
  BY <1>2 DEF SettledIn, In
<1>6. \A b \in Bets : status[b] \in Settled => b.market # m
  BY <1>3 DEF SettledIn, In
<1>7. SettledUnderLiveRecord'
  BY <1>2, <1>4, <1>6, BetFields DEF RecordInv, SettledUnderLiveRecord
<1>8. OneWinner'
  BY <1>2, <1>4, <1>6, BetFields DEF RecordInv, OneWinner, Settled
<1>9. ASSUME NEW c \in Admins PROVE RequestInv(c)'
  <2>1. CASE c = a
    <3>1. task'[a] = r
      BY <1>2 DEF TypeInv
    <3>2. r.pc = "recorded" /\ r.kind = t.kind /\ r.market = m /\ r.bets = t.bets /\ r.winner = t.winner
      BY <1>1 DEF Requests
    <3> HIDE DEF r
    <3>3. QED BY <1>2, <1>3, <1>4, <1>5, <2>1, <3>1, <3>2 DEF RequestInv
  <2>2. CASE c # a
    <3>1. task'[c] = task[c] /\ RequestInv(c) /\ (task[c].pc # "idle" => task[c].market \in Markets)
      BY <1>2, <2>2 DEF TypeInv, RecordInv
    <3>2. Busy(c) => task[c].market # m
      BY <1>1, <2>2 DEF Apart
    <3>3. QED BY <1>2, <1>4, <1>5, <3>1, <3>2 DEF RequestInv, Busy
  <2>3. QED BY <2>1, <2>2
<1>10. QED BY <1>7, <1>8, <1>9 DEF RecordInv

LEMMA RecordCommitSettlement ==
  ASSUME TypeInv, RecordInv, Apart, NEW a \in Admins, CommitSettlement(a)
  PROVE  RecordInv'
<1> DEFINE t == task[a]
           m == t.market
<1>1. /\ t \in Requests /\ RequestInv(a) /\ m \in Markets
      /\ t.pc = "open" /\ t.kind # "rollback" /\ Busy(a)
  BY DEF TypeInv, RecordInv, CommitSettlement, Busy
<1>2. /\ status' = [b \in Bets |-> IF b \notin t.bets THEN status[b]
                                   ELSE IF t.kind = "cancel" THEN "CANCELLED"
                                   ELSE IF (b.selection = t.winner) = (b.side = "BACK")
                                        THEN "WON" ELSE "LOST"]
      /\ pnl' = [b \in Bets |-> IF b \notin t.bets THEN pnl[b]
                                ELSE IF t.kind = "cancel" THEN 0 ELSE BetPnl(b, t.winner)]
      /\ task' = [task EXCEPT ![a] = Idle]
      /\ UNCHANGED record
  BY DEF CommitSettlement, ReportsDue
<1>3. /\ \A b \in t.bets : b.market = m /\ status[b] = "PENDING"
      /\ SettledIn(m) = {}
      /\ record[m] = [state |-> "live", winner |-> t.winner]
  BY <1>1 DEF RequestInv
<1>4. \A b \in Bets : b \notin t.bets => status'[b] = status[b] /\ pnl'[b] = pnl[b]
  BY <1>2
<1>5. \A b \in t.bets : b \in Bets
  BY <1>1 DEF Requests
<1>6. \A b \in t.bets : status'[b] \in {"WON", "LOST"} => pnl'[b] = BetPnl(b, t.winner)
  <2>1. CASE t.kind = "cancel"
    BY <1>2, <1>5, <2>1
  <2>2. CASE t.kind # "cancel"
    <3>1. \A b \in Bets : b \in t.bets => pnl'[b] = BetPnl(b, t.winner)
      BY <1>2, <2>2
    <3>2. QED BY <1>5, <3>1
  <2>3. QED BY <2>1, <2>2
<1>7. SettledUnderLiveRecord'
  BY <1>2, <1>3, <1>4 DEF RecordInv, SettledUnderLiveRecord
<1>8. OneWinner'
  BY <1>2, <1>3, <1>4, <1>6 DEF RecordInv, OneWinner
<1>9. ASSUME NEW c \in Admins PROVE RequestInv(c)'
  <2>1. CASE c = a
    <3>1. task'[a].pc = "idle"
      BY <1>2, IdleType DEF TypeInv
    <3>2. QED BY <2>1, <3>1 DEF RequestInv, Busy
  <2>2. CASE c # a
    <3>1. task'[c] = task[c] /\ RequestInv(c) /\ task[c].bets \subseteq Bets
      BY <1>2, <2>2 DEF TypeInv, RecordInv, Requests
    <3>2. Busy(c) => task[c].market # m
      BY <1>1, <2>2 DEF Apart
    <3>3. \A k : k # m => SettledIn(k)' = SettledIn(k)
      BY <1>3, <1>4 DEF SettledIn, In
    <3>4. Busy(c) /\ task[c].kind # "rollback" => \A b \in task[c].bets : status'[b] = "PENDING"
      BY <1>3, <1>4, <3>1, <3>2 DEF RequestInv
    <3>5. QED BY <1>2, <3>1, <3>2, <3>3, <3>4 DEF RequestInv, Busy
  <2>3. QED BY <2>1, <2>2
<1>10. QED BY <1>7, <1>8, <1>9 DEF RecordInv

LEMMA RecordCommitRollback ==
  ASSUME TypeInv, RecordInv, Apart, NEW a \in Admins, CommitRollback(a)
  PROVE  RecordInv'
<1> DEFINE t == task[a]
           m == t.market
<1>1. /\ t \in Requests /\ RequestInv(a) /\ m \in Markets
      /\ t.pc = "open" /\ t.kind = "rollback" /\ Busy(a)
  BY DEF TypeInv, RecordInv, CommitRollback, Busy
<1>2. /\ status' = [b \in Bets |-> IF b \in t.bets THEN "PENDING" ELSE status[b]]
      /\ pnl' = [b \in Bets |-> IF b \in t.bets THEN 0 ELSE pnl[b]]
      /\ record' = [record EXCEPT ![m].state = "rolled back"]
      /\ task' = [task EXCEPT ![a] = Idle]
  BY DEF CommitRollback, ReportsDue
<1>3. t.bets = SettledIn(m)
  BY <1>1 DEF RequestInv
<1>4. /\ \A b \in Bets : b \notin t.bets => status'[b] = status[b] /\ pnl'[b] = pnl[b]
      /\ \A b \in Bets : b \in t.bets => status'[b] = "PENDING" /\ b.market = m
  BY <1>2, <1>3 DEF SettledIn, In
<1>5. \A k \in Markets : k # m => record'[k] = record[k]
  BY <1>2 DEF TypeInv
<1>6. \A b \in Bets : status'[b] \in Settled => b.market # m /\ status[b] = status'[b] /\ pnl[b] = pnl'[b]
  BY <1>3, <1>4 DEF SettledIn, In, Settled
<1>7. SettledUnderLiveRecord'
  BY <1>5, <1>6, BetFields DEF RecordInv, SettledUnderLiveRecord
<1>8. OneWinner'
  BY <1>5, <1>6, BetFields DEF RecordInv, OneWinner, Settled
<1>9. ASSUME NEW c \in Admins PROVE RequestInv(c)'
  <2>1. CASE c = a
    <3>1. task'[a].pc = "idle"
      BY <1>2, IdleType DEF TypeInv
    <3>2. QED BY <2>1, <3>1 DEF RequestInv, Busy
  <2>2. CASE c # a
    <3>1. /\ task'[c] = task[c] /\ RequestInv(c) /\ task[c].bets \subseteq Bets
          /\ task[c].pc # "idle" => task[c].market \in Markets
      BY <1>2, <2>2 DEF TypeInv, RecordInv, Requests
    <3>2. Busy(c) => task[c].market # m
      BY <1>1, <2>2 DEF Apart
    <3>3. \A k : k # m => SettledIn(k)' = SettledIn(k)
      BY <1>4 DEF SettledIn, In
    <3>4. Busy(c) /\ task[c].kind # "rollback" => \A b \in task[c].bets : status'[b] = "PENDING"
      BY <1>4, <3>1, <3>2 DEF RequestInv
    <3>5. QED BY <1>5, <3>1, <3>2, <3>3, <3>4 DEF RequestInv, Busy
  <2>3. QED BY <2>1, <2>2
<1>10. QED BY <1>7, <1>8, <1>9 DEF RecordInv

LEMMA RecordElsewhere ==
  ASSUME RecordInv, UNCHANGED <<status, pnl, record, task>>
  PROVE  RecordInv'
BY DEF RecordInv, SettledUnderLiveRecord, OneWinner, RequestInv, Busy, SettledIn, In

LEMMA RecordStep ==
  ASSUME TypeInv, RecordInv, Apart, WholeRollbacks, [Next]_vars
  PROVE  RecordInv'
<1>1. ASSUME NEW b \in Bets, Place(b) PROVE RecordInv'
  BY <1>1, RecordPlace
<1>2. ASSUME NEW a \in Admins, AskToSettle(a) \/ AskToRollback(a) \/ GoOn(a) \/ Fail(a)
      PROVE  RecordInv'
  <2>1. ASSUME NEW u \in Users, GoOnReporting(a, u) PROVE RecordInv'
    BY <2>1, RecordElsewhere, ReportingElsewhere
  <2>2. QED BY <1>2, <2>1, RecordPreparing, RecordRecord, RecordCommitSettlement, RecordCommitRollback DEF GoOn
<1>3. ASSUME NEW a \in Admins, NEW u \in Users, FailReport(a, u) PROVE RecordInv'
  BY <1>3, RecordElsewhere, ReportingElsewhere
<1>4. CASE UNCHANGED vars
  BY <1>4, RecordElsewhere DEF vars
<1>5. QED BY <1>1, <1>2, <1>3, <1>4 DEF Next

\* While requests for one market do not overlap, whatever settlements of parts
\* of it, cancellations and rollbacks of the whole came before and whichever
\* failed: a settled bet stands under a live record, so it can be rolled back.
THEOREM SettledCanBeRolledBack ==
  ASSUME WholeRollbacks
  PROVE  Spec /\ []Apart => []SettledUnderLiveRecord
<1>1. TypeInv /\ RecordInv /\ Apart /\ [Next]_vars => RecordInv'
  BY RecordStep
<1>2. RecordInv => SettledUnderLiveRecord
  BY DEF RecordInv
<1>3. QED BY <1>1, <1>2, RecordInit, TypeInvariant, PTL DEF Spec

\* And all won and lost bets of a market agree on the winner on record.
THEOREM WinnerOnRecord ==
  ASSUME WholeRollbacks
  PROVE  Spec /\ []Apart => []OneWinner
<1>1. TypeInv /\ RecordInv /\ Apart /\ [Next]_vars => RecordInv'
  BY RecordStep
<1>2. RecordInv => OneWinner
  BY DEF RecordInv
<1>3. QED BY <1>1, <1>2, RecordInit, TypeInvariant, PTL DEF Spec

-----------------------------------------------------------------------------
(* Reports *)

\* What the report of client u is and what its parents hold when it is right.
Right(u) ==
  /\ Decided(u) # {} => userPnl[u] = Results(u)
  /\ Results(u) # 0 => ledger[u] = IF u \in cleared THEN 0 ELSE -Results(u)

\* What request a's report of client u rests on, step by step.
StageInv(a, u) ==
  LET r == report[a][u] IN
  /\ r.at = "read" => r.net = Results(u)
  /\ r.at \in {"written", "fetched", "open"} /\ Decided(u) # {} => userPnl[u] = Results(u)
  /\ r.at \in {"fetched", "open"} /\ Decided(u) # {} => r.net = Results(u)
  /\ r.at = "open" => ledger[u] = 0
  /\ r.rollback /\ r.at \in {"ready", "read"} => ledger[u] = 0 /\ u \in cleared

\* A client whose last report met no other and did not fail has one report
\* under way that is right so far, or none and the books are right.
ClientReport(u) ==
  u \notin spoiled =>
    /\ \A a, c \in Reporting(u) : a = c
    /\ \A a \in Reporting(u) : StageInv(a, u)
    /\ Reporting(u) = {} => Right(u)

\* A request that has still to pay reports nothing.
ReportInv ==
  /\ \A b \in Bets : status[b] \notin {"WON", "LOST"} => pnl[b] = 0
  /\ \A a \in Admins : task[a].pc # "idle" => \A u \in Users : report[a][u] = NoReport
  /\ \A u \in Users : ClientReport(u)

\* Only the bets that were won or lost count.
LEMMA DecidedCount ==
  ASSUME TypeInv, ReportInv, NEW u
  PROVE  /\ Sum(pnl, Decided(u)) = Results(u)
         /\ Decided(u) = {} => Results(u) = 0
<1>1. Of(Bets, u) \in SUBSET Bets /\ Decided(u) \in SUBSET Of(Bets, u)
  BY DEF Of, Decided
<1>2. \A b \in Of(Bets, u) : pnl[b] \in Int
  BY <1>1, Amounts
<1>3. \A b \in Of(Bets, u) \ Decided(u) : pnl[b] = 0
  BY <1>1 DEF ReportInv, Decided
<1>4. Sum(pnl, Decided(u)) = Results(u)
  BY <1>1, <1>2, <1>3, BetsMakeBooks, SumSupport DEF Results
<1>5. Decided(u) = {} => Sum(pnl, Decided(u)) = 0
  BY SumEmpty
<1>6. QED BY <1>4, <1>5

LEMMA ReportInit == Init => ReportInv
<1> SUFFICES ASSUME Init PROVE ReportInv
  OBVIOUS
<1>1. \A b \in Bets : pnl[b] = 0 /\ status[b] = "none"
  BY DEF Init
<1>2. \A a \in Admins : task[a].pc = "idle"
  BY IdleType DEF Init
<1>3. ASSUME NEW u \in Users PROVE ClientReport(u)
  <2>1. Decided(u) = {}
    BY <1>1 DEF Decided, Of
  <2>2. Results(u) = 0
    <3>1. \A b \in Of(Bets, u) : pnl[b] = 0
      BY <1>1 DEF Of
    <3>2. Of(Bets, u) \in SUBSET Bets
      BY DEF Of
    <3>3. QED BY <3>1, <3>2, SumZero, BetsMakeBooks DEF Results
  <2>3. Reporting(u) = {}
    BY DEF Init, Reporting
  <2>4. QED BY <2>1, <2>2, <2>3 DEF ClientReport, Right
<1>4. QED BY <1>1, <1>2, <1>3 DEF ReportInv

\* What is known of a client stays while its bets, reports and rows do.
LEMMA ClientUndisturbed ==
  ASSUME NEW u \in Users, ClientReport(u),
         \A c \in Admins : report'[c][u] = report[c][u],
         userPnl'[u] = userPnl[u], ledger'[u] = ledger[u],
         u \in spoiled' <=> u \in spoiled, u \in cleared' <=> u \in cleared,
         Decided(u)' = Decided(u), Results(u)' = Results(u)
  PROVE  ClientReport(u)'
<1>1. Reporting(u)' = Reporting(u) /\ \A a \in Reporting(u) : a \in Admins
  BY DEF Reporting
<1>2. Right(u)' = Right(u)
  BY DEF Right
<1>3. \A a \in Reporting(u) : StageInv(a, u)' = StageInv(a, u)
  BY <1>1 DEF StageInv
<1>4. QED BY <1>1, <1>2, <1>3 DEF ClientReport

\* Steps that neither decide bets nor report.
LEMMA NothingToReport ==
  ASSUME TypeInv, ReportInv, UNCHANGED <<pnl, reports>>,
         \A b \in Bets : status[b] \in {"WON", "LOST"} <=> status'[b] \in {"WON", "LOST"},
         \A a \in Admins : task'[a].pc # "idle" => \A u \in Users : report[a][u] = NoReport
  PROVE  ReportInv'
<1>1. \A u \in Users : Decided(u)' = Decided(u) /\ Results(u)' = Results(u)
  BY DEF Decided, Of, Results
<1>2. \A u \in Users : ClientReport(u)'
  BY <1>1, ClientUndisturbed DEF ReportInv, reports
<1>3. QED BY <1>2 DEF ReportInv, reports

LEMMA ReportPreparing ==
  ASSUME TypeInv, ReportInv, NEW a \in Admins,
         AskToSettle(a) \/ AskToRollback(a) \/ Validate(a) \/ Record(a) \/ Open(a) \/ Fail(a)
  PROVE  ReportInv'
<1>1. UNCHANGED <<books, reports>> /\ \E t : task' = [task EXCEPT ![a] = t]
  <2>1. CASE AskToSettle(a) \/ AskToRollback(a)
    BY <2>1 DEF AskToSettle, AskToRollback, ReadToSettle, ReadToRollback
  <2>2. CASE Validate(a) \/ Record(a) \/ Open(a) \/ Fail(a)
    BY <2>2 DEF Validate, Record, Open, Fail
  <2>3. QED BY <2>1, <2>2
<1>2. (\A u \in Users : report[a][u] = NoReport) \/ task' = [task EXCEPT ![a] = Idle]
  <2>1. CASE AskToSettle(a) \/ AskToRollback(a)
    BY <2>1 DEF AskToSettle, AskToRollback, ReadToSettle, ReadToRollback, MayStart
  <2>2. CASE Validate(a) \/ Record(a) \/ Open(a)
    BY <2>2 DEF Validate, Record, Open, ReportInv
  <2>3. CASE Fail(a)
    BY <2>3 DEF Fail
  <2>4. QED BY <2>1, <2>2, <2>3
<1>3. \A c \in Admins : task'[c].pc # "idle" => \A u \in Users : report[c][u] = NoReport
  <2> SUFFICES ASSUME NEW c \in Admins, task'[c].pc # "idle" PROVE \A u \in Users : report[c][u] = NoReport
    OBVIOUS
  <2>1. CASE c = a
    BY <1>2, <2>1, IdleType DEF TypeInv
  <2>2. CASE c # a
    <3>1. task'[c] = task[c]
      BY <1>1, <2>2 DEF TypeInv
    <3>2. QED BY <3>1 DEF ReportInv
  <2>3. QED BY <2>1, <2>2
<1>4. QED BY <1>1, <1>3, NothingToReport DEF books

LEMMA ReportCommits ==
  ASSUME TypeInv, ReportInv, NEW a \in Admins, CommitSettlement(a) \/ CommitRollback(a)
  PROVE  ReportInv'
<1> DEFINE t == task[a]
           due == Stage(t.kind = "rollback", "due", 0)
           f == [u \in Users |-> IF u \in Concerned(a) THEN due ELSE NoReport]
<1>1. /\ t \in Requests /\ t.pc = "open" /\ task' = [task EXCEPT ![a] = Idle]
      /\ report' = [report EXCEPT ![a] = f]
      /\ spoiled' = (spoiled \ Concerned(a)) \union {u \in Concerned(a) : Reporting(u) # {}}
      /\ UNCHANGED <<userPnl, ledger, cleared>>
  BY DEF TypeInv, CommitSettlement, CommitRollback, ReportsDue
<1>2. \A b \in Bets : b \notin t.bets => status'[b] = status[b] /\ pnl'[b] = pnl[b]
  BY DEF CommitSettlement, CommitRollback
<1>3. \A b \in Bets : b \in t.bets /\ status'[b] \notin {"WON", "LOST"} => pnl'[b] = 0
  <2>1. CASE CommitSettlement(a)
    <3>1. CASE t.kind = "cancel"
      <4>1. pnl' = [b \in Bets |-> IF b \notin t.bets THEN pnl[b] ELSE 0]
        BY <2>1, <3>1 DEF CommitSettlement
      <4>2. QED BY <4>1
    <3>2. CASE t.kind # "cancel"
      BY <2>1, <3>2 DEF CommitSettlement
    <3>3. QED BY <3>1, <3>2
  <2>2. CASE CommitRollback(a)
    <3>1. pnl' = [b \in Bets |-> IF b \in t.bets THEN 0 ELSE pnl[b]]
      BY <2>2 DEF CommitRollback
    <3>2. QED BY <3>1
  <2>3. QED BY <2>1, <2>2
<1>4. \A b \in Bets : status'[b] \notin {"WON", "LOST"} => pnl'[b] = 0
  BY <1>2, <1>3 DEF ReportInv
<1>5. /\ \A u \in Users : report[a][u] = NoReport
      /\ \A u \in Users : report'[a][u] = IF u \in Concerned(a) THEN due ELSE NoReport
      /\ \A c \in Admins : c # a => report'[c] = report[c]
  BY <1>1 DEF ReportInv, TypeInv
<1>6. \A c \in Admins : task'[c].pc # "idle" => \A u \in Users : report'[c][u] = NoReport
  <2> SUFFICES ASSUME NEW c \in Admins, task'[c].pc # "idle" PROVE \A u \in Users : report'[c][u] = NoReport
    OBVIOUS
  <2>1. c # a
    BY <1>1, IdleType DEF TypeInv
  <2>2. task'[c] = task[c] /\ report'[c] = report[c]
    BY <1>1, <1>5, <2>1 DEF TypeInv
  <2>3. QED BY <2>2 DEF ReportInv
<1>7. ASSUME NEW u \in Users, u \notin Concerned(a) PROVE ClientReport(u)'
  <2>1. \A b \in Of(Bets, u) : b \in Bets /\ b \notin t.bets
    BY <1>7 DEF Concerned, Of
  <2>2. Decided(u)' = Decided(u)
    BY <1>2, <2>1 DEF Decided, Of
  <2>3. Results(u)' = Results(u)
    <3>1. \A b \in Of(Bets, u) : pnl[b] \in Int /\ pnl[b] = pnl'[b]
      BY <1>2, <2>1, Amounts
    <3>2. Sum(pnl, Of(Bets, u)) = Sum(pnl', Of(Bets, u))
      BY <3>1, SumEqual, BetsMakeBooks DEF Of
    <3>3. QED BY <3>2 DEF Results, Of
  <2>4. \A c \in Admins : report'[c][u] = report[c][u]
    BY <1>5, <1>7
  <2>5. u \in spoiled' <=> u \in spoiled
    BY <1>1, <1>7
  <2>6. ClientReport(u)
    BY DEF ReportInv
  <2> HIDE DEF f, t, due
  <2>7. QED BY <1>1, <2>2, <2>3, <2>4, <2>5, <2>6, ClientUndisturbed
<1>8. ASSUME NEW u \in Users, u \in Concerned(a) PROVE ClientReport(u)'
  <2> SUFFICES ASSUME u \notin spoiled'
               PROVE  /\ \A c, d \in Reporting(u)' : c = d
                      /\ \A c \in Reporting(u)' : StageInv(c, u)'
                      /\ Reporting(u)' # {}
    BY DEF ClientReport
  <2>1. Reporting(u) = {}
    BY <1>1, <1>8
  <2>2. due.at = "due" /\ due # NoReport
    BY StageType DEF Stage, NoReport
  <2>3. report'[a][u] = due
    BY <1>5, <1>8
  <2> HIDE DEF due
  <2>4. Reporting(u)' = {a}
    BY <1>5, <2>1, <2>2, <2>3 DEF Reporting
  <2>5. StageInv(a, u)'
    BY <2>2, <2>3 DEF StageInv
  <2>6. QED BY <2>4, <2>5
<1>9. QED BY <1>4, <1>6, <1>7, <1>8 DEF ReportInv

\* A report that moves on or ends is the only one of its client or the client
\* is spoiled; the other clients' are what they were.
LEMMA ReportReporting ==
  ASSUME TypeInv, ReportInv, NEW a \in Admins, NEW u \in Users, GoOnReporting(a, u) \/ FailReport(a, u)
  PROVE  ReportInv'
<1> DEFINE r == report[a][u]
<1>1. UNCHANGED <<balance, liability, status, pnl, record, task>>
  BY ReportingElsewhere
<1>2. \A v : Decided(v)' = Decided(v) /\ Results(v)' = Results(v)
  BY <1>1 DEF Decided, Of, Results
<1>3. /\ r \in Reports /\ r # NoReport /\ NetPnl(u) \in Int /\ userPnl[u] \in Int /\ ledger[u] \in Int
      /\ Results(u) \in Int
  <2>1. r \in Reports
    BY DEF TypeInv
  <2>2. r # NoReport
    BY DEF GoOnReporting, DeleteShares, ReadResults, WriteReport, FetchReport, OpenDistribution, InsertShares,
           FailReport, At, NoReport, Stage
  <2>3. Results(u) \in Int
    BY NetPnlInteger, DecidedCount DEF NetPnl
  <2>4. QED BY <2>1, <2>2, <2>3, NetPnlInteger, Amounts
<1>4. /\ a \in Reporting(u)
      /\ u \notin spoiled => Reporting(u) = {a} /\ StageInv(a, u)
  <2>1. a \in Reporting(u)
    BY <1>3 DEF Reporting
  <2>2. QED BY <2>1 DEF ReportInv, ClientReport
<1>5. task[a].pc = "idle"
  BY <1>3 DEF ReportInv
<1>6. PICK q \in Reports : report' = [report EXCEPT ![a][u] = q]
  <2>1. \E at \in Stages, net \in Int : Advance(a, u, at, net) \/ End(a, u)
    <3>1. r.net \in Int
      BY <1>3 DEF Reports
    <3>2. QED BY <1>3, <3>1 DEF GoOnReporting, DeleteShares, ReadResults, WriteReport, FetchReport,
                          OpenDistribution, InsertShares, FailReport, Stages
  <2>2. QED BY <2>1, ReportMoves
<1>7. /\ report'[a][u] = q
      /\ \A c \in Admins, v \in Users : c # a \/ v # u => report'[c][v] = report[c][v]
  BY <1>6 DEF TypeInv
<1>8. \A c \in Admins : task'[c].pc # "idle" => \A v \in Users : report'[c][v] = NoReport
  BY <1>1, <1>5, <1>7 DEF ReportInv
<1>9. ASSUME NEW v \in Users, v # u PROVE ClientReport(v)'
  <2>1. userPnl'[v] = userPnl[v] /\ ledger'[v] = ledger[v]
    BY <1>9 DEF GoOnReporting, DeleteShares, ReadResults, WriteReport, FetchReport, OpenDistribution,
                InsertShares, FailReport, TypeInv
  <2>2. (v \in spoiled' <=> v \in spoiled) /\ (v \in cleared' <=> v \in cleared)
    BY <1>9 DEF GoOnReporting, DeleteShares, ReadResults, WriteReport, FetchReport, OpenDistribution,
                InsertShares, FailReport
  <2>3. ClientReport(v)
    BY DEF ReportInv
  <2>4. QED BY <1>2, <1>7, <1>9, <2>1, <2>2, <2>3, ClientUndisturbed
<1>10. ClientReport(u)'
  <2> SUFFICES ASSUME u \notin spoiled'
               PROVE  /\ \A c, d \in Reporting(u)' : c = d
                      /\ \A c \in Reporting(u)' : StageInv(c, u)'
                      /\ Reporting(u)' = {} => Right(u)'
    BY DEF ClientReport
  <2>1. GoOnReporting(a, u) /\ u \notin spoiled
    BY DEF GoOnReporting, DeleteShares, ReadResults, WriteReport, FetchReport, OpenDistribution, InsertShares,
           FailReport
  <2>2. Reporting(u) = {a} /\ StageInv(a, u)
    BY <1>4, <2>1
  <2>3. Reporting(u)' = IF q = NoReport THEN {} ELSE {a}
    BY <1>7, <2>2 DEF Reporting
  <2>4. SUFFICES (q # NoReport => StageInv(a, u)') /\ (q = NoReport => Right(u)')
    BY <2>3
  <2> DEFINE moved(at, net) == q.at = at /\ q.net = net /\ q.rollback = r.rollback
  <2>5. \A at \in Stages, net \in Int : Advance(a, u, at, net) => moved(at, net)
    <3> SUFFICES ASSUME NEW at \in Stages, NEW net \in Int, Advance(a, u, at, net) PROVE moved(at, net)
      OBVIOUS
    <3>1. report'[a][u] = [r EXCEPT !.at = at, !.net = net]
      BY DEF Advance, TypeInv
    <3>2. QED BY <1>3, <1>7, <3>1 DEF Reports
  <2>6. End(a, u) => q = NoReport
    <3> SUFFICES ASSUME End(a, u) PROVE q = NoReport
      OBVIOUS
    <3>1. report'[a][u] = NoReport
      BY DEF End, TypeInv
    <3>2. QED BY <1>7, <3>1
  <2>7. NoReport.at = "none"
    BY DEF NoReport, Stage
  <2>8. /\ Decided(u)' = Decided(u) /\ Results(u)' = Results(u) /\ NetPnl(u) = Results(u)
        /\ Decided(u) = {} => Results(u) = 0
    BY <1>2, DecidedCount DEF NetPnl
  <2>9. CASE DeleteShares(a, u)
    <3>1. r.rollback /\ ledger' = [ledger EXCEPT ![u] = 0] /\ u \in cleared' /\ Advance(a, u, "ready", 0)
      BY <2>9 DEF DeleteShares
    <3>2. moved("ready", 0)
      <4>1. "ready" \in Stages /\ 0 \in Int
        BY DEF Stages
      <4> HIDE DEF moved
      <4>2. QED BY <2>5, <3>1, <4>1
    <3>3. ledger'[u] = 0
      BY <3>1 DEF TypeInv
    <3>4. QED BY <1>7, <2>7, <3>1, <3>2, <3>3 DEF StageInv
  <2>10. CASE ReadResults(a, u)
    <3>1. UNCHANGED <<userPnl, ledger, cleared>>
      BY <2>10 DEF ReadResults
    <3>2. r.rollback => ledger[u] = 0 /\ u \in cleared
      BY <2>2, <2>10 DEF ReadResults, At, StageInv
    <3>3. CASE Decided(u) # {}
      <4>1. moved("read", NetPnl(u))
        BY <1>3, <2>5, <2>10, <3>3 DEF ReadResults, Stages
      <4>2. QED BY <1>7, <2>7, <2>8, <3>1, <3>2, <4>1 DEF StageInv
    <3>4. CASE Decided(u) = {} /\ r.rollback
      <4>1. q = NoReport
        BY <2>6, <2>10, <3>4 DEF ReadResults
      <4>2. QED BY <2>8, <3>4, <4>1 DEF Right
    <3>5. CASE Decided(u) = {} /\ ~r.rollback
      <4>1. moved("written", 0)
        BY <2>5, <2>10, <3>5 DEF ReadResults, Stages
      <4>2. QED BY <1>7, <2>7, <2>8, <3>5, <4>1 DEF StageInv
    <3>6. QED BY <3>3, <3>4, <3>5
  <2>11. CASE WriteReport(a, u)
    <3>1. r.at = "read" /\ userPnl' = [userPnl EXCEPT ![u] = r.net] /\ UNCHANGED <<ledger, cleared>>
      BY <2>11 DEF WriteReport, At
    <3>2. userPnl'[u] = Results(u)
      BY <2>2, <3>1 DEF StageInv, TypeInv
    <3>3. CASE r.rollback
      <4>1. q = NoReport /\ ledger[u] = 0 /\ u \in cleared
        BY <2>2, <2>6, <2>11, <3>1, <3>3 DEF WriteReport, StageInv
      <4>2. QED BY <2>8, <3>1, <3>2, <4>1 DEF Right
    <3>4. CASE ~r.rollback
      <4>1. moved("written", 0)
        BY <2>5, <2>11, <3>4 DEF WriteReport, Stages
      <4>2. QED BY <1>7, <2>7, <2>8, <3>2, <3>4, <4>1 DEF StageInv
    <3>5. QED BY <3>3, <3>4
  <2>12. CASE FetchReport(a, u)
    <3>1. r.at = "written" /\ UNCHANGED <<userPnl, ledger, cleared>>
      BY <2>12 DEF FetchReport, At
    <3>2. Decided(u) # {} => userPnl[u] = Results(u)
      BY <2>2, <3>1 DEF StageInv
    <3>3. CASE userPnl[u] = 0
      <4>1. q = NoReport
        BY <2>6, <2>12, <3>3 DEF FetchReport
      <4>2. QED BY <2>8, <3>1, <3>2, <3>3, <4>1 DEF Right
    <3>4. CASE userPnl[u] # 0
      <4>1. moved("fetched", userPnl[u])
        BY <1>3, <2>5, <2>12, <3>4 DEF FetchReport, Stages
      <4>2. QED BY <1>7, <2>7, <2>8, <3>1, <3>2, <4>1 DEF StageInv
    <3>5. QED BY <3>3, <3>4
  <2>13. CASE OpenDistribution(a, u)
    <3>1. r.at = "fetched" /\ UNCHANGED <<userPnl, cleared>> /\ ledger' = [ledger EXCEPT ![u] = 0]
      BY <2>13 DEF OpenDistribution, At, SharesLeft
    <3>2. moved("open", r.net)
      <4>1. r.net \in Int
        BY <1>3 DEF Reports
      <4>2. QED BY <2>5, <2>13, <4>1 DEF OpenDistribution, Stages
    <3>3. ledger'[u] = 0
      BY <3>1 DEF TypeInv
    <3>4. QED BY <1>7, <2>2, <2>7, <2>8, <3>1, <3>2, <3>3 DEF StageInv
  <2>14. CASE InsertShares(a, u)
    <3>1. /\ r.at = "open" /\ UNCHANGED userPnl /\ ledger' = [ledger EXCEPT ![u] = @ - r.net]
          /\ u \notin cleared' /\ q = NoReport
      BY <2>6, <2>14 DEF InsertShares, At
    <3>2. ledger[u] = 0 /\ (Decided(u) # {} => userPnl[u] = Results(u) /\ r.net = Results(u))
      BY <2>2, <3>1 DEF StageInv
    <3>3. ledger'[u] = 0 - r.net
      BY <3>1, <3>2 DEF TypeInv
    <3>4. Decided(u) # {} => ledger'[u] = -Results(u)
      BY <1>3, <3>2, <3>3
    <3>5. QED BY <2>8, <3>1, <3>2, <3>4 DEF Right
  <2>15. QED BY <2>1, <2>9, <2>10, <2>11, <2>12, <2>13, <2>14 DEF GoOnReporting
<1>11. QED BY <1>1, <1>8, <1>9, <1>10 DEF ReportInv

LEMMA ReportStep ==
  ASSUME TypeInv, ReportInv, [Next]_vars
  PROVE  ReportInv'
<1>1. ASSUME NEW b \in Bets, Place(b) PROVE ReportInv'
  <2>1. status[b] = "none" /\ status' = [status EXCEPT ![b] = "PENDING"] /\ UNCHANGED <<pnl, reports, task>>
    BY <1>1 DEF Place
  <2>2. \A c \in Bets : status[c] \in {"WON", "LOST"} <=> status'[c] \in {"WON", "LOST"}
    BY <2>1 DEF TypeInv
  <2>3. QED BY <2>1, <2>2, NothingToReport DEF ReportInv
<1>2. ASSUME NEW a \in Admins, AskToSettle(a) \/ AskToRollback(a) \/ GoOn(a) \/ Fail(a)
      PROVE  ReportInv'
  BY <1>2, ReportPreparing, ReportCommits, ReportReporting DEF GoOn
<1>3. ASSUME NEW a \in Admins, NEW u \in Users, FailReport(a, u) PROVE ReportInv'
  BY <1>3, ReportReporting
<1>4. CASE UNCHANGED vars
  BY <1>4, NothingToReport DEF vars, reports, ReportInv
<1>5. QED BY <1>1, <1>2, <1>3, <1>4 DEF Next

\* However many settlements, cancellations and rollbacks overlap, whatever bets
\* they name and wherever they fail: once every request has reported on a
\* client, the last of them by itself and without a failure, the report of the
\* client is the sum of its results.
THEOREM ReportsAddUp == Spec => []ReportIsSum
<1>1. TypeInv /\ ReportInv /\ [Next]_vars => ReportInv'
  BY ReportStep
<1>2. ReportInv => ReportIsSum
  BY DEF ReportInv, ReportIsSum, Reported, ClientReport, Right
<1>3. QED BY <1>1, <1>2, ReportInit, TypeInvariant, PTL DEF Spec

\* And what the parents' ledgers hold is then the opposite of these results,
\* once, or nothing since a rollback deleted it.
THEOREM SharesAddUp == Spec => []SharesFollowResults
<1>1. TypeInv /\ ReportInv /\ [Next]_vars => ReportInv'
  BY ReportStep
<1>2. ReportInv => SharesFollowResults
  BY DEF ReportInv, SharesFollowResults, Reported, ClientReport, Right
<1>3. QED BY <1>1, <1>2, ReportInit, TypeInvariant, PTL DEF Spec

-----------------------------------------------------------------------------
(* The money *)

\* No client has bets in two requests that still have to commit.
Disjoint == \A a, c \in Admins : a # c /\ Busy(a) /\ Busy(c) => Concerned(a) \intersect Concerned(c) = {}

\* What the settlement's arithmetic takes for granted: a client's bets in a
\* market are on one side of one runner (a sum over bets is what they lock), no
\* market is cancelled (the liability is cleared), and no bet is placed between
\* the reading and the writing of the client's wallet.
PlainBets ==
  \A b, c \in Bets : b.user = c.user /\ b.market = c.market => b.selection = c.selection /\ b.side = c.side

PlainSettlement == PlainBets /\ Outcomes \subseteq {"settle"} /\ ~PlacesInside

\* What a request that still has to commit knows of its bets and wallets is true.
WalletInv(a) ==
  LET t == task[a] IN
  Busy(a) =>
    /\ t.kind # "rollback" =>
         t.kind # "cancel" /\ \A b \in t.bets : b.market = t.market /\ status[b] = "PENDING"
    /\ t.kind = "rollback" =>
         /\ \A b \in t.bets : status[b] \in {"WON", "LOST"}
         /\ \A u \in Users : t.taken[u] = Sum(pnl, Of(t.bets, u)) + Sum(Locks, Of(t.bets, u))
    /\ t.pc = "open" => \A u \in Concerned(a) : t.balance[u] = balance[u] /\ t.liability[u] = liability[u]

\* A settled bet was paid, or cost, what taking it back undoes.
BetInv(b) ==
  /\ status[b] \in {"none", "PENDING", "WON", "LOST"}
  /\ status[b] \in {"none", "PENDING"} => pnl[b] = 0
  /\ status[b] = "WON" => pnl[b] + Locks[b] = b.stake + b.profit
  /\ status[b] = "LOST" => pnl[b] + Locks[b] = 0

ClientInv(u) ==
  /\ balance[u] + liability[u] = Funds[u] + Results(u)
  /\ liability[u] = Sum(Locks, Pending(u))

MoneyInv ==
  (\A u \in Users : ClientInv(u)) /\ (\A b \in Bets : BetInv(b)) /\ (\A a \in Admins : WalletInv(a))

LEMMA LocksSum ==
  ASSUME NEW S \in SUBSET Bets
  PROVE  Sum(Locks, S) \in Nat /\ \A b \in S : Locks[b] \in Nat
BY LocksNatural, LockedNatural

LEMMA PnlSum ==
  ASSUME TypeInv, NEW S \in SUBSET Bets
  PROVE  Sum(pnl, S) \in Int
BY Amounts, BetsMakeBooks, SumType

LEMMA OfSubset == \A S, u : S \in SUBSET Bets => Of(S, u) \in SUBSET Of(Bets, u) /\ Of(S, u) \in SUBSET Bets
BY DEF Of

\* The exposure of a client's plain bets is what they lock together.
LEMMA PlainExposure ==
  ASSUME PlainBets, NEW u, NEW S \in SUBSET Of(Bets, u)
  PROVE  ExposureOf(S) = Sum(Locks, S)
<1> DEFINE f == [m \in Markets |-> MatchOddsExposure(In(S, m))]
           k == [b \in S |-> b.market]
           g == [m \in Markets |-> Sum(Locks, {b \in S : k[b] = m})]
<1>1. S \in SUBSET Bets
  BY DEF Of
<1>2. ASSUME NEW m \in Markets PROVE f[m] \in Int /\ f[m] = g[m]
  <2>1. In(S, m) \in SUBSET Bets /\ In(S, m) = {b \in S : k[b] = m}
    BY <1>1 DEF In
  <2>2. Book(In(S, m))
    BY <2>1, BetsMakeBooks
  <2>3. \A b, c \in In(S, m) : b.selection = c.selection /\ b.side = c.side
    BY DEF PlainBets, In, Of
  <2>4. \A b \in In(S, m) : Locks[b] = IF b.side = "BACK" THEN b.stake ELSE b.profit
    BY <2>1 DEF Locks, LockedBy
  <2>5. MatchOddsExposure(In(S, m)) = Sum(Locks, In(S, m))
    BY <2>2, <2>3, <2>4, OneSidedExposure
  <2>6. MatchOddsExposure(In(S, m)) \in Int
    BY <2>2, MatchOddsExposureNatural
  <2>7. f[m] = MatchOddsExposure(In(S, m))
    OBVIOUS
  <2>8. g[m] = Sum(Locks, In(S, m))
    BY <2>1
  <2> HIDE DEF f, g
  <2>9. QED BY <2>5, <2>6, <2>7, <2>8
<1>3. Sum(f, Markets) = Sum(g, Markets)
  <2> HIDE DEF f, g
  <2>1. QED BY <1>2, SumEqual, SettlementAssumption
<1>4. Sum(g, Markets) = Sum(Locks, S)
  <2>1. \A b \in S : k[b] \in Markets /\ Locks[b] \in Int
    BY <1>1, BetFields, LocksNatural
  <2>2. IsFiniteSet(S) /\ IsFiniteSet(Markets)
    BY <1>1, BetsMakeBooks, SettlementAssumption
  <2> HIDE DEF k
  <2>3. QED BY <2>1, <2>2, SumPartition
<1>5. QED BY <1>3, <1>4 DEF ExposureOf

LEMMA PlainReleased ==
  ASSUME PlainBets, NEW u, NEW m, NEW S \in SUBSET In(Of(Bets, u), m)
  PROVE  Released(S) = Sum(Locks, S) /\ ~Offset(S)
<1> DEFINE laid == {b.selection : b \in {c \in S : c.side = "LAY"}}
<1>1. \A b, c \in S : b \in Bets /\ b.selection = c.selection /\ b.side = c.side
  BY DEF PlainBets, In, Of
<1>2. ~Offset(S)
  BY <1>1 DEF Offset
<1>3. Cardinality(laid) <= 1
  <2>1. CASE laid = {}
    BY <2>1, FS_EmptySet
  <2>2. CASE laid # {}
    <3>1. PICK s : laid = {s}
      BY <1>1, <2>2
    <3> HIDE DEF laid
    <3>2. Cardinality(laid) = 1
      BY <3>1, FS_Singleton
    <3>3. QED BY <3>2
  <2>3. QED BY <2>1, <2>2
<1>4. Released(S) = TotalLocked(S)
  BY <1>3 DEF Released
<1>5. QED BY <1>1, <1>2, <1>4, LockedNatural

\* The wallet settlement writes for plain bets, from values read that hold.
LEMMA PlainPaidWallet ==
  ASSUME PlainBets, NEW u, NEW m, NEW S \in SUBSET In(Of(Bets, u), m), NEW w,
         NEW x \in Int, NEW y \in Int, NEW before, NEW after, Sum(Locks, S) <= y
  PROVE  PaidWallet([balance |-> x, liability |-> y], S, w, before, after)
           = [balance |-> x + Sum([b \in S |-> BetPnl(b, w)], S) + Sum(Locks, S),
              liability |-> y - Sum(Locks, S)]
<1> DEFINE total == Sum([b \in S |-> BetPnl(b, w)], S)
           l == Sum(Locks, S)
<1>1. Released(S) = l /\ ~Offset(S)
  BY PlainReleased
<1>2. S \in SUBSET Bets /\ l \in Nat
  BY LocksSum DEF In, Of
<1>3. Max({0, y - l}) = y - l
  <2> HIDE DEF l
  <2>1. y - l \in Int /\ y - l >= 0
    BY <1>2 DEF l
  <2> DEFINE d == y - l
  <2> HIDE DEF d
  <2>2. Max({0, d}) = d
    BY <2>1, MaxWithZero DEF d
  <2>3. QED BY <2>2 DEF d
<1> HIDE DEF l
<1>4. QED BY <1>1, <1>3 DEF PaidWallet, l

LEMMA MoneyInit == Init => MoneyInv
<1> SUFFICES ASSUME Init PROVE MoneyInv
  OBVIOUS
<1>1. \A b \in Bets : pnl[b] = 0 /\ status[b] = "none"
  BY DEF Init
<1>2. \A b \in Bets : BetInv(b)
  BY <1>1 DEF BetInv
<1>3. ASSUME NEW u \in Users PROVE ClientInv(u)
  <2>1. Pending(u) = {}
    BY <1>1 DEF Pending, Of
  <2>2. Results(u) = 0
    BY <1>1, SumZero, BetsMakeBooks, OfSubset DEF Results
  <2>3. Sum(Locks, {}) = 0
    BY SumEmpty
  <2>4. balance[u] = Funds[u] /\ liability[u] = 0 /\ Funds[u] \in Nat
    BY SettlementAssumption DEF Init
  <2>5. QED BY <2>1, <2>2, <2>3, <2>4 DEF ClientInv
<1>4. \A a \in Admins : WalletInv(a)
  BY IdleType DEF Init, WalletInv, Busy
<1>5. QED BY <1>2, <1>3, <1>4 DEF MoneyInv

-----------------------------------------------------------------------------
(* Each step keeps the money *)

\* Steps that move no money and settle nothing.
LEMMA MoneyUndisturbed ==
  ASSUME TypeInv, MoneyInv, NEW a \in Admins, UNCHANGED books,
         NEW t \in Requests, task' = [task EXCEPT ![a] = t], WalletInv(a)'
  PROVE  MoneyInv'
<1>1. \A u \in Users : ClientInv(u)'
  BY DEF MoneyInv, ClientInv, Results, Pending, Of, books
<1>2. \A b \in Bets : BetInv(b)'
  BY DEF MoneyInv, BetInv, books
<1>3. ASSUME NEW c \in Admins, c # a PROVE WalletInv(c)'
  <2>1. task'[c] = task[c] /\ WalletInv(c)
    BY <1>3 DEF TypeInv, MoneyInv
  <2>2. QED BY <2>1 DEF WalletInv, Busy, Concerned, books
<1>4. QED BY <1>1, <1>2, <1>3 DEF MoneyInv

\* What taking back undoes, summed over settled bets.
LEMMA TakenIsPaid ==
  ASSUME TypeInv, \A b \in Bets : BetInv(b), NEW S \in SUBSET Bets,
         \A b \in S : status[b] \in {"WON", "LOST"}, NEW u
  PROVE  Sum([b \in S |-> TakenBack(b)], Of(S, u)) = Sum(pnl, Of(S, u)) + Sum(Locks, Of(S, u))
<1> DEFINE f == [b \in S |-> TakenBack(b)]
           T == Of(S, u)
<1>1. \A b \in T : b \in S /\ b \in Bets
  BY DEF Of
<1>2. IsFiniteSet(T)
  BY BetsMakeBooks, OfSubset
<1>3. \A b \in T : pnl[b] \in Int /\ Locks[b] \in Int /\ f[b] = pnl[b] + Locks[b]
  <2> SUFFICES ASSUME NEW b \in T PROVE pnl[b] \in Int /\ Locks[b] \in Int /\ f[b] = pnl[b] + Locks[b]
    OBVIOUS
  <2>1. pnl[b] \in Int /\ Locks[b] \in Int
    BY <1>1, Amounts, LocksNatural
  <2>2. f[b] = TakenBack(b)
    BY <1>1
  <2>3. TakenBack(b) = pnl[b] + Locks[b]
    <3>1. CASE status[b] = "WON"
      BY <1>1, <3>1 DEF BetInv, TakenBack
    <3>2. CASE status[b] = "LOST"
      BY <1>1, <3>2 DEF BetInv, TakenBack
    <3>3. QED BY <1>1, <3>1, <3>2
  <2>4. QED BY <2>1, <2>2, <2>3
<1> HIDE DEF f, T
<1>4. Sum(f, T) = Sum(pnl, T) + Sum(Locks, T)
  BY <1>2, <1>3, SumPlus
<1>5. QED BY <1>4 DEF f, T

LEMMA MoneyPreparing ==
  ASSUME TypeInv, MoneyInv, PlainSettlement, NEW a \in Admins,
         AskToSettle(a) \/ AskToRollback(a) \/ Validate(a) \/ Record(a) \/ Open(a) \/ Fail(a)
  PROVE  MoneyInv'
<1> DEFINE t == task[a]
<1>1. t \in Requests /\ WalletInv(a)
  BY DEF TypeInv, MoneyInv
<1>2. CASE AskToSettle(a)
  <2>1. PICK kind \in Outcomes, m \in Markets, w \in Runners, filter \in SettleFilters :
          ReadToSettle(a, kind, m, w, filter)
    BY <1>2 DEF AskToSettle
  <2> DEFINE S == {b \in In(filter, m) : status[b] = "PENDING"}
             r == Task("read", kind, m, w, S)
  <2>2. S \in SUBSET Bets /\ kind = "settle"
    BY SettlementAssumption DEF In, PlainSettlement
  <2>3. r \in Requests
    <3> HIDE DEF S
    <3>1. QED BY <2>2, TaskType DEF PCs
  <2>4. task' = [task EXCEPT ![a] = r] /\ UNCHANGED <<books, record, reports>>
    BY <2>1 DEF ReadToSettle
  <2>5. r.pc = "read" /\ r.kind = kind /\ r.market = m /\ r.bets = S
    BY DEF Task
  <2>6. \A b \in S : b.market = m /\ status'[b] = "PENDING"
    BY <2>4 DEF In, books
  <2> HIDE DEF r, S
  <2>7. task'[a] = r
    BY <2>4 DEF TypeInv
  <2>8. WalletInv(a)'
    BY <2>2, <2>5, <2>6, <2>7 DEF WalletInv
  <2>9. QED BY <2>3, <2>4, <2>8, MoneyUndisturbed
<1>3. CASE AskToRollback(a)
  <2>1. PICK m \in Markets, filter \in RollbackFilters : ReadToRollback(a, m, filter)
    BY <1>3 DEF AskToRollback
  <2> DEFINE S == SettledIn(m) \intersect filter
             T == [u \in Users |-> Sum([b \in S |-> TakenBack(b)], Of(S, u))]
             q == Task("recorded", "rollback", m, "none", S)
             r == [q EXCEPT !.taken = T]
  <2>2. S \in SUBSET Bets /\ \A b \in S : status[b] \in {"WON", "LOST"}
    BY DEF SettledIn, In, MoneyInv, BetInv, Settled
  <2>3. T \in [Users -> Int] /\ \A u \in Users : T[u] = Sum(pnl, Of(S, u)) + Sum(Locks, Of(S, u))
    <3>1. \A b \in Bets : BetInv(b)
      BY DEF MoneyInv
    <3> HIDE DEF S
    <3>2. \A u \in Users : Sum([b \in S |-> TakenBack(b)], Of(S, u)) = Sum(pnl, Of(S, u)) + Sum(Locks, Of(S, u))
      BY <2>2, <3>1, TakenIsPaid
    <3>3. \A u \in Users : Sum([b \in S |-> TakenBack(b)], Of(S, u)) \in Int
      BY <2>2, TakenInteger
    <3>4. QED BY <3>2, <3>3
  <2>4. q \in Requests /\ q.pc = "recorded" /\ q.kind = "rollback" /\ q.market = m /\ q.bets = S
    <3>1. q \in Requests
      <4> HIDE DEF S
      <4>1. QED BY <2>2, TaskType DEF PCs
    <3>2. QED BY <3>1 DEF Task
  <2>5. task' = [task EXCEPT ![a] = r] /\ UNCHANGED <<books, record, reports>>
    BY <2>1 DEF ReadToRollback
  <2>6. UNCHANGED <<status, pnl>> /\ \A u : Of(S, u)' = Of(S, u) /\ S' = S
    BY <2>5 DEF books, Of, SettledIn, In
  <2> HIDE DEF S, T, q
  <2>7. r \in Requests /\ r.pc = "recorded" /\ r.kind = "rollback" /\ r.bets = S /\ r.taken = T
    BY <2>3, <2>4 DEF Requests
  <2> HIDE DEF r
  <2>8. task'[a] = r
    BY <2>5 DEF TypeInv
  <2>9. WalletInv(a)'
    BY <2>2, <2>3, <2>6, <2>7, <2>8 DEF WalletInv
  <2>10. QED BY <2>5, <2>7, <2>9, MoneyUndisturbed
<1>4. CASE Validate(a) \/ Record(a)
  <2> DEFINE v == [t EXCEPT !.pc = IF t.pc = "read" THEN "validated" ELSE "recorded"]
  <2>1. UNCHANGED books /\ Busy(a) /\ t.pc # "open"
    BY <1>4 DEF Validate, Record, Busy
  <2>2. PICK r \in {v, Idle} : task' = [task EXCEPT ![a] = r]
    BY <1>4 DEF Validate, Record
  <2>3. r \in Requests
    BY <1>1, <2>2, IdleType DEF Requests, PCs
  <2>4. task'[a] = r
    BY <2>2 DEF TypeInv
  <2>5. WalletInv(a)'
    <3>1. CASE r = v
      <4>1. v.pc # "open" /\ v.kind = t.kind /\ v.market = t.market /\ v.bets = t.bets /\ v.taken = t.taken
        BY <1>1, <2>1 DEF Requests
      <4> HIDE DEF v
      <4>2. QED BY <1>1, <2>1, <2>4, <3>1, <4>1 DEF WalletInv, books
    <3>2. CASE r = Idle
      BY <2>4, <3>2, IdleType DEF WalletInv, Busy
    <3>3. QED BY <2>2, <3>1, <3>2
  <2>6. QED BY <2>1, <2>2, <2>3, <2>5, MoneyUndisturbed
<1>5. CASE Open(a)
  <2> DEFINE r == [t EXCEPT !.pc = "open", !.balance = balance, !.liability = liability]
  <2>1. t.pc = "recorded" /\ task' = [task EXCEPT ![a] = r] /\ UNCHANGED books
    BY <1>5 DEF Open
  <2>2. /\ r \in Requests /\ r.pc = "open" /\ r.kind = t.kind /\ r.market = t.market /\ r.bets = t.bets
        /\ r.taken = t.taken /\ r.balance = balance /\ r.liability = liability
    BY <1>1 DEF Requests, PCs, TypeInv
  <2> HIDE DEF r
  <2>3. task'[a] = r
    BY <2>1 DEF TypeInv
  <2>4. WalletInv(a)'
    BY <1>1, <2>1, <2>2, <2>3 DEF WalletInv, Busy, books
  <2>5. QED BY <2>1, <2>2, <2>4, MoneyUndisturbed
<1>6. CASE Fail(a)
  <2>1. task' = [task EXCEPT ![a] = Idle] /\ UNCHANGED books
    BY <1>6 DEF Fail
  <2>2. WalletInv(a)'
    BY <2>1, IdleType DEF WalletInv, Busy, TypeInv
  <2>3. QED BY <2>1, <2>2, IdleType, MoneyUndisturbed
<1>7. QED BY <1>2, <1>3, <1>4, <1>5, <1>6

LEMMA MoneyPlace ==
  ASSUME TypeInv, MoneyInv, PlainSettlement, NEW b \in Bets, Place(b)
  PROVE  MoneyInv'
<1> DEFINE u == b.user
           before == ExposureOf(Pending(u))
           after == ExposureOf(Pending(u) \union {b})
           P == Sum(Locks, Pending(u))
           l == Locks[b]
<1>1. /\ u \in Users /\ status[b] = "none" /\ status' = [status EXCEPT ![b] = "PENDING"]
      /\ balance' = [balance EXCEPT ![u] = @ - (after - before)]
      /\ liability' = [liability EXCEPT ![u] = @ + (after - before)]
      /\ \A a \in Admins : ~(task[a].pc = "open" /\ u \in Concerned(a))
      /\ UNCHANGED <<pnl, task>>
  BY BetFields DEF Place, PlainSettlement
<1>2. /\ status'[b] = "PENDING"
      /\ \A c \in Bets : c # b => status'[c] = status[c]
  BY <1>1 DEF TypeInv
<1>3. /\ Pending(u) \in SUBSET Of(Bets, u) /\ Pending(u) \in SUBSET Bets
      /\ Pending(u) \union {b} \in SUBSET Of(Bets, u) /\ b \notin Pending(u)
  BY <1>1 DEF Pending, Of
<1>4. before = P /\ after = l + P /\ P \in Int /\ l \in Int
  <2>1. before = P
    BY <1>3, PlainExposure DEF PlainSettlement
  <2>2. after = Sum(Locks, Pending(u) \union {b})
    BY <1>3, PlainExposure DEF PlainSettlement
  <2>3. P \in Int /\ l \in Int
    BY <1>3, LocksSum, LocksNatural
  <2>4. Sum(Locks, Pending(u) \union {b}) = l + P
    <3>1. IsFiniteSet(Pending(u)) /\ \A c \in Pending(u) : Locks[c] \in Int
      BY <1>3, BetsMakeBooks, LocksNatural
    <3>2. QED BY <1>3, <2>3, <3>1, SumAdd
  <2>5. QED BY <2>1, <2>2, <2>3, <2>4
<1>5. Pending(u)' = Pending(u) \union {b}
  BY <1>2, <1>3 DEF Pending, Of
<1>6. \A v \in Users : v # u => Pending(v)' = Pending(v)
  BY <1>2 DEF Pending, Of
<1>7. \A v : Results(v)' = Results(v)
  BY <1>1 DEF Results, Of
<1>8. ASSUME NEW v \in Users PROVE ClientInv(v)'
  <2>1. ClientInv(v) /\ balance[v] \in Int /\ liability[v] \in Int
    BY Amounts DEF MoneyInv
  <2>2. CASE v # u
    <3>1. balance'[v] = balance[v] /\ liability'[v] = liability[v]
      BY <1>1, <2>2 DEF TypeInv
    <3>2. QED BY <1>6, <1>7, <2>1, <2>2, <3>1 DEF ClientInv
  <2>3. CASE v = u
    <3>1. balance'[u] = balance[u] - (after - before) /\ liability'[u] = liability[u] + (after - before)
      BY <1>1 DEF TypeInv
    <3>2. Sum(Locks, Pending(u) \union {b}) = l + P
      BY <1>3, <1>4, PlainExposure DEF PlainSettlement
    <3>3. balance[u] + liability[u] = Funds[u] + Results(u) /\ liability[u] = P
      BY <2>1, <2>3 DEF ClientInv
    <3>4. (liability')[u] = l + P /\ (balance')[u] + (liability')[u] = Funds[u] + Results(u)
      <4> HIDE DEF before, after, P, l, u
      <4>1. balance[u] \in Int /\ liability[u] \in Int
        BY <2>1, <2>3
      <4>2. QED BY <1>4, <3>1, <3>3, <4>1
    <3>5. Pending(v)' = Pending(u) \union {b} /\ Results(v)' = Results(u)
      BY <1>2, <1>3, <1>7, <2>3 DEF Pending, Of
    <3>6. QED BY <2>3, <3>2, <3>4, <3>5 DEF ClientInv
  <2>4. QED BY <2>2, <2>3
<1>9. ASSUME NEW c \in Bets PROVE BetInv(c)'
  BY <1>1, <1>2 DEF MoneyInv, BetInv
<1>10. ASSUME NEW a \in Admins PROVE WalletInv(a)'
  <2>1. WalletInv(a) /\ task[a] \in Requests /\ \A c \in task[a].bets : c \in Bets
    BY DEF MoneyInv, TypeInv, Requests
  <2>2. Busy(a)' = Busy(a) /\ Concerned(a)' = Concerned(a) /\ task'[a] = task[a]
    BY <1>1 DEF Busy, Concerned
  <2>3. \A v \in Concerned(a) : task[a].pc = "open" =>
          v \in Users /\ balance'[v] = balance[v] /\ liability'[v] = liability[v]
    <3>1. \A v \in Concerned(a) : v \in Users
      BY <2>1, BetFields DEF Concerned
    <3> HIDE DEF before, after
    <3>2. QED BY <1>1, <3>1 DEF TypeInv
  <2>4. \A c \in Bets : status[c] \in {"PENDING", "WON", "LOST"} => status'[c] = status[c]
    BY <1>1, <1>2
  <2>5. \A v : Of(task[a].bets, v)' = Of(task[a].bets, v)
    BY <1>1 DEF Of
  <2>6. QED BY <1>1, <2>1, <2>2, <2>3, <2>4, <2>5 DEF WalletInv
<1>11. QED BY <1>8, <1>9, <1>10 DEF MoneyInv

\* How a client's results change where bets S of it change.
LEMMA ResultsChange ==
  ASSUME TypeInv, TypeInv', NEW u, NEW S \in SUBSET Of(Bets, u),
         \A b \in Of(Bets, u) \ S : pnl'[b] = pnl[b]
  PROVE  Results(u)' = Results(u) - Sum(pnl, S) + Sum(pnl', S)
<1> DEFINE T == Of(Bets, u)
           R == T \ S
<1>1. T \in SUBSET Bets /\ S \in SUBSET Bets /\ R \in SUBSET Bets /\ R \union S = T /\ R \intersect S = {}
  BY DEF Of
<1>2. IsFiniteSet(S) /\ IsFiniteSet(R)
  BY <1>1, BetsMakeBooks
<1>3. \A b \in Bets : pnl[b] \in Int /\ pnl'[b] \in Int
  BY DEF TypeInv
<1>4. Sum(pnl, T) = Sum(pnl, R) + Sum(pnl, S)
  <2>1. \A b \in R \union S : pnl[b] \in Int
    BY <1>1, <1>3
  <2> HIDE DEF T, R
  <2>2. Sum(pnl, R \union S) = Sum(pnl, R) + Sum(pnl, S)
    BY <1>1, <1>2, <2>1, SumUnion
  <2>3. QED BY <1>1, <2>2
<1>5. Sum(pnl', T) = Sum(pnl', R) + Sum(pnl', S)
  <2>1. \A b \in R \union S : pnl'[b] \in Int
    BY <1>1, <1>3
  <2> HIDE DEF T, R
  <2>2. Sum(pnl', R \union S) = Sum(pnl', R) + Sum(pnl', S)
    BY <1>1, <1>2, <2>1, SumUnion
  <2>3. QED BY <1>1, <2>2
<1>6. Sum(pnl, R) = Sum(pnl', R)
  BY <1>1, <1>2, <1>3, SumEqual
<1>7. Sum(pnl, R) \in Int /\ Sum(pnl, S) \in Int /\ Sum(pnl', S) \in Int
  BY <1>1, <1>2, <1>3, SumType
<1>8. Results(u) = Sum(pnl, T) /\ Results(u)' = Sum(pnl', T)
  BY DEF Results, Of
<1> DEFINE p == Sum(pnl, R)
           q == Sum(pnl, S)
           r == Sum(pnl', S)
<1>9. Results(u) = p + q /\ Results(u)' = p + r /\ p \in Int /\ q \in Int /\ r \in Int
  BY <1>4, <1>5, <1>6, <1>7, <1>8
<1> HIDE DEF p, q, r
<1>10. Results(u)' = Results(u) - q + r
  BY <1>9
<1>11. QED BY <1>10 DEF q, r

\* What a commit of request a must do for the money to be kept: it changes only
\* its own bets and wallets, and each client's as its bets change.
LEMMA MoneyCommit ==
  ASSUME TypeInv, TypeInv', MoneyInv, Disjoint, NEW a \in Admins, task[a].pc = "open",
         task' = [task EXCEPT ![a] = Idle],
         \A b \in Bets : b \notin task[a].bets => status'[b] = status[b] /\ pnl'[b] = pnl[b],
         \A b \in Bets : b \in task[a].bets => BetInv(b)',
         \A u \in Users : u \notin Concerned(a) => balance'[u] = balance[u] /\ liability'[u] = liability[u],
         \A u \in Users : u \in Concerned(a) => ClientInv(u)'
  PROVE  MoneyInv'
<1>1. \A b \in Bets : BetInv(b)'
  BY DEF MoneyInv, BetInv
<1>2. ASSUME NEW u \in Users, u \notin Concerned(a) PROVE ClientInv(u)'
  <2>1. \A b \in Of(Bets, u) : b \in Bets /\ b \notin task[a].bets
    BY <1>2 DEF Of, Concerned
  <2>2. Pending(u)' = Pending(u)
    BY <2>1 DEF Pending, Of
  <2>3. Results(u)' = Results(u)
    <3>1. \A b \in Of(Bets, u) : pnl[b] \in Int /\ pnl[b] = pnl'[b]
      BY <2>1, Amounts
    <3>2. Sum(pnl, Of(Bets, u)) = Sum(pnl', Of(Bets, u))
      BY <3>1, SumEqual, BetsMakeBooks DEF Of
    <3>3. QED BY <3>2 DEF Results, Of
  <2>4. QED BY <1>2, <2>2, <2>3 DEF MoneyInv, ClientInv
<1>3. ASSUME NEW c \in Admins PROVE WalletInv(c)'
  <2>1. CASE c = a
    <3>1. task'[a].pc = "idle"
      BY IdleType DEF TypeInv
    <3>2. QED BY <2>1, <3>1 DEF WalletInv, Busy
  <2>2. ASSUME c # a, Busy(c) PROVE WalletInv(c)'
    <3>1. task'[c] = task[c] /\ WalletInv(c) /\ task[c] \in Requests
      BY <2>2 DEF TypeInv, MoneyInv
    <3>2. Concerned(c) \intersect Concerned(a) = {} /\ Concerned(c)' = Concerned(c) /\ Busy(c)' = Busy(c)
      BY <2>2, <3>1 DEF Disjoint, Busy, Concerned
    <3>3. ASSUME NEW b \in task[c].bets PROVE b \in Bets /\ b \notin task[a].bets
      <4>1. b \in Bets
        BY <3>1 DEF Requests
      <4>2. b.user \in Concerned(c)
        BY DEF Concerned
      <4>3. b.user \notin Concerned(a)
        BY <3>2, <4>2
      <4>4. b \notin task[a].bets
        BY <4>3 DEF Concerned
      <4>5. QED BY <4>1, <4>4
    <3>4. ASSUME NEW v \in Concerned(c)
          PROVE  v \in Users /\ balance'[v] = balance[v] /\ liability'[v] = liability[v]
      <4>1. PICK b \in task[c].bets : v = b.user
        BY DEF Concerned
      <4>2. v \in Users
        BY <3>3, <4>1, BetFields
      <4>3. v \notin Concerned(a)
        BY <3>2
      <4> HIDE DEF Concerned
      <4>4. QED BY <4>2, <4>3
    <3>5. ASSUME NEW v PROVE Sum(pnl', Of(task[c].bets, v)) = Sum(pnl, Of(task[c].bets, v))
      <4> DEFINE S == Of(task[c].bets, v)
      <4>1. S \in SUBSET Bets /\ \A b \in S : pnl[b] \in Int /\ pnl[b] = pnl'[b]
        BY <3>3, Amounts DEF Of
      <4> HIDE DEF S
      <4>2. Sum(pnl, S) = Sum(pnl', S)
        BY <4>1, SumEqual, BetsMakeBooks
      <4>3. QED BY <4>2 DEF S
    <3>6. \A b \in task[c].bets : status'[b] = status[b]
      BY <3>3
    <3>7. Of(task'[c].bets, 0) = Of(task[c].bets, 0)
      BY <3>1
    <3>8. task[c].kind # "rollback" =>
            task[c].kind # "cancel" /\ \A b \in task[c].bets : b.market = task[c].market /\ status'[b] = "PENDING"
      BY <2>2, <3>1, <3>6 DEF WalletInv
    <3>9. task[c].kind = "rollback" =>
            /\ \A b \in task[c].bets : status'[b] \in {"WON", "LOST"}
            /\ \A u \in Users : task[c].taken[u] = Sum(pnl', Of(task[c].bets, u)) + Sum(Locks, Of(task[c].bets, u))
      BY <2>2, <3>1, <3>5, <3>6 DEF WalletInv
    <3>10. task[c].pc = "open" =>
             \A u \in Concerned(c) : task[c].balance[u] = balance'[u] /\ task[c].liability[u] = liability'[u]
      BY <2>2, <3>1, <3>4 DEF WalletInv
    <3>11. \A v : Of(task[c].bets, v)' = Of(task[c].bets, v)
      BY <3>1 DEF Of
    <3>12. QED BY <3>1, <3>2, <3>8, <3>9, <3>10, <3>11 DEF WalletInv
  <2>3. ASSUME c # a, ~Busy(c) PROVE WalletInv(c)'
    BY <2>3 DEF WalletInv, Busy, TypeInv
  <2>4. QED BY <2>1, <2>2, <2>3
<1>4. QED BY <1>1, <1>2, <1>3 DEF MoneyInv

LEMMA MoneyCommitSettlement ==
  ASSUME TypeInv, TypeInv', MoneyInv, Disjoint, PlainSettlement, NEW a \in Admins, CommitSettlement(a)
  PROVE  MoneyInv'
<1> DEFINE t == task[a]
           m == t.market
           w == t.winner
<1>1. /\ t \in Requests /\ WalletInv(a) /\ Busy(a)
      /\ t.pc = "open" /\ t.kind # "rollback"
      /\ task' = [task EXCEPT ![a] = Idle]
  BY DEF TypeInv, MoneyInv, CommitSettlement, ReportsDue, Busy
<1>2. /\ t.kind # "cancel" /\ \A b \in t.bets : b.market = m /\ status[b] = "PENDING"
      /\ \A u \in Concerned(a) : t.balance[u] = balance[u] /\ t.liability[u] = liability[u]
  BY <1>1 DEF WalletInv
<1>3. /\ \A b \in Bets : b \notin t.bets => status'[b] = status[b] /\ pnl'[b] = pnl[b]
      /\ \A b \in Bets : b \in t.bets =>
           pnl'[b] = BetPnl(b, w)
      /\ \A b \in Bets : b \in t.bets =>
           status'[b] = IF (b.selection = w) = (b.side = "BACK") THEN "WON" ELSE "LOST"
  BY <1>2 DEF CommitSettlement
<1>4. ASSUME NEW b \in Bets, b \in t.bets PROVE BetInv(b)'
  <2>1. b.stake \in Nat /\ b.profit \in Nat /\ b.side \in {"BACK", "LAY"}
    BY BetFields
  <2>2. Locks[b] = IF b.side = "BACK" THEN b.stake ELSE b.profit
    BY DEF Locks, LockedBy
  <2>3. BetPnl(b, w) = IF b.side = "BACK" THEN (IF b.selection = w THEN b.profit ELSE -b.stake)
                       ELSE (IF b.selection = w THEN -b.profit ELSE b.stake)
    BY DEF BetPnl, Earns
  <2>4. CASE b.selection = w /\ b.side = "BACK"
    <3>1. status'[b] = "WON" /\ pnl'[b] = b.profit /\ Locks[b] = b.stake
      BY <1>3, <1>4, <2>2, <2>3, <2>4
    <3>2. QED BY <2>1, <3>1 DEF BetInv
  <2>5. CASE b.selection = w /\ b.side # "BACK"
    <3>1. status'[b] = "LOST" /\ pnl'[b] = -b.profit /\ Locks[b] = b.profit
      BY <1>3, <1>4, <2>2, <2>3, <2>5
    <3>2. QED BY <2>1, <3>1 DEF BetInv
  <2>6. CASE b.selection # w /\ b.side = "BACK"
    <3>1. status'[b] = "LOST" /\ pnl'[b] = -b.stake /\ Locks[b] = b.stake
      BY <1>3, <1>4, <2>2, <2>3, <2>6
    <3>2. QED BY <2>1, <3>1 DEF BetInv
  <2>7. CASE b.selection # w /\ b.side # "BACK"
    <3>1. status'[b] = "WON" /\ pnl'[b] = b.stake /\ Locks[b] = b.profit
      BY <1>3, <1>4, <2>2, <2>3, <2>7
    <3>2. QED BY <2>1, <3>1 DEF BetInv
  <2>8. QED BY <2>4, <2>5, <2>6, <2>7
<1>5. ASSUME NEW u \in Users, u \in Concerned(a) PROVE ClientInv(u)'
  <2> DEFINE S == Of(t.bets, u)
             x == balance[u]
             y == liability[u]
             total == Sum([b \in S |-> BetPnl(b, w)], S)
             l == Sum(Locks, S)
             P == Sum(Locks, Pending(u))
             before == ExposureOf(Pending(u))
             after == ExposureOf(Pending(u) \ S)
  <2>1. /\ S \in SUBSET Of(Bets, u) /\ S \in SUBSET Bets /\ S \in SUBSET In(Of(Bets, u), m)
        /\ S \in SUBSET Pending(u) /\ Pending(u) \in SUBSET Bets
    BY <1>1, <1>2 DEF Of, In, Pending, Requests
  <2>2. x \in Int /\ y \in Int /\ total \in Int /\ l \in Nat /\ P \in Nat
    BY <2>1, Amounts, ResultsInteger, LocksSum
  <2>3. Sum(Locks, Pending(u) \ S) = P - l /\ Sum(Locks, Pending(u) \ S) \in Nat
    <3>1. IsFiniteSet(Pending(u)) /\ \A b \in Pending(u) : Locks[b] \in Int
      BY <2>1, BetsMakeBooks, LocksNatural
    <3> HIDE DEF S
    <3>2. Sum(Locks, Pending(u) \ S) = P - l
      BY <2>1, <3>1, SumWithout
    <3>3. QED BY <2>1, <3>2, LocksSum
  <2>4. x + y = Funds[u] + Results(u) /\ y = P
    BY DEF MoneyInv, ClientInv
  <2>5. l <= y
    <3> HIDE DEF l, P, S
    <3>1. P - l \in Nat
      BY <2>3
    <3>2. QED BY <2>2, <2>4, <3>1
  <2>6. PaidWallet([balance |-> x, liability |-> y], S, w, before, after)
          = [balance |-> x + total + l, liability |-> y - l]
    <3> HIDE DEF S, x, y, before, after
    <3>1. QED BY <2>1, <2>2, <2>5, PlainPaidWallet DEF PlainSettlement
  <2>7. balance'[u] = x + total + l /\ liability'[u] = y - l
    <3>1. /\ balance'[u] = PaidWallet([balance |-> t.balance[u], liability |-> t.liability[u]], S, w,
                                      before, after).balance
          /\ liability'[u] = PaidWallet([balance |-> t.balance[u], liability |-> t.liability[u]], S, w,
                                        before, after).liability
      BY <1>2, <1>5 DEF CommitSettlement
    <3>2. t.balance[u] = x /\ t.liability[u] = y
      BY <1>2, <1>5
    <3> HIDE DEF S, x, y, before, after, total, l
    <3>3. QED BY <2>6, <3>1, <3>2
  <2>8. Pending(u)' = Pending(u) \ S
    <3>1. \A b \in Bets : b \in t.bets => status'[b] # "PENDING"
      BY <1>3
    <3>2. QED BY <1>3, <3>1 DEF Pending, Of
  <2>9. Results(u)' = Results(u) + total
    <3>1. \A b \in Of(Bets, u) \ S : pnl'[b] = pnl[b]
      BY <1>3 DEF Of
    <3>2. Results(u)' = Results(u) - Sum(pnl, S) + Sum(pnl', S)
      <4> HIDE DEF S
      <4>1. QED BY <2>1, <3>1, ResultsChange
    <3>3. Sum(pnl, S) = 0
      <4>1. \A b \in S : pnl[b] = 0
        BY <1>2, <2>1 DEF MoneyInv, BetInv, Of
      <4> HIDE DEF S
      <4>2. QED BY <2>1, <4>1, SumZero, BetsMakeBooks
    <3>4. Sum(pnl', S) = total
      <4> DEFINE g == [b \in S |-> BetPnl(b, w)]
      <4>1. \A b \in S : g[b] = BetPnl(b, w) /\ pnl'[b] = BetPnl(b, w) /\ BetPnl(b, w) \in Int
        BY <1>3, <2>1, BetPnlInteger DEF Of
      <4> HIDE DEF g, S
      <4>2. Sum(g, S) = Sum(pnl', S)
        BY <2>1, <4>1, SumEqual, BetsMakeBooks
      <4>3. QED BY <4>2 DEF g
    <3>5. Results(u) \in Int
      BY PnlSum, OfSubset DEF Results, Of
    <3> HIDE DEF S, total
    <3>6. QED BY <2>2, <3>2, <3>3, <3>4, <3>5
  <2>10. liability'[u] = Sum(Locks, Pending(u) \ S)
    <3> HIDE DEF S, y, l, P
    <3>1. QED BY <2>3, <2>4, <2>7
  <2>11. balance'[u] + liability'[u] = Funds[u] + Results(u)'
    <3>1. Results(u) \in Int /\ Funds[u] \in Int
      BY PnlSum, OfSubset, SettlementAssumption DEF Results, Of
    <3> HIDE DEF S, x, y, l, P, total
    <3>2. QED BY <2>2, <2>4, <2>7, <2>9, <3>1
  <2>12. QED BY <2>8, <2>10, <2>11 DEF ClientInv
<1>6. \A u \in Users : u \notin Concerned(a) => balance'[u] = balance[u] /\ liability'[u] = liability[u]
  BY DEF CommitSettlement
<1>7. QED BY <1>1, <1>3, <1>4, <1>5, <1>6, MoneyCommit

LEMMA MoneyCommitRollback ==
  ASSUME TypeInv, TypeInv', MoneyInv, Disjoint, PlainSettlement, NEW a \in Admins, CommitRollback(a)
  PROVE  MoneyInv'
<1> DEFINE t == task[a]
<1>1. /\ t \in Requests /\ WalletInv(a) /\ Busy(a)
      /\ t.pc = "open" /\ t.kind = "rollback"
      /\ task' = [task EXCEPT ![a] = Idle]
  BY DEF TypeInv, MoneyInv, CommitRollback, ReportsDue, Busy
<1>2. /\ \A b \in t.bets : status[b] \in {"WON", "LOST"}
      /\ \A u \in Users : t.taken[u] = Sum(pnl, Of(t.bets, u)) + Sum(Locks, Of(t.bets, u))
      /\ \A u \in Concerned(a) : t.balance[u] = balance[u] /\ t.liability[u] = liability[u]
  BY <1>1 DEF WalletInv
<1>3. /\ \A b \in Bets : b \notin t.bets => status'[b] = status[b] /\ pnl'[b] = pnl[b]
      /\ \A b \in Bets : b \in t.bets => status'[b] = "PENDING" /\ pnl'[b] = 0
  BY DEF CommitRollback
<1>4. \A b \in Bets : b \in t.bets => BetInv(b)'
  BY <1>3 DEF BetInv
<1>5. ASSUME NEW u \in Users, u \in Concerned(a) PROVE ClientInv(u)'
  <2> DEFINE S == Of(t.bets, u)
             x == balance[u]
             y == liability[u]
             q == Sum(pnl, S)
             l == Sum(Locks, S)
             P == Sum(Locks, Pending(u))
             after == ExposureOf(Pending(u) \union S)
  <2>1. /\ S \in SUBSET Of(Bets, u) /\ S \in SUBSET Bets /\ Pending(u) \in SUBSET Bets
        /\ S \intersect Pending(u) = {} /\ Pending(u) \union S \in SUBSET Of(Bets, u)
    BY <1>1, <1>2 DEF Of, Pending, Requests
  <2>2. x \in Int /\ y \in Int /\ q \in Int /\ l \in Nat /\ P \in Nat
    BY <2>1, Amounts, PnlSum, LocksSum
  <2>3. after = P + l
    <3>1. IsFiniteSet(Pending(u)) /\ IsFiniteSet(S) /\ \A b \in Pending(u) \union S : Locks[b] \in Int
      BY <2>1, BetsMakeBooks, LocksNatural
    <3> HIDE DEF S
    <3>2. Sum(Locks, Pending(u) \union S) = P + l
      BY <2>1, <3>1, SumUnion
    <3>3. QED BY <2>1, <3>2, PlainExposure DEF PlainSettlement
  <2>4. x + y = Funds[u] + Results(u) /\ y = P
    BY DEF MoneyInv, ClientInv
  <2>5. balance'[u] = x - (q + l) /\ liability'[u] = after
    <3>1. balance'[u] = (IF t.taken[u] # 0 THEN t.balance[u] - t.taken[u] ELSE x) /\ liability'[u] = after
      BY <1>5 DEF CommitRollback, ExposureAfter
    <3>2. t.taken[u] = q + l /\ t.balance[u] = x
      BY <1>2, <1>5
    <3> HIDE DEF S, x, y, q, l, after
    <3>3. QED BY <2>2, <3>1, <3>2
  <2>6. Pending(u)' = Pending(u) \union S
    BY <1>1, <1>3 DEF Pending, Of, Requests
  <2>7. Results(u)' = Results(u) - q
    <3>1. \A b \in Of(Bets, u) \ S : pnl'[b] = pnl[b]
      BY <1>3 DEF Of
    <3>2. Results(u)' = Results(u) - q + Sum(pnl', S)
      <4> HIDE DEF S
      <4>1. QED BY <2>1, <3>1, ResultsChange
    <3>3. Sum(pnl', S) = 0
      <4>1. \A b \in S : pnl'[b] = 0
        BY <1>3, <2>1 DEF Of
      <4> HIDE DEF S
      <4>2. QED BY <2>1, <4>1, SumZero, BetsMakeBooks
    <3>4. Results(u) \in Int
      BY PnlSum, OfSubset DEF Results, Of
    <3> HIDE DEF S, q
    <3>5. QED BY <2>2, <3>2, <3>3, <3>4
  <2>8. liability'[u] = Sum(Locks, Pending(u) \union S)
    <3>1. Sum(Locks, Pending(u) \union S) = after
      BY <2>1, PlainExposure DEF PlainSettlement
    <3>2. QED BY <2>5, <3>1
  <2>9. balance'[u] + liability'[u] = Funds[u] + Results(u)'
    <3>1. Results(u) \in Int /\ Funds[u] \in Int
      BY PnlSum, OfSubset, SettlementAssumption DEF Results, Of
    <3> HIDE DEF S, x, y, l, P, q, after
    <3>2. QED BY <2>2, <2>3, <2>4, <2>5, <2>7, <3>1
  <2>10. QED BY <2>6, <2>8, <2>9 DEF ClientInv
<1>6. \A u \in Users : u \notin Concerned(a) => balance'[u] = balance[u] /\ liability'[u] = liability[u]
  BY DEF CommitRollback
<1>7. QED BY <1>1, <1>3, <1>4, <1>5, <1>6, MoneyCommit

LEMMA MoneyElsewhere ==
  ASSUME MoneyInv, UNCHANGED <<balance, liability, status, pnl, record, task>>
  PROVE  MoneyInv'
<1>1. /\ \A u \in Users : ClientInv(u)'
      /\ \A b \in Bets : BetInv(b)'
  BY DEF MoneyInv, ClientInv, BetInv, Results, Pending, Of
<1>2. \A a \in Admins : WalletInv(a)'
  BY DEF MoneyInv, WalletInv, Busy, Concerned, Of
<1>3. QED BY <1>1, <1>2 DEF MoneyInv

LEMMA MoneyStep ==
  ASSUME TypeInv, TypeInv', MoneyInv, Disjoint, PlainSettlement, [Next]_vars
  PROVE  MoneyInv'
<1>1. ASSUME NEW b \in Bets, Place(b) PROVE MoneyInv'
  BY <1>1, MoneyPlace
<1>2. ASSUME NEW a \in Admins, AskToSettle(a) \/ AskToRollback(a) \/ GoOn(a) \/ Fail(a)
      PROVE  MoneyInv'
  <2>1. ASSUME NEW u \in Users, GoOnReporting(a, u) PROVE MoneyInv'
    BY <2>1, MoneyElsewhere, ReportingElsewhere
  <2>2. QED BY <1>2, <2>1, MoneyPreparing, MoneyCommitSettlement, MoneyCommitRollback DEF GoOn
<1>3. ASSUME NEW a \in Admins, NEW u \in Users, FailReport(a, u) PROVE MoneyInv'
  BY <1>3, MoneyElsewhere, ReportingElsewhere
<1>4. CASE UNCHANGED vars
  BY <1>4, MoneyElsewhere DEF vars
<1>5. QED BY <1>1, <1>2, <1>3, <1>4 DEF Next

LEMMA MoneyInvariant ==
  ASSUME PlainSettlement
  PROVE  Spec /\ []Disjoint => []MoneyInv
<1>1. TypeInv /\ TypeInv' /\ MoneyInv /\ Disjoint /\ [Next]_vars => MoneyInv'
  BY MoneyStep
<1>2. QED BY <1>1, MoneyInit, TypeInvariant, PTL DEF Spec

\* Under the premises the settlement's arithmetic rests on, and while no client
\* has bets in two requests at once: settling and rolling back, of whole markets
\* or of some of their bets, in any order and with any failures, leaves balance
\* plus liability at what was funded and the results of the bets.
THEOREM MoneyCorrect ==
  ASSUME PlainSettlement
  PROVE  Spec /\ []Disjoint => []MoneyMatchesResults
<1>1. MoneyInv => MoneyMatchesResults
  BY DEF MoneyInv, ClientInv, MoneyMatchesResults
<1>2. QED BY <1>1, MoneyInvariant, PTL

\* And the liability, lowered by sums and recalculated by rollbacks, is always
\* the exposure of the client's open bets.
THEOREM LiabilityCorrect ==
  ASSUME PlainSettlement
  PROVE  Spec /\ []Disjoint => []LiabilityIsExposure
<1>1. MoneyInv => LiabilityIsExposure
  <2> SUFFICES ASSUME MoneyInv, NEW u \in Users PROVE liability[u] = ExposureOf(Pending(u))
    BY DEF LiabilityIsExposure
  <2>1. Pending(u) \in SUBSET Of(Bets, u)
    BY DEF Pending
  <2>2. QED BY <2>1, PlainExposure DEF MoneyInv, ClientInv, PlainSettlement
<1>2. QED BY <1>1, MoneyInvariant, PTL
=============================================================================
