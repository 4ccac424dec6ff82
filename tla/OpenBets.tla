------------------------------ MODULE OpenBets ------------------------------
(***************************************************************************)
(* The life of open bets and of the money they lock: placement of a bet    *)
(* (src/src/bets/bets.service.ts), deletion and bulk cancellation by an    *)
(* administrator (src/src/settlement/settlement.service.ts) and the        *)
(* transfers between an agent and its clients                              *)
(* (src/src/balancetransfer/transfer.service.ts).                          *)
(*                                                                         *)
(* Every operation is a request handler that reads and writes rows of one  *)
(* database in transactions of isolation level Read Committed: a read sees *)
(* the latest committed rows, locks nothing, and goes stale; the writes of *)
(* a transaction become visible together, at its commit.  A handler is     *)
(* therefore one action per read or group of reads on which a later write  *)
(* depends, and one action for the commit.                                 *)
(*                                                                         *)
(* Overlap is the assumption about the environment: the kinds of operation *)
(* that may run on a wallet while another one is in flight on it.  With    *)
(* Overlap = {} requests on a wallet come one at a time.                   *)
(***************************************************************************)
EXTENDS Integers

CONSTANTS
  Users,             \* the clients of one agent
  Bets,              \* the bets they may ask for, each placed at most once
  NoBet,             \* the null of a bet reference
  Books,             \* a book: a match odds or bookmaker market, or one
                     \* selection of a fancy market
  Owner, BookOf, SelectionOf,      \* attributes of a bet
  KindOf, MarketOf, MatchOf,       \* attributes of a book
  Exposure(_),       \* what a set of bets of one client locks in all
  BookExposure(_),   \* what a set of bets of one client in one book locks
  WithinLimit(_),    \* such a set does not win more than the client's cap
  CancelFilters,     \* the sets of bets a bulk cancellation may name
  Transfers,         \* the transfers between agent and clients
  Funds,             \* what each client was funded with beforehand
  AgentFunds,        \* the agent's own wallet
  Stoppable,         \* clients whose betting is stopped and allowed again
  Blockable,         \* books closed for betting and opened again
  Jobs,              \* requests an administrator may have in flight
  Overlap            \* which kinds of operation may overlap on a wallet

Operations == {"place", "admin", "transfer"}
Kinds == {"matchodds", "bookmaker", "fancy"}

BetsOf(u) == {b \in Bets : Owner[b] = u}
SameBook(S, b) == {c \in S : BookOf[c] = BookOf[b]}
SameMarket(S, b) == {c \in S : MarketOf[BookOf[c]] = MarketOf[BookOf[b]]}

ASSUME OpenBetsAssumption ==
  /\ NoBet \notin Bets
  /\ Owner \in [Bets -> Users]
  /\ BookOf \in [Bets -> Books]
  /\ KindOf \in [Books -> Kinds]
  /\ Funds \in [Users -> Nat]
  /\ AgentFunds \in Nat
  /\ CancelFilters \subseteq SUBSET Bets
  /\ Transfers \subseteq [user : Users, type : {"TOPUP", "TOPDOWN"}, amount : Nat]
  /\ Stoppable \subseteq Users
  /\ Blockable \subseteq Books
  /\ Overlap \subseteq Operations

\* The exposure services: no bets lock nothing, and a bet changes the total
\* by what it changes in its own book.
ASSUME ExposureAssumption ==
  /\ Exposure({}) = 0 /\ BookExposure({}) = 0
  /\ \A u \in Users : \A S \in SUBSET BetsOf(u) :
       /\ Exposure(S) \in Nat
       /\ BookExposure(S) \in Nat
       /\ \A b \in BetsOf(u) \ S :
            Exposure(S \union {b}) - Exposure(S)
              = BookExposure(SameBook(S, b) \union {b}) - BookExposure(SameBook(S, b))

VARIABLES
  balance, liability,   \* Wallet.balance and Wallet.liability of each client
  agent,                \* Wallet.balance of the agent
  funded,               \* per client, top-ups minus withdrawals (TransferLog)
  journal,              \* per client, BET_PLACED minus REFUND (Transaction)
  bet,                  \* the status of each bet row
  refundedBy,           \* Bet.refundedByBetId
  fancyRow,             \* FancyExposure.remainingExposure per client and book
  enabled,              \* User.isActive /\ User.bettingEnabled
  blocked,              \* books whose event is in a list of blocked events
  req,                  \* the placement request of each bet
  job,                  \* the administrators' requests
  moving                \* transfers whose balance check has passed

wallets == <<balance, liability, agent, funded, journal>>
rows == <<bet, refundedBy, fancyRow>>
switches == <<enabled, blocked>>
vars == <<balance, liability, agent, funded, journal, bet, refundedBy, fancyRow,
          enabled, blocked, req, job, moving>>

BetStatus == {"none", "PENDING", "CANCELLED", "DELETED"}

\* A request before it has read anything, at step pc.
Request(pc) == [pc |-> pc, balance |-> 0, liability |-> 0, peers |-> {}, delta |-> 0]

\* Mutant: amounts that lack an entry per client.
NothingAtAll == [u \in {} |-> 0]

Nothing == [u \in Users |-> 0]

\* A request of an administrator: the bets S it takes out, and the liabilities
\* it has read and computed.
Job(pc, kind, S, before, after) ==
  [pc |-> pc, kind |-> kind, bets |-> S, before |-> before, after |-> after]

NoJob == Job("idle", "delete", {}, Nothing, Nothing)

Pending(u) == {b \in BetsOf(u) : bet[b] = "PENDING"}

-----------------------------------------------------------------------------
(* Which operations are in flight on a client's wallet. *)

Placing(b) == req[b].pc \in {"began", "priced"}
Running(j) == job[j].pc # "idle"
Concerned(S) == {Owner[b] : b \in S}

InFlight(u) ==
  {"place" : b \in {c \in BetsOf(u) : Placing(c)}}
    \union {"admin" : j \in {k \in Jobs : Running(k) /\ u \in Concerned(job[k].bets)}}
    \union {"transfer" : t \in {s \in moving : s.user = u}}

MayStart(operation, u) ==
  \A other \in InFlight(u) : {operation, other} \subseteq Overlap

-----------------------------------------------------------------------------
Init ==
  /\ balance = Funds
  /\ liability = [u \in Users |-> 0]
  /\ agent = AgentFunds
  /\ funded = Funds
  /\ journal = [u \in Users |-> 0]
  /\ bet = [b \in Bets |-> "none"]
  /\ refundedBy = [b \in Bets |-> NoBet]
  /\ fancyRow = [u \in Users |-> [k \in Books |-> 0]]
  /\ enabled = [u \in Users |-> TRUE]
  /\ blocked = {}
  /\ req = [b \in Bets |-> Request("idle")]
  /\ job = [j \in Jobs |-> NoJob]
  /\ moving = {}

-----------------------------------------------------------------------------
(* placeBet *)

\* Before the transaction: the stake, the market and the list of blocked
\* events are checked and the price is compared with the feed; then a match
\* odds bet waits for the event's accept delay.
Admit(b) ==
  /\ req[b].pc = "idle"
  /\ BookOf[b] \notin blocked
  /\ req' = [req EXCEPT ![b] = Request("admitted")]
  /\ UNCHANGED <<wallets, rows, switches, job, moving>>

\* The transaction begins by reading the client and the wallet.
BeginPlacement(b) ==
  LET u == Owner[b] IN
  /\ req[b].pc = "admitted"
  /\ MayStart("place", u)
  /\ req' = [req EXCEPT ![b] =
               IF enabled[u]
               THEN [pc |-> "began", balance |-> balance[u], liability |-> liability[u],
                     peers |-> {}, delta |-> 0]
               ELSE Request("rejected")]
  /\ UNCHANGED <<wallets, rows, switches, job, moving>>

\* Mutants: the balance is not compared, the cap is applied to the bet alone.
AcceptsUnfunded(b, mine, delta) == WithinLimit(mine \union {b})
AcceptsAlone(b, mine, delta) == WithinLimit({b}) /\ (delta > 0 => delta <= req[b].balance)

\* The winnings cap, and the balance read before against what the bet adds.
Accepts(b, mine, delta) ==
  /\ WithinLimit(mine \union {b})
  /\ delta > 0 => delta <= req[b].balance

\* A placement updates the row of the match, which keeps other placements on
\* the match waiting until it ends.
MatchBusy(b) ==
  \E c \in Bets \ {b} : req[c].pc = "priced" /\ MatchOf[BookOf[c]] = MatchOf[BookOf[b]]

\* Having got that row it reads the client's open bets of the market, of which
\* those in the book determine what the bet adds to the exposure.
PricePlacement(b) ==
  LET peers == SameMarket(Pending(Owner[b]), b)
      mine  == SameBook(peers, b)
      delta == BookExposure(mine \union {b}) - BookExposure(mine)
  IN
  /\ req[b].pc = "began"
  /\ ~MatchBusy(b)
  /\ req' = [req EXCEPT ![b] =
               IF Accepts(b, mine, delta)
               THEN [pc |-> "priced", balance |-> @.balance, liability |-> @.liability,
                     peers |-> peers, delta |-> delta]
               ELSE Request("rejected")]
  /\ UNCHANGED <<wallets, rows, switches, job, moving>>

\* Mutant: a transaction holds its rows before it has changed them.
LockedEarly == UNION {job[j].bets : j \in {k \in Jobs : job[k].pc \in {"began", "recalculated"}}}

\* The rows a transaction has changed and not committed keep others waiting.
Locked == UNION {job[j].bets : j \in {k \in Jobs : job[k].pc = "recalculated"}}

RowGone(S) == \E b \in S : bet[b] = "DELETED"

\* An offsetting bet marks the open bets of its selection as refunded by it.
MarkedBy(b) ==
  IF req[b].delta < 0 THEN {c \in req[b].peers : SelectionOf[c] = SelectionOf[b]}
                      ELSE {}

\* Mutant: the row gets the exposure of the new bet alone.
RowOfBet(b) == BookExposure({b})

\* The exposure of the bet's book, with the bet.
RowOf(b) == BookExposure(SameBook(req[b].peers, b) \union {b})

\* The commit: the wallet gets values computed from the snapshot, the bet and
\* its transaction row are created, refunded bets are marked, and a fancy bet
\* records the exposure of its book.
CommitPlacement(b) ==
  LET u == Owner[b]
      r == req[b]
  IN
  /\ r.pc = "priced"
  /\ MarkedBy(b) \intersect Locked = {}
  /\ ~RowGone(MarkedBy(b))
  /\ balance' = [balance EXCEPT ![u] = r.balance - r.delta]
  /\ liability' = [liability EXCEPT ![u] = r.liability + r.delta]
  /\ journal' = [journal EXCEPT ![u] = @ + r.delta]
  /\ bet' = [bet EXCEPT ![b] = "PENDING"]
  /\ refundedBy' = [c \in Bets |-> IF c \in MarkedBy(b) THEN b ELSE refundedBy[c]]
  /\ fancyRow' = IF KindOf[BookOf[b]] = "fancy"
                 THEN [fancyRow EXCEPT ![u][BookOf[b]] = RowOf(b)]
                 ELSE fancyRow
  /\ req' = [req EXCEPT ![b] = Request("placed")]
  /\ UNCHANGED <<agent, funded, switches, job, moving>>

\* The transaction fails (a time limit, a lost connection, a bet to be marked
\* that is gone) and leaves no trace.
FailPlacement(b) ==
  /\ Placing(b)
  /\ req' = [req EXCEPT ![b] = Request("rejected")]
  /\ UNCHANGED <<wallets, rows, switches, job, moving>>

-----------------------------------------------------------------------------
(* deleteBet and cancelBetsBulk *)

\* Mutant: every bet is deleted alone.
DeletedAlone(b) == {b}

\* A match odds bet is deleted with all its siblings in the market, any other
\* bet alone.
DeletedWith(b) ==
  IF KindOf[BookOf[b]] = "matchodds"
  THEN SameBook(Pending(Owner[b]), b)
  ELSE {b}

\* deleteBet reads the bets and the wallet before its transaction.
ReadDeletion(j, b) ==
  /\ job[j].pc = "idle"
  /\ bet[b] = "PENDING"
  /\ MayStart("admin", Owner[b])
  /\ job' = [job EXCEPT ![j] =
               Job("began", "delete", DeletedWith(b),
                   [u \in Users |-> IF u = Owner[b] THEN liability[u] ELSE 0], Nothing)]
  /\ UNCHANGED <<wallets, rows, switches, req, moving>>

\* cancelBetsBulk reads the open bets its filter names before its transaction,
ReadCancellation(j, filter) ==
  LET S == {b \in filter : bet[b] = "PENDING"} IN
  /\ job[j].pc = "idle"
  /\ S # {}
  /\ \A u \in Concerned(S) : MayStart("admin", u)
  /\ job' = [job EXCEPT ![j] = Job("read", "cancel", S, Nothing, Nothing)]
  /\ UNCHANGED <<wallets, rows, switches, req, moving>>

\* and the wallets inside it.
BeginCancellation(j) ==
  LET S == job[j].bets IN
  /\ job[j].pc = "read"
  /\ job' = [job EXCEPT ![j] =
               Job("began", "cancel", S,
                   [u \in Users |-> IF u \in Concerned(S) THEN liability[u] ELSE 0], Nothing)]
  /\ UNCHANGED <<wallets, rows, switches, req, moving>>

\* Mutant: the recalculation still counts the bets that are taken out.
RecalculateAll(j) ==
  LET S == job[j].bets IN
  /\ job[j].pc = "began"
  /\ S \intersect Locked = {}
  /\ ~RowGone(S)
  /\ job' = [job EXCEPT ![j] =
               Job("recalculated", @.kind, S, @.before,
                   [u \in Users |-> IF u \in Concerned(S) THEN Exposure(Pending(u)) ELSE 0])]
  /\ UNCHANGED <<wallets, rows, switches, req, moving>>

\* The transaction changes the bet rows, waiting for other transactions that
\* hold them, and recalculates the liability from the bets left open.
Recalculate(j) ==
  LET S == job[j].bets IN
  /\ job[j].pc = "began"
  /\ S \intersect Locked = {}
  /\ ~RowGone(S)
  /\ job' = [job EXCEPT ![j] =
               Job("recalculated", @.kind, S, @.before,
                   [u \in Users |-> IF u \in Concerned(S) THEN Exposure(Pending(u) \ S) ELSE 0])]
  /\ UNCHANGED <<wallets, rows, switches, req, moving>>

Refund(j, u) ==
  IF job[j].before[u] > job[j].after[u] THEN job[j].before[u] - job[j].after[u] ELSE 0

\* The commit: the liability is set, the balance and the journal get the
\* difference to the liability read before, if it fell.
CommitJob(j) ==
  LET S == job[j].bets
      status == IF job[j].kind = "delete" THEN "DELETED" ELSE "CANCELLED"
  IN
  /\ job[j].pc = "recalculated"
  /\ liability' = [u \in Users |-> IF u \in Concerned(S) THEN job[j].after[u] ELSE liability[u]]
  /\ balance' = [u \in Users |-> balance[u] + Refund(j, u)]
  /\ journal' = [u \in Users |-> journal[u] - Refund(j, u)]
  /\ bet' = [b \in Bets |-> IF b \in S THEN status ELSE bet[b]]
  /\ job' = [job EXCEPT ![j] = NoJob]
  /\ UNCHANGED <<agent, funded, refundedBy, fancyRow, switches, req, moving>>

\* The transaction fails, for one because a bet row is gone.
FailJob(j) ==
  /\ Running(j)
  /\ job' = [job EXCEPT ![j] = NoJob]
  /\ UNCHANGED <<wallets, rows, switches, req, moving>>

-----------------------------------------------------------------------------
(* topUpBalance and topDownBalance *)

\* Mutant: both directions look at the client's wallet.
PayerClient(t) == balance[t.user]

Payer(t) == IF t.type = "TOPUP" THEN agent ELSE balance[t.user]

\* The wallets are read and the payer's balance checked.
CheckTransfer(t) ==
  /\ t \notin moving
  /\ MayStart("transfer", t.user)
  /\ moving = {} \/ "transfer" \in Overlap
  /\ Payer(t) >= t.amount
  /\ moving' = moving \union {t}
  /\ UNCHANGED <<wallets, rows, switches, req, job>>

\* Mutant: a top-down leaves no record of the transfer.
CommitTransferUnlogged(t) ==
  LET received == IF t.type = "TOPUP" THEN t.amount ELSE -t.amount IN
  /\ t \in moving
  /\ moving' = moving \ {t}
  /\ agent' = agent - received
  /\ balance' = [balance EXCEPT ![t.user] = @ + received]
  /\ funded' = IF t.type = "TOPUP" THEN [funded EXCEPT ![t.user] = @ + received] ELSE funded
  /\ UNCHANGED <<liability, journal, rows, switches, req, job>>

\* The commit: increments, where a placement writes values.
CommitTransfer(t) ==
  LET received == IF t.type = "TOPUP" THEN t.amount ELSE -t.amount IN
  /\ t \in moving
  /\ moving' = moving \ {t}
  /\ agent' = agent - received
  /\ balance' = [balance EXCEPT ![t.user] = @ + received]
  /\ funded' = [funded EXCEPT ![t.user] = @ + received]
  /\ UNCHANGED <<liability, journal, rows, switches, req, job>>

-----------------------------------------------------------------------------
(* An agent stops a client's betting, an administrator blocks an event. *)

SwitchBetting(u) ==
  /\ enabled' = [enabled EXCEPT ![u] = ~@]
  /\ UNCHANGED <<wallets, rows, blocked, req, job, moving>>

SwitchBook(k) ==
  /\ blocked' = IF k \in blocked THEN blocked \ {k} ELSE blocked \union {k}
  /\ UNCHANGED <<wallets, rows, enabled, req, job, moving>>

-----------------------------------------------------------------------------
PlacementStep(b) ==
  Admit(b) \/ BeginPlacement(b) \/ PricePlacement(b) \/ CommitPlacement(b) \/ FailPlacement(b)

JobStep(j) ==
  \/ \E b \in Bets : ReadDeletion(j, b)
  \/ \E filter \in CancelFilters : ReadCancellation(j, filter)
  \/ BeginCancellation(j) \/ Recalculate(j) \/ CommitJob(j) \/ FailJob(j)

Next ==
  \/ \E b \in Bets : PlacementStep(b)
  \/ \E j \in Jobs : JobStep(j)
  \/ \E t \in Transfers : CheckTransfer(t) \/ CommitTransfer(t)
  \/ \E u \in Stoppable : SwitchBetting(u)
  \/ \E k \in Blockable : SwitchBook(k)

Spec == Init /\ [][Next]_vars

\* Handlers run on once they have begun: every step is taken when it stays
\* possible, except that requests need not arrive and transactions need not
\* fail - unless a row they write is gone, which makes the write throw.  The
\* database queues those that wait for a row, so a step that waits for one is
\* taken if it becomes possible over and over (SF).
HandlersRun ==
  /\ \A b \in Bets : /\ SF_vars(PricePlacement(b))
                     /\ SF_vars(CommitPlacement(b))
                     /\ WF_vars(RowGone(MarkedBy(b)) /\ FailPlacement(b))
  /\ \A j \in Jobs : /\ WF_vars(BeginCancellation(j))
                     /\ SF_vars(Recalculate(j))
                     /\ WF_vars(CommitJob(j))
                     /\ WF_vars(RowGone(job[j].bets) /\ FailJob(j))

FairSpec == Spec /\ HandlersRun

-----------------------------------------------------------------------------
RequestType ==
  [pc : {"idle", "admitted", "began", "priced", "placed", "rejected"},
   balance : Int, liability : Int, peers : SUBSET Bets, delta : Int]

JobType ==
  [pc : {"idle", "read", "began", "recalculated"}, kind : {"delete", "cancel"},
   bets : SUBSET Bets, before : [Users -> Int], after : [Users -> Int]]

TypeOK ==
  /\ balance \in [Users -> Int] /\ liability \in [Users -> Int]
  /\ agent \in Int
  /\ funded \in [Users -> Int] /\ journal \in [Users -> Int]
  /\ bet \in [Bets -> BetStatus]
  /\ refundedBy \in [Bets -> Bets \union {NoBet}]
  /\ fancyRow \in [Users -> [Books -> Int]]
  /\ enabled \in [Users -> BOOLEAN]
  /\ blocked \subseteq Books
  /\ req \in [Bets -> RequestType]
  /\ job \in [Jobs -> JobType]
  /\ moving \subseteq Transfers

\* Money is neither created nor lost by open bets: what a client was funded
\* with is either balance or liability ("wallet.balance + wallet.liability =
\* constant", END_TO_END_AUDIT.md).
FundsConserved == \A u \in Users : balance[u] + liability[u] = funded[u]

\* The liability column, which no statement computes as a whole at placement,
\* is the exposure of the client's open bets.
LiabilityIsExposure == \A u \in Users : liability[u] = Exposure(Pending(u))

\* The transaction rows add up to the wallet: a statement built from them
\* shows the balance the client has.
JournalExplainsBalance == \A u \in Users : balance[u] = funded[u] - journal[u]

\* Nobody bets, withdraws or funds money that is not there.
NoOverdraft == agent >= 0 /\ \A u \in Users : balance[u] >= 0

OpenIn(u, k) == {b \in Pending(u) : BookOf[b] = k}

\* The cap on winnings holds of every book as a whole, not only of the bet
\* that was checked last.
WinningsCapped ==
  \A u \in Users, k \in Books : OpenIn(u, k) # {} => WithinLimit(OpenIn(u, k))

\* The exposure recorded for a fancy book, which settlement reads, is never
\* less than what its open bets lock.
FancyRowCovers ==
  \A u \in Users, k \in Books :
     KindOf[k] = "fancy" => fancyRow[u][k] >= BookExposure(OpenIn(u, k))

\* What the wallet promises (Escrow): held money is the liability.
Abstract == INSTANCE Escrow WITH
  Clients <- Users, Funds <- Funds, VaultFunds <- AgentFunds,
  free <- balance, held <- liability, funded <- funded, vault <- agent

ImplementsEscrow == Abstract!Spec

\* Placements, deletions and cancellations that wait for each other's rows
\* all come to an end.
RequestsEnd ==
  /\ \A b \in Bets : Placing(b) ~> ~Placing(b)
  /\ \A j \in Jobs : Running(j) ~> ~Running(j)

-----------------------------------------------------------------------------
(* Taking bets out of a client's book never raises what the rest locks.    *)
(* It is so when the bets taken out hedge none that stay.                  *)
RemovalsRelease ==
  /\ \A b \in Bets : \A S \in SUBSET BetsOf(Owner[b]) :
       LET gone == IF KindOf[BookOf[b]] = "matchodds" THEN SameBook(S, b) ELSE {b}
       IN  Exposure(S \ gone) <= Exposure(S)
  /\ \A F \in CancelFilters, u \in Users : \A S \in SUBSET BetsOf(u) :
       Exposure(S \ F) <= Exposure(S)

\* Nor does it raise what the rest of a book wins above the cap.
RemovalsKeepLimit ==
  \A u \in Users, k \in Books : \A S \in SUBSET {b \in BetsOf(u) : BookOf[b] = k} :
    WithinLimit(S) =>
      /\ \A b \in S : KindOf[k] # "matchodds" /\ S # {b} => WithinLimit(S \ {b})
      /\ \A F \in CancelFilters : S \ F # {} => WithinLimit(S \ F)
=============================================================================
