# Verification of the betting exchange

The program is a NestJS server (`src/src`) with a PostgreSQL database behind
Prisma: clients place bets on match odds, bookmaker and fancy (session)
markets, administrators settle the markets, and money moves down a hierarchy
of super admins, admins, agents and clients. This directory holds TLA+ models
of the parts that keep money and bets consistent, configurations that
model-check them with TLC, and proofs checked by TLAPS.

`PROJECT.json` maps every definition to the lines of source it models, and
lists the runs, the mutants that show each property can fail, the hazards and
the theorems.

## The system

| Component | State it keeps | Operations | What makes it correct |
|---|---|---|---|
| Exposure services (`bets/*-exposure.service.ts`) | none | exposure of a set of bets, delta of one more | the amount locked is the worst result over all outcomes |
| Bet placement (`bets/bets.service.ts`) | `Wallet`, `Bet`, `Transaction`, `FancyExposure` rows | `placeBet`: checks, accept delay, one transaction | money conserved, liability = exposure, cap on winnings, no overdraft |
| Acceptance of a price (`bets/bets.service.ts`) | a price snapshot in Redis | comparison with the live feed, fall-back to the snapshot, delay | no bet at a price the vendor did not lately offer |
| Event settings (`bets/bets.service.ts`) | one settings row per list, two keys for delays | stop and allow events, set delays | what was confirmed stays in force |
| Removal by administrators (`settlement.service.ts`) | wallets and bets | `deleteBet`, `cancelBetsBulk` | what is released is what was locked |
| Transfers (`balancetransfer/transfer.service.ts`) | `Wallet`, `TransferLog` | `topUpBalance`, `topDownBalance` | the log explains the balances; nobody pays what he does not have |
| Match odds settlement (`settlement.service.ts`) | `Settlement`, `Bet`, `Wallet` | `settleMarketManual`, `rollbackSettlement` | every result paid once, rollback is the inverse |
| Fancy, bookmaker, tied match settlement (`settlement.service.ts`) | the same, and `FancyExposure` | `settleFancyManual`, `settleBookmakerManualV2`, `settleTiedMatchManual` | the same |
| Settlement lists and history (`settlement.service.ts`, `settlement-admin.controller.ts`) | corrected selections, the settlement id each bet carries | overviews of open bets, lists per kind, histories | what is shown can be settled as shown |
| Reports (`settlement/pnl.service.ts`, `hierarchy-pnl.service.ts`) | `UserPnl`, `HierarchyPnl` | recalculation and distribution after each settlement | reports are sums of bets, the ledgers follow the report |
| User hierarchy (`auth/auth.service.ts`, `users/users.service.ts`, `roles/*`) | `User`, `Wallet` rows | creation, commissions, switches of betting and their cascade | a stop reaches every client below |
| Odds feed (`cricketid/*`, `betting/betting.gateway.ts`) | two layers of caches with times to live, visibility, active matches | reading, polling, pushing | data is not older than the caches allow; browsers end up with what the vendor has |
| Reports of agents, site content, complaints | single rows | queries and single writes | nothing beyond the database |

Components interact through database rows, Redis keys and in-process caches: a
request handler is an asynchronous function that may be interleaved with others
at every `await`, transactions run at Postgres' default isolation level, Read
Committed, and the code takes no explicit row locks. What is hard follows from
that: reads go stale, wallets are written as absolute values, settings rows and
distributions are read, changed and written back, some records are written
outside the transaction they belong to, transactions have time limits after
which they fail, slow answers overtake each other, and row locks taken by
updates in different orders can make requests wait for each other. Money is also
computed in several places (placement, removal, four kinds of settlement) by
different formulas which must agree.

## Modules

| Module | What it models |
|---|---|
| `Exposure` | the exposure formulas as operators on sets of bets |
| `ExposureBook` | one market's book to which bets are added, the deltas summed up, against the worst loss over every outcome |
| `BetAcceptance` | what decides whether a bet gets to its transaction: settings rows, live price, snapshot, delay |
| `Escrow` | what a wallet promises: free and held money, hold, release, fund, withdraw |
| `OpenBets` | placement, deletion, bulk cancellation, transfers and switches as interleaved handlers; refines `Escrow` |
| `MarketSettlement` | settlement, cancellation and rollback of match odds markets and the reports afterwards |
| `SideMarketSettlement` | the same for fancy selections, bookmaker and tied match markets, each with its own path |
| `SettlementLists` | how lists and settlements classify the same bets, corrections of selections, histories |
| `UserHierarchy` | the tree of users: creation, switches and their cascade, transfers, commissions, distribution |
| `OddsFeed` | a datum of the vendor on its way through both caches, the polls and the rooms to browsers |
| `MC*` | instances for TLC, one per module above that is checked |
| `Sums` | the sum of a function over a set, as the money properties use it |
| `MoneyTheorems` | lemmas: sums and greatest elements of finite sets; what the exposure formulas answer; the theorem modules about money extend it |
| `BookAndFeedProofs` | theorems about `ExposureBook` and `OddsFeed`, two machines that share no state |
| `BetAcceptanceProofs`, `OpenBetsProofs`, `MarketSettlementProofs`, `SideMarketSettlementProofs`, `SettlementListsProofs`, `UserHierarchyProofs` | theorems about the module each is named for |

`MarketSettlement`, `SideMarketSettlement` and `ExposureBook` extend `Exposure`,
which like `OpenBets` and `UserHierarchy` takes its sums from `Sums`;
`OpenBets` takes the exposure as a constant, which its instance fills with the
operators of `Exposure`. `OpenBets` starts where `BetAcceptance` ends, at the
admission of a bet to its transaction; the settlements start from open bets
that `Place` puts there with the wallet `OpenBets` shows them to have.

### How the state corresponds to the code

*Exposure*. A bet is a record; `profit` stands for `(odds - 1) * stake` so that
all arithmetic is in integers, and fancy lines are given in half runs. The
fancy service's list of candidate outcomes is `CandidateOutcomes`; that it is
enough is what `LockedIsWorstLoss` says. A market has at least two runners
(`OffersAssumption`).

*BetAcceptance*. `stopped` are the two settings rows of stopped events,
`canonical` and `legacy` the delays under both keys, `snapshot` the Redis key of
a price with the ticks it has to live. A request for settings reads a row
(`SetBlocked`, `SetDelay`) and writes it whole (`WriteBlocked`, or
`WriteCanonical` then `WriteLegacy`). A placement is

    Begin -> ReadOverride -> VendorQuotes -> Receive -> KeepSnapshot -> Check
          -> [FallBack] -> ReadDelay -> Commit

where `Begin` looks at the list, `VendorQuotes` is the moment at which the vendor
answers and `Receive` that at which the answer arrives. `offered`, `held` and
`delayOf` are histories that only the properties read.

*OpenBets*. `balance`, `liability` are the wallet's columns, `journal` sums up
the `Transaction` rows, `funded` the `TransferLog`, `bet` is `Bet.status`,
`refundedBy` is `Bet.refundedByBetId`, `fancyRow` is
`FancyExposure.remainingExposure`. A handler is one action per read, or group
of reads, on which a later write depends and one action for its commit:

    placeBet        Admit -> BeginPlacement -> PricePlacement -> CommitPlacement
    deleteBet       ReadDeletion -> Recalculate -> CommitJob
    cancelBetsBulk  ReadCancellation -> BeginCancellation -> Recalculate -> CommitJob
    topUp/topDown   CheckTransfer -> CommitTransfer

`FailPlacement` and `FailJob` roll a transaction back: its time limit, a lost
connection, a row that is gone, or Postgres breaking a deadlock. `MatchBusy` and
`Locked` are the row locks on which the handlers wait: that of the match, which
a placement upserts before it reads the open bets, and those of bet rows. Locks
on wallet rows are left out: the cycle they can close (a placement locks the
wallet and then bets, a removal the reverse) ends in one of those failures.
`Overlap` says which kinds of operation may overlap on one wallet.

*MarketSettlement*. `record` is the `Settlement` row, `userPnl` and `ledger` the
reports. A settlement is

    ReadToSettle -> Validate -> Record -> Open -> CommitSettlement

and a rollback `ReadToRollback -> Open -> CommitRollback`; `Record` is apart
from the commit because the code writes the record before and outside the
transaction. Then the reports of the clients concerned are made side by side,
each of them in steps of its own (`report`, per request and client):

    [DeleteShares ->] ReadResults -> WriteReport -> FetchReport
                   -> OpenDistribution -> InsertShares

where `DeleteShares` comes first after a rollback, which distributes nothing.
The reports of two requests may be interleaved in every way; `FailReport` is a
step of one that fails. `spoiled` (clients whose last report met another one or
failed) and `cleared` (clients whose shares a rollback deleted) are histories. `Open` reads the wallets of all clients at once where
the code reads them client by client in its loop. The winner is any runner,
because a failing feed lets any selection with a bet pass. Bets are placed
while requests are in flight.

*SideMarketSettlement*. Which bets a request reads, when earlier settlements are
looked for, the tagging of bets with the market's settlement id, the record and
the way wallets are written differ per kind:

    fancy      ReadFancy -> TagBets -> Record -> ReadWallets -> CommitFancy
    bookmaker  ReadBookmaker -> ValidateBookmaker -> TagBets -> Record -> CommitBookmaker
    tied       CheckTied -> ReadTied -> TagBets -> Record -> CommitTied
               (a cancellation: ... -> ReadWallets -> CancelTied)
    rollback   ReadToRollback -> ReadWallets -> CommitRollback

`tagged` are the bets that carry the market's settlement id, `row` the fancy
exposure rows. Tags are written by `TagBets` and once more, with the status, by
each commit. `CommitFancy` and `CancelTied` write absolute values, the others
increment. `MayStart` keeps apart requests the code would let meet: for one
market, and those of which one overwrites wallets; what happens when two pay the
same bets is shown for match odds (`SettlementTwice`).

*SettlementLists*. A text the code searches for words is the set of those words.
`prefix` is the kind in `Bet.settlementId`, `selection` the number the vendor
gave the runner, which `Renumber` changes. An overview is `ReadOverview`, then
`ListChecked` (the vendor named its runners) or `ListUnchecked`, then `Correct`
or `CorrectionFails` per bet; a settlement from it `Ask -> Validate -> Record ->
Commit`, which may fail after each step; a history `ReadPage -> ReadEntries`.
`paidRuns` is `metadata.decisionRun`, where `Void` is the null that a
cancellation writes, and `None` that there is no such key.

*UserHierarchy*. A task is a request, with one action per query: creation
`CreateUser | CreateClient -> InsertUser -> InsertWallet`, a switch
`SetBettingEnabled | ToggleUserStatus -> SwitchTarget -> ReadLevel ... ->
SwitchDownline`, a transfer `Transfer -> ReadWallets -> CommitTransfer`, a
distribution `Distribute -> DeleteRows -> WalkUp ... -> CommitRows`. `wallet` is
defined for those who have a wallet row, which is one write later than their
user row. The users at the start are a tree `createUser` could have made
(`HierarchyAssumption`): everybody else than a super admin stands under somebody
who may create them. The writes
of transfers and distributions are seen when they commit, those of creations and
switches one by one, as in the code.

*OddsFeed*. `inner` is the Redis entry of the datum, `outer` the entry of
`AggregatorService.cache` (or of the details), `enabled` its visibility,
`idleFor` the age of its registration as an active match, `pushed` the last
payload emitted and `shown` what a browser in the room has. Readers go through
the aggregator (`Read`) or, as the endpoints of `cricketid.controller.ts`
for lists by sport, details, odds and bookmaker fancies do, past it to Redis
(`ReadDirect`), where no visibility is applied. A lane gives the
times to live and the attempts of one kind of data; times are scaled down to
ticks. `Tick` passes only while everybody waits for the vendor.

## Runs

| Run | What it checks | Bounds |
|---|---|---|
| `Exposure` | the sum of deltas is the worst loss over every outcome the service looks at; a riskless book locks nothing | every order of eight match odds bets on three runners, of eight fancy bets, of five bookmaker bets |
| `BetAcceptance` | a bet is taken only at a price the vendor lately had; stops and delays that were confirmed hold | two placements, two administrators, two events, three prices; prices, prices with delays, delays, or stops move at a time |
| `OddsFeed` | data is not older than the caches add up to; a hidden match stays off the aggregator's list; browsers end up with what the vendor has | four kinds of data, one or two changes, up to two readers, two overlapping polls |
| `UserHierarchy` | switches reach those below; the transfer log explains balances; overdrafts only from crossed transfers; a result passes up whole and once | a tree of four levels and one newcomer, two requests at a time, three in all |
| `HierarchyShares` | *violated*: a parent above a child with a smaller percentage loses when the client loses | the same |
| `OpenBets` | conservation, liability = exposure, journal, no overdraft, cap, fancy rows, refinement of `Escrow` | one client, five bets in two books, one administrator, both transfers, `Overlap = {}` |
| `OpenBetsRequestsEnd` | every request ends; no overdraft in spite of stale wallets | two bets that mark each other, two administrators, all overlapping |
| `Settlement` | results paid exactly once, liability, records, winners, reports, distribution | one client, three bets, two markets, a filter, rollbacks, failures before payment; two administrators who pay one after the other and whose reports overlap |
| `SettlementRetried` | settled, cancelled, failed and rolled back, money matches results; a market left with a record and no payment is paid when asked again | two clients, one bet each, one market, one administrator; reports fail, too |
| `SettlementTwice` | *violated*: two administrators pay the same bets | one client, two requests |
| `SideMarkets` | money, liability, winner, reversibility, and rows that cover the open bets for fancy, bookmaker and tied match markets | four offers of two to four bets, four markets, two administrators |
| `SettlementLists` | what overviews and lists show can be settled as shown; bets are paid by the runner they were placed on; histories show the runs that decided | six offers of one or two bets, three decision runs below, on and above the line, two administrators, one renumbering, two settlements |

Amounts are small integers ("thousands"), chosen so that limits bind: funds that
do not cover all bets, a cap that one pair of bets breaks, an agent who can pay
one transfer, a limit per client (`MaxDelta`) that one settlement exceeds. Each
bet is placed at most once, so that behaviours are bounded without a counter;
removals, settlements, rollbacks, transfers and switches repeat without bound
where no number of requests is given (`MaxRequests`, `MaxSettlements`,
`mix.settings`).

### Why these bounds are enough

Clients meet only in three places: the lock on a match row, the agent's wallet
and a settlement that covers several clients. The run of `OpenBets` therefore
has one client with several bets (the theorems hold for any number), and so has
`Settlement`, where the client's reports meet; `SettlementRetried` and
`SideMarkets` have two clients. Two bets of one selection and one of another kind of
market suffice to have bets that offset, bets that are marked, bets whose books
add up, and a removal of some and not others. A third administrator would
repeat what the second one does.

A row that is read, changed and written back is lost to one request in between,
so two at a time meet every such case; three requests in all let one of them
find what an overlapping pair has left. In `BetAcceptance` and `UserHierarchy`
the kinds of activity that share no state are not mixed (`Mixes`): each mix has
all that read or write the same rows. The tree has each role once, and the
newcomer may come to stand at the place of an agent or of a client. In
`OddsFeed` the data changes once or twice: a stale store needs one change while
an answer is under way. Its times to live keep the order of the code's, not
their ratios. One renumbering makes a selection stale; what a second one would
add is named under the hazards.

### What the passing runs leave out, and why

These are cases the models can express, which the code treats in a way that
breaks the property; the instances leave them out so that the rest is checked,
and the theorems assume them away by name.

* *Exposure*: a runner nobody bet upon is no candidate winner
  (`matchodds-exposure.service.ts:118`), so with bets on some of the runners
  the worst outcome may be one that is not looked at; the bookmaker service adds
  amounts up and is exact for bets on one side of one runner.
  `LockedIsWorstLoss` says so in its premise.
* *Overlapping placements of one client* overwrite each other's absolute wallet
  values: with `Overlap` as in `OpenBetsRequestsEnd`, liability is no longer
  the exposure. `NoOverdraft` still holds there, and `Solvency` says it always does.
* *Deletion of a hedge*: what is left has a higher liability, the refund is
  clamped at zero and the difference appears from nowhere.
* *Settlement of clients on both sides of a market*: what is released is a sum
  over bets, what was locked a worst case over outcomes. The cancellation clears
  the wallet's whole liability, whatever other markets hold: `SettlementRetried`
  has one market. Rollbacks of some bets mark the whole record. One request
  settles or rolls back at a time (`PayTogether`; `SettlementTwice` has two),
  and no bet of a client is placed while a payment to this client is open.
* *Reports that meet*: of two reports of one client made at the same time the
  older sum may be written last, and two distributions may both stay, because
  neither finds the shares the other has not committed
  (`hierarchy-pnl.service.ts:106`). A failure of a report is logged and
  swallowed. The models have all of this; `ReportIsSum` and
  `SharesFollowResults` are about clients whose last report met no other and had
  no failure (`spoiled`). A report whose bets were all rolled back keeps its old
  value, and one that sums up to zero is not distributed: the two say so in
  their conditions. After a rollback the client's shares are gone, also those of
  markets that stand, until something of the event is settled again
  (`cleared`); a *cancellation* after that distributes the report that was left.
* *Fancy selections*: a cancellation refunds each bet's lock, and a rollback
  takes back stake and winnings of each, so hedged books are neither cancelled
  nor rolled back in the run; a NO that locks more or less than its stake is
  paid its stake and winnings all the same, so unhedged bets lock their stake; a
  late bet that hedges a settled one is paid as if unrelated; a selection may be settled again for late bets with other runs.
  A settlement of some of a selection's bets deletes the rows of all clients who
  have bets on it, also of those whose bets stay open: `RowCoversOpenBets` says
  that rows are what they should be *until* a bet of the selection is settled,
  and no run settles a hedged book after that. What deletions and bulk
  cancellations do to rows is checked in `OpenBets` (`FancyRowCovers`), as
  they leave rows behind that no bet stands for.
  The exposure row decides what a hedged book is paid.
* *Bookmaker*: a lay locks `(odds - 1) * stake` and releases
  `odds * stake / 100`, so the run has backs; the stake of a won back is kept
  (`KeptStakes`); bookmaker settlements are not rolled back in the run, which
  takes back stake and profit.
* *Tied match*: cancellation leaves the liability (`LeftLocked`).
* *Rows read, changed and written back*: a stop requested while another request
  for the same list is about to be written may be lost; `StopHolds` is about
  stops nobody overlapped with. A delay only the deprecated key has is lost with
  the first request for another event. Bets that passed `Begin` before a stop
  are accepted.
* *Rates*: from ten up they are divided by ten or a hundred before they are
  compared and paid; the model has the conversion, its bets have rates below ten.
* *Hierarchy*: a user created while a switch runs is not reached by it; two
  overlapping distributions of one result both stay, as the table has no key
  that refuses the second.
* *Feed*: details of a market that was closed are kept for an hour (`Fresh`
  excepts them); a match whose visibility could not be read is shown
  (`HiddenIsUnlisted` excepts lists made then). Visibility is applied by the
  aggregator only: `GET /cricketid/events-by-sport`
  (`cricketid.controller.ts:284`) answers with the same feed unfiltered, so a
  hidden match *is* on that list, which `cricketid.service.ts:485` calls the
  data shown in the frontend list; the model has this endpoint (`ReadDirect`),
  and `HiddenIsUnlisted` is about the aggregator's list. A room does not keep its match
  registered, so `EventuallyShown` is stated of matches that stay registered.
* *Lists*: a history shows the bets of a cancelled fancy selection with 0 runs,
  as null is taken for a number; `DecisionRunShown` is about won and lost bets.
  If a correction cannot be written, the overview shows it all the
  same; `PaidByName` is about bets whose corrections were written. It is about
  match odds bets: a bookmaker bet that a failed settlement tagged as match odds
  is listed with them from then on, and "corrected" to the number of the match
  odds runner of the same name, which the bookmaker settlement does not know.

### Where documents say otherwise

The models follow the code. Besides what the two violated runs show:

* `SETTLEMENT_ENDPOINTS.md:190-191` has a backed fancy bet win if the decision
  run is *above* the line and a laid one if it is at or below. In the code runs
  *on* the line win the backed bet and lose the laid one (`FancyWins`, and
  `FancyBetPnl` which pays by it). The runs of `SettlementLists` and
  `SideMarkets` include runs on the line, so what they show is the code's rule:
  `DecisionRunShown` would be violated by bets decided as the document says.
* `SETTLEMENT_ENDPOINTS.md:188` gives a cancelled fancy bet its loss amount as
  P/L; the code writes 0.
* A comment in `prisma/schema.prisma` says exposure rows are not used for
  settlement; a hedged fancy book is paid by its row.

## Fairness

`OpenBets!HandlersRun`: a handler that has begun takes its next step if it can.
The event loop runs every continuation, and the database queues transactions
that wait for a row, so a step that waits for a row is taken if it becomes
possible again and again (strong fairness for `PricePlacement`,
`CommitPlacement`, `Recalculate`); a write to a row that is gone throws, so the
failure is fair then. No fairness for requests arriving, for failures
otherwise, for transfers or switches.

`MarketSettlement!Persistence` is an assumption about the administrator: a
market with open bets is asked to be settled again, and a step does not fail
each time it is tried. The code has no retry of its own.

`OddsFeed!FairSpec`: time passes and every step that was begun is taken (weak
fairness: timers and continuations); the cron job runs again and again, and a
poll that asks the vendor again and again is at some time answered and its
answer stored (strong fairness: a vendor that fails for ever shows nothing, and
nothing in the code could). No fairness for readers, for browsers joining or for
administrators.

## Proofs

TLAPS proves, for any clients, bets, books, runners, markets, filters,
transfers, events, users, administrators, caches and readers:

| Theorem | Property | Premise |
|---|---|---|
| `BookAndFeedProofs!TypeCorrect` | `TypeOK` | |
| `BookAndFeedProofs!LocksWhatCanBeLost` | `LockedIsWorstLoss` | |
| `BookAndFeedProofs!OffsetsReleaseAll` | `RisklessBookLocksNothing` | |
| `BookAndFeedProofs!DataFresh` | `Fresh` | |
| `BookAndFeedProofs!HiddenStaysUnlisted` | `HiddenIsUnlisted` (the aggregator's list) | |
| `BetAcceptanceProofs!StopsHold` | `StopHolds` | |
| `BetAcceptanceProofs!DelaysHold` | `DelayHolds` | |
| `BetAcceptanceProofs!PricesOffered` | `PriceWasOffered` (of steps) | |
| `OpenBetsProofs!TypeInvariant` | `TypeOK` | |
| `OpenBetsProofs!HeldByOne` | (who holds which rows and wallets) | |
| `OpenBetsProofs!JournalCorrect` | `JournalExplainsBalance` | nothing overlaps a placement |
| `OpenBetsProofs!LiabilityCorrect` | `LiabilityIsExposure` | only transfers overlap |
| `OpenBetsProofs!Conservation` | `FundsConserved` | only transfers overlap, `RemovalsRelease` |
| `OpenBetsProofs!Solvency` | `NoOverdraft` | nothing overlaps a transfer |
| `OpenBetsProofs!EscrowImplemented` | `ImplementsEscrow` | one at a time, `RemovalsRelease` |
| `OpenBetsProofs!CapHolds` | `WinningsCapped` | no removal overlaps a placement, `RemovalsRelease`, `RemovalsKeepLimit` |
| `OpenBetsProofs!RowsCover` | `FancyRowCovers` | the same |
| `MarketSettlementProofs!SettledCanBeRolledBack` | `SettledUnderLiveRecord` | `Apart`, `WholeRollbacks` |
| `MarketSettlementProofs!WinnerOnRecord` | `OneWinner` | the same |
| `MarketSettlementProofs!ReportsAddUp` | `ReportIsSum` | |
| `MarketSettlementProofs!SharesAddUp` | `SharesFollowResults` | |
| `MarketSettlementProofs!MoneyCorrect` | `MoneyMatchesResults` | `PlainSettlement`, `Disjoint` |
| `MarketSettlementProofs!LiabilityCorrect` | `LiabilityIsExposure` | the same |
| `SideMarketSettlementProofs!TypeCorrect` | `TypeOK` | |
| `SideMarketSettlementProofs!SettledCanBeRolledBack` | `Reversible` | |
| `SideMarketSettlementProofs!WinnerOnRecord` | `OneWinner` | |
| `SideMarketSettlementProofs!RowsCoverOpenBets` | `RowCoversOpenBets` | |
| `SideMarketSettlementProofs!MoneyCorrect` | `MoneyMatchesResults` | `PlainOffer` |
| `SideMarketSettlementProofs!LiabilityCorrect` | `LiabilityIsExposure` | `PlainOffer` |
| `SettlementListsProofs!TypeCorrect` | `TypeOK` | |
| `SettlementListsProofs!RunShownCorrect` | `DecisionRunShown` | |
| `SettlementListsProofs!EntriesOnce` | `OneEntryPerBet` | |
| `SettlementListsProofs!ShownIsSettled` | `ShownWhereSettled` | `Labelled` |
| `SettlementListsProofs!PaidByNameOnce` | `PaidByName` | `Labelled`, `NumbersTell`, one renumbering |
| `SettlementListsProofs!PaidByNameTimely` | `PaidByName` | `Labelled`, `NumbersTell`, `CorrectionsTimely` |
| `UserHierarchyProofs!TypeCorrect` | `TypeOK` | |
| `UserHierarchyProofs!SwitchesHold` | `SwitchHolds` | |
| `UserHierarchyProofs!BalancesExplained` | `LogExplainsBalance` | |
| `UserHierarchyProofs!OverdrawnByCrossing` | `OverdrawnOnlyCrossed` | |
| `UserHierarchyProofs!ResultsPassUp` | `ResultPassesUp` | |
| `UserHierarchyProofs!DistributionsOnce` | `DistributedOnce` | |

Where no premise is given a theorem rests only on the assumption its module
makes of its constants, which says what kind of thing each constant is (and, in
`HierarchyAssumption`, that the tree at the start could have been made).
`ExposureAssumption` is what `OpenBets` needs of the exposure services: nothing
locks nothing, and a bet changes the total by what it changes in its own book.
TLC evaluates the assumptions in every run of the module.

### The premises

They mark where the code relies on something it does not enforce; each is a
formula a theorem names.

* *What may overlap* on one wallet (`Overlap`). A placement writes balance and
  liability that it has read; a removal increments the balance and writes a
  liability it has computed; a transfer increments the balance, after a look at
  the payer's. Each property needs only some of them apart: the journal loses
  what a placement overwrites (`"place" \notin Overlap`), the liability what a
  placement or a removal overwrites (`Overlap \subseteq {"transfer"}`); an
  overdraft takes a transfer whose look is out of date
  (`"transfer" \notin Overlap`); a book's cap and its row need that no bet goes
  between a price and its commit (`~({"place", "admin"} \subseteq Overlap)`).
  The premises are sharp: with `"place"` in the `Overlap` of `OpenBets.cfg`, with
  `"admin"` and two jobs, with `"transfer"` and two withdrawals, or with
  `"place"` and `"admin"`, TLC finds the property violated. Only the refinement
  has a stronger one, `Overlap = {}`, because the escrow never overdraws.
* `RemovalsRelease`: what an administrator takes out hedges nothing that stays;
  `RemovalsKeepLimit`: nor does it raise what the rest of a book wins above the
  cap (neither `deleteBet` nor `cancelBetsBulk` looks at the cap). TLC evaluates
  both for the instance of `MCOpenBetsSerial`, and that its requests come one at
  a time, which satisfies every premise on `Overlap`.
* `Apart`: two requests that have still to commit are for different markets, in
  every state of a behaviour; `WholeRollbacks`: a rollback names no bets. A
  rollback of some bets marks the whole record, and a request that starts
  between another's record and commit can settle on another winner.
* `PlainSettlement`: a client's bets in a market are on one side of one runner,
  nothing is cancelled, and no bet of a client is placed while a payment to the
  client is open; `Disjoint`: no client has bets in two requests that have still
  to commit. `SettlementTwice` is the counterexample when `Disjoint` does not
  hold. `Settlement` runs under all of these premises, with a client who bets in
  two markets, a filter, partial settlements and failures.
* `PlainOffer(S)`: no client bets on both sides of a fancy selection, fancy and
  tied match bets lock their stakes, every fancy bet can be lost, and the other
  bets are backs; where settlements may be rolled back, bookmaker bets are
  absent and tied match bets of one client are in one market. TLC evaluates it
  for two of the four offers of `SideMarkets`; the two hedged ones are checked
  there and stay out of the theorems. Requests meet as the module lets them
  (`MayStart`): on different markets, and only where both increment wallets.
  Nothing is premised on how many do, how late bets come or where requests fail.
* `Labelled`: type, title, gtype and name of a bet agree on what it is. They are
  texts the browser copies from the vendor; each list and each settlement looks
  at others of them, so nothing in the code makes them agree. `NumbersTell`:
  bets are placed on runners of their market, an event has one match odds
  market, and a number is not given to another runner, nor back to the one that
  had it before. TLC evaluates both for the instance of `MCSettlementLists`.
* `CorrectionsTimely`: no correction of a match odds bet is still to be written
  when the vendor renumbers. With one renumbering at most (`MaxNumbering <= 1`)
  it is no premise but part of the proof: nothing is due before it.

### The arguments

Nearly none of the properties is inductive: each commit writes what was computed
from an earlier reading. What the inductive invariants add is what a request in
flight knows, and why it is still so.

*Sums* (`MoneyTheorems`). A sum over a set is defined by recursion, and the
theorems on induction over finite sets are out of the provers' reach because
they take an operator. `FiniteInduction` puts a set of sets in its place: the
finite subsets of `S` that are not in `P` would have one that is minimal in the
strict subset order, which is well-founded. From it follow how a sum changes
with one element, with one value and over a partition, and that a finite set of
integers has a greatest element.

*Exposure* (`MoneyTheorems`, `BookAndFeedProofs`). The deltas telescope:
`BookInv` says that what was charged is the exposure of the book there is,
whatever the order of bets. What the exposure is worth is a fact about each
formula: for match odds the worst of the candidate winners, for fancy that the
result changes only at lines, so that a candidate outcome stands for every
number of runs between two lines.

*Settings and prices* (`BetAcceptanceProofs`). A row about to be written could
undo what was confirmed. `Carried` is the strengthening:

* what is confirmed is in the list *and* in every list a request is about to
  write (`StopsCarried`); a request that confirms a stop met no other writer
  of the list, so no older copy is under way;
* the same for delays and both of their writes (`DelaysCarried`), where a
  request that is still alone is the only one (`AloneIsOnly`) and finds the
  canonical row as it wrote it (`HalfWritten`);
* a placement that was not refused at once was not held (`NoneHeld`).

`PriceInv` follows the age of a price: what is left of an answer's flight, of a
snapshot's time and of a sleep, added to the time since the vendor offered the
price, stays within a bound that the next step hands on (`Timely`,
`SnapshotTimely`).

*Feed* (`BookAndFeedProofs`). An age alone is not inductive: what is in a cache
or under way gets older. `FeedInv` bounds the sum of the age of a version and
the time its carrier still has, which a tick leaves as it is: the flight of an
answer (`AgeOK`), what is left of an entry in Redis (`InnerOK`) and in the outer
cache (`OuterOK`, whose bound is larger by what `Stale` says an inner entry may
have aged). `KindOK` keeps placements away from the caches. An answer that passes the caches by (`live`, `direct`) has a bound of its own.
For `Fresh` it does not matter which task stores last, since each brings its own sum. For hidden
matches the sum is of the time since the decision and the time a list that still
has the match is kept (`OuterOK`); a list made later is made from the row, which
stays hidden because creating rows leaves it alone (`VisibilityOK`). That tasks
which have their data are done before time passes is what the model says of
them (`Waits`): only sleeping and waiting for the vendor take ticks.

*Placement and removal* (`OpenBetsProofs`). `Base` holds whatever overlaps: two
operations that may not overlap are not in flight on one wallet (`Excluded`,
because every first step asks `MayStart`), the row of a match is held by one
placement and bets by one removal (`MatchesHeld`, `BetsHeld`), and bets under way
have no row yet. On it stands one invariant per property, each with only what
it needs to know of the requests in flight:

* `JournalInv`: the balance a placement has read is the wallet's (`BalanceRead`);
* `LiabilityInv`: the liability a placement has read (`LiabilityRead`) and the
  one a removal has computed (`LiabilityComputed`) are those of the open bets;
* `ReleaseInv` adds that what a removal gives back is what the rest no longer
  locks (`ReleaseOf`), so that the clamp of the refund at zero never bites; with
  it `JournalIsLiability`, and with the journal follows conservation;
* `SolvencyInv`: a placement takes no more than it has read (`Affordable`), and
  the payer of a transfer still has the amount that was looked at
  (`PayerCovered`). It says neither that the balance read is current nor anything of
  liabilities, which is why placements may spoil them;
* `BooksInv`: the price of a placement is about its book as it still is
  (`PriceOf`; other placements of the match wait for its row), and what a removal
  will take out of a book is of the kind the premises speak of, though other
  removals take out more meanwhile (`RemovedFrom`).

The refinement combines the first four: each commit is a `Hold`, `Release`,
`Fund` or `Withdraw`, and every other step stutters.

*Match odds settlement* (`MarketSettlementProofs`). `RecordInv`: a settlement
under way has open bets of a market in which nothing else is settled, and stands
under the record it wrote; a rollback has all that is settled (`RequestInv`).
`ReportInv` follows the reports of a client that are under way: unless the client
is spoiled at most one request is `Reporting`, and `StageInv` says, stage by
stage, what its sum, the report and the ledger are worth by then; with none they
are `Right`. A second report that starts makes the client spoiled, and only one
that starts when no other is left ends that, for which it reads the bets anew:
this is why neither theorem has a premise on what overlaps. `MoneyInv`: each settled bet moved what a rollback
takes back (`BetInv`), balance and liability are the sums over the client's bets
(`ClientInv`), and a request that is open read the wallets as they are
(`WalletInv`).

*The other markets* (`SideMarketSettlementProofs`). `ControlInv`: what a request
has established when it is where it is (`Sound`), that requests under way are
for different markets (`Alone`, because `MayStart` is asked first), that a
settled bet is tagged and its record live, and that as long as no bet of a
selection was settled a client's row is the exposure of its open bets on it
(`RowInv`; the property asks only that it covers them, as `FancyRowCovers`
does). `MoneyInv` gives each bet by kind and
status what it has paid and what it holds (`Paid`, `Held`); balance and
liability are the sums. The kinds differ in formulas and in how they write, so
`Knows` says of the transactions that overwrite wallets what they have read, and
`OverwritesAlone` that no other request is under way then: the ones that
increment need no such knowledge.

*Lists* (`SettlementListsProofs`). `ControlInv`: an id a bet carries was left by
a settlement that finds it for what never changes about it (`Suits`), so that a
fancy id is never taken off a bet; requests under way have open bets of
different markets (`RequestInv`, `Alone`); won and lost fancy bets have the runs
that decided them (`RunsKept`); and the page a history has read still has a bet
under each of its fancy ids (`HistoryInv`), which is why bets that are put under
the first record of their market are never shown with that of a fancy market. `PaymentInv`: a selection
is a number its runner has had, and not an older one than what an overview read
before (`NotLater`); therefore a bet whose number the vendor still has, when
the overview asks, has that very number also at the time, whatever others
corrected in between, and keeps it until the next renumbering (`ListInv`).

*Hierarchy* (`UserHierarchyProofs`). `TreeInv`: everybody stands below somebody
present who may create them, also those about to be inserted, so that the way up
ends. `MoneyInv`: balances are what the log says, and a transfer under way is
covered unless it was crossed. `SwitchesInv`: who is `due` to a cascade is
already collected, or stands below the level to be read next. `RowsInv`: what
a distribution has written so far is the total it carries, and rows it does not
find belong to one that was under way at the same time (`Known`, `Parted`).

### Only model-checked

* Liveness (`RequestsEnd`, `UnpaidIsPaid`, `EventuallyShown`): out of reach of
  the prover, as ENABLED is.
* The money of hedged fancy books, of settlements that cancel, and what happens
  when the premises above do not hold.


## Not modelled

Left out of modelled parts:

* *settlement*: the `Transaction` rows it writes, titles, names, totals and
  refund marks on lists, day bounds of histories, how a tie is told from the
  vendor's runners (cancelling for it is a choice of the request), lists per
  user and the decision runs they show;
* *hierarchy*: logins and passwords, changes of role, lists of subordinates and
  their reports, the dashboard summary;
* *feed*: series and top matches (fetched past the caches of the aggregator, and
  without visibility), the legacy list of markets, scores, the list of
  sports and the match list by competition; `refreshMatchCache`, which nothing
  calls; the content of odds (`getOddsAndFancy` expects an object where
  `getBetfairOdds` answers an array, so its odds are always null);
* *placement*: the positions computed for its answer.

Left out as a whole: statements and reports of agents, site content, complaints
and uploads (queries and single writes), tokens and guards (no state that the
properties concern), the queue of bets (nothing puts a job into it), background
helpers. `PROJECT.json` lists them with reasons.
