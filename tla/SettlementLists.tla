--------------------------- MODULE SettlementLists ---------------------------
(***************************************************************************)
(* What administrators see of the bets they settle, and what settlement    *)
(* makes of the same bets: the overviews and lists of open bets and the    *)
(* histories of src/src/settlement/settlement.service.ts.                  *)
(*                                                                         *)
(* Lists and settlements each find out for themselves what kind of market  *)
(* a bet belongs to, from its settlement id, the texts the client sent     *)
(* with it and its selection.  A text is the set of the words the code     *)
(* looks for in it.  An overview compares the selections of match odds     *)
(* bets with those the vendor names now, and writes what it corrects to    *)
(* the bets: between its reading and its writing, bets are placed, the     *)
(* vendor renumbers its runners, and other administrators settle.          *)
(***************************************************************************)
EXTENDS Integers, FiniteSets

CONSTANTS
  Offers,           \* sets of bets, one of which the clients will place
  Admins,
  MarketNamed,      \* the vendor's name of each market id
  NumberOf,         \* selection id of a market's runner, per numbering
  MaxNumbering,     \* how often the vendor renumbers its runners
  Runs,             \* decision runs an administrator may give
  MaxSettlements    \* how many settlements are asked for

Bets == UNION Offers
Markets == DOMAIN MarketNamed
Numberings == 0..MaxNumbering
Names == {"home", "away", "tie", "yes", "no", "runs"}
Kinds == {"FANCY", "MATCHODDS", "BOOKMAKER", "TIED_MATCH"}
None == -1          \* no number, no runs
Void == -2          \* the settlement cancels the bets, and leaves null for their runs
Outcomes == Runs \union {None, Void}

ASSUME ListsAssumption ==
  /\ \A b \in Bets :
       /\ b.gtype \in {"matchodds", "bookmaker", "fancy"}
       /\ b.side \in {"BACK", "LAY"} /\ b.name \in Names /\ b.market \in Markets
       /\ b.type \subseteq {"FANCY", "MATCH", "ODD", "BOOK"}
       /\ b.title \subseteq {"FANCY", "MATCH", "ODD", "BOOK", "tied match", "tied_match",
                             "match odds including tie", "completed match"}
       /\ b.line \in Nat
  /\ NumberOf \in [Markets -> [Names -> [Numberings -> Nat]]]
  /\ MaxNumbering \in Nat /\ MaxSettlements \in Nat /\ Runs \subseteq Nat

VARIABLES
  offer,
  status, selection, prefix, paidRuns,  \* columns of Bet: prefix of settlementId ("legacy" as
                                        \* placed), paidRuns is metadata.decisionRun,
                                        \* None while it has no such key
  numbering,         \* how the vendor numbers its runners now
  expired,           \* expiredEventIdsCache has the event
  record,            \* Settlement per kind and market
  task,              \* the administrators' requests
  settlements,       \* settlements asked for so far
  basis              \* history: what the settlement of a bet was decided on

betVars == <<status, selection, prefix, paidRuns>>
vars == <<offer, status, selection, prefix, paidRuns, numbering, expired, record, task, settlements, basis>>

Settled == {"WON", "LOST", "CANCELLED"}
Open == {b \in offer : status[b] = "PENDING"}
Runners(m) == {n \in Names : \E k \in Numberings : NumberOf[m][n][k] # 0}
IdsOf(m, k) == {NumberOf[m][n][k] : n \in Runners(m)}

-----------------------------------------------------------------------------
(* The kind of a bet, as the lists see it. *)

IsFancy(b) == prefix[b] = "FANCY" \/ "FANCY" \in b.type \/ b.gtype = "fancy"

\* Tied match and the two kinds of match odds share a settlement id.
OddsSection(b) ==
  IF b.name \in {"yes", "no"} \/ "tied match" \in b.title THEN "tiedMatch"
  ELSE IF "match odds including tie" \in b.title THEN "matchOddsIncludingTie"
  ELSE IF "completed match" \in b.title THEN "none"
  ELSE "matchOdds"

MatchOddsWords(text) == {"MATCH", "ODD"} \subseteq text

\* The section of getPendingBetsByMatch: by settlement id, then by the market's
\* type and name, then by gtype.
Section(b) ==
  CASE prefix[b] = "FANCY" -> "fancy"
    [] prefix[b] = "MATCHODDS" -> OddsSection(b)
    [] prefix[b] = "BOOKMAKER" -> "bookmaker"
    [] prefix[b] \in {"legacy", "TIED_MATCH"} ->
         IF "FANCY" \in b.type \union b.title THEN "fancy"
         ELSE IF MatchOddsWords(b.type) \/ MatchOddsWords(b.title) THEN OddsSection(b)
         ELSE IF "BOOK" \in b.type \union b.title THEN "bookmaker"
         ELSE IF b.gtype = "matchodds" THEN OddsSection(b)
         ELSE b.gtype

\* getPendingMarketOddsAndBookmaker excludes fancy bets first.
SectionWithoutFancy(b) == IF IsFancy(b) THEN "none" ELSE Section(b)

\* getPendingFancyMarkets
OnFancyList(b) == IsFancy(b)

\* getPendingBookmakerMarkets: no match odds, and a small selection id will do
\* for a bet with the id it was placed with.
OnBookmakerList(b) ==
  /\ ~IsFancy(b) /\ prefix[b] # "MATCHODDS" /\ ~MatchOddsWords(b.type) /\ b.gtype # "matchodds"
  /\ \/ prefix[b] = "BOOKMAKER" \/ "BOOK" \in b.type \/ b.gtype = "bookmaker"
     \/ prefix[b] = "legacy" /\ b.name # "runs" /\ selection[b] < 100

TiedSelections == {1, 2, 37302, 37303}
TiedName(b) == b.title \intersect {"tied match", "tied_match"} # {}

\* getPendingBetsByMarketType
OnTypeList(b, type) ==
  CASE type = "fancy" -> prefix[b] = "FANCY"
    [] type = "bookmaker" -> prefix[b] = "BOOKMAKER"
    [] type = "match-odds" ->
         /\ prefix[b] \in {"MATCHODDS", "legacy"}
         /\ b.name \notin {"yes", "no", "tie"} /\ ~TiedName(b)
         /\ "match odds including tie" \notin b.title
    [] type = "tied-match" ->
         b.name \in {"yes", "no"} /\ (selection[b] \in TiedSelections \/ TiedName(b))

(* The open bets a settlement of a kind finds in a market, asked for them. *)

FoundByFancy(b) == prefix[b] = "FANCY" \/ b.gtype = "fancy" \/ "FANCY" \in b.type

FoundByMatchOdds(b) == ~IsFancy(b)

\* Mutant: what only carries the words of a bookmaker is found as well.
FoundByBookmakerWords(b) == "BOOK" \in b.type \union b.title

FoundByBookmaker(b) ==
  /\ b.gtype = "bookmaker"
  /\ "FANCY" \notin b.type /\ prefix[b] \notin {"FANCY", "MATCHODDS"}

FoundByTied(b) ==
  /\ prefix[b] # "FANCY" /\ b.gtype # "fancy"
  /\ \/ prefix[b] = "TIED_MATCH"
     \/ selection[b] \in {1, 2}
     \/ b.name \in {"yes", "no"} /\ (selection[b] \in TiedSelections \/ TiedName(b))

Finds(kind, b) ==
  CASE kind = "FANCY" -> FoundByFancy(b)
    [] kind = "MATCHODDS" -> FoundByMatchOdds(b)
    [] kind = "BOOKMAKER" -> FoundByBookmaker(b)
    [] kind = "TIED_MATCH" -> FoundByTied(b)

\* How an administrator settles what a section shows.
KindFor == [fancy |-> "FANCY", matchOdds |-> "MATCHODDS", matchOddsIncludingTie |-> "MATCHODDS",
            bookmaker |-> "BOOKMAKER", tiedMatch |-> "TIED_MATCH"]

-----------------------------------------------------------------------------
Idle ==
  [pc |-> "idle", bets |-> {}, section |-> [b \in offer |-> "none"], seen |-> [b \in offer |-> None],
   hidden |-> {}, due |-> {}, lost |-> {}, numbering |-> None, sound |-> {},
   kind |-> "none", market |-> "none", winner |-> "none", numbers |-> {}, outcome |-> None,
   entries |-> {}, records |-> {}]

Unsound == [sound |-> FALSE, winner |-> "none"]

Init ==
  /\ offer \in Offers
  /\ status = [b \in offer |-> "none"]
  /\ selection = [b \in offer |-> None]
  /\ prefix = [b \in offer |-> "legacy"]
  /\ paidRuns = [b \in offer |-> None]
  /\ numbering = 0
  /\ expired = FALSE
  /\ record = [s \in Kinds \X Markets |-> [state |-> "none", runs |-> None]]
  /\ task = [a \in Admins |-> Idle]
  /\ settlements = 0
  /\ basis = [b \in offer |-> Unsound]

\* The browser sends the selection id the vendor uses at the moment.
Place(b) ==
  /\ status[b] = "none"
  /\ status' = [status EXCEPT ![b] = "PENDING"]
  /\ selection' = [selection EXCEPT ![b] = NumberOf[b.market][b.name][numbering]]
  /\ UNCHANGED <<offer, prefix, paidRuns, numbering, expired, record, task, settlements, basis>>

\* The vendor re-seeds its runners.
Renumber ==
  /\ numbering < MaxNumbering
  /\ numbering' = numbering + 1
  /\ UNCHANGED <<offer, betVars, expired, record, task, settlements, basis>>

\* An hour after it was marked, the event is asked for again.
Forget ==
  /\ expired
  /\ expired' = FALSE
  /\ UNCHANGED <<offer, betVars, numbering, record, task, settlements, basis>>

Step(a, t) ==
  /\ task' = [task EXCEPT ![a] = t]
  /\ UNCHANGED <<offer, betVars, numbering, record, settlements, basis>>

-----------------------------------------------------------------------------
(* An overview: the bets, the vendor's runners, the corrections. *)

ReadOverview(a, section) ==
  /\ task[a].pc = "idle" /\ Open # {}
  /\ Step(a, [Idle EXCEPT !.pc = "read", !.bets = {b \in Open : section[b] # "none"}, !.seen = selection,
                          !.section = [b \in offer |-> IF b \in Open THEN section[b] ELSE "none"]])
  /\ UNCHANGED expired

InSection(t, s) == {b \in t.bets : t.section[b] = s}
VendorMarket(name) == {m \in Markets : MarketNamed[m] = name}
VendorIds(name) == UNION {IdsOf(m, numbering) : m \in VendorMarket(name)}
VendorNames(name) == UNION {Runners(m) : m \in VendorMarket(name)}

\* Match odds bets whose selection the vendor does not have, but whose name.
ToCorrect(t) ==
  {b \in InSection(t, "matchOdds") : t.seen[b] \notin VendorIds("match odds") /\ b.name \in VendorNames("match odds")}

\* Bets of the other two kinds are left out of the overview in that case.
ToHide(t) ==
  {b \in InSection(t, "matchOddsIncludingTie") : t.seen[b] \notin VendorIds("match odds including tie")}
    \union {b \in InSection(t, "tiedMatch") : t.seen[b] \notin VendorIds("tied match")}

NeedsVendor(t) == \E s \in {"matchOdds", "matchOddsIncludingTie", "tiedMatch"} : InSection(t, s) # {}

\* The overview shows the bets as they are: the vendor is not asked, or does not
\* answer, or refuses the event, which is remembered.
ListUnchecked(a) ==
  /\ task[a].pc = "read"
  /\ Step(a, [task[a] EXCEPT !.pc = "listed"])
  /\ expired' \in IF NeedsVendor(task[a]) THEN {expired, TRUE} ELSE {expired}

ListChecked(a) ==
  LET t == task[a] IN
  /\ t.pc = "read" /\ NeedsVendor(t) /\ ~expired
  /\ Step(a, [t EXCEPT !.pc = "listed", !.numbering = numbering, !.due = ToCorrect(t), !.hidden = ToHide(t)])
  /\ UNCHANGED expired

\* Mutant: the overview shows the correction and does not write it.
SelectionAsSeen(t, b) == t.seen[b]

CorrectSelection(t, b) ==
  LET m == CHOOSE m \in VendorMarket("match odds") : TRUE IN NumberOf[m][b.name][t.numbering]

\* Bet.selectionId is updated, whatever has become of the bet;
Correct(a, b) ==
  /\ b \in task[a].due
  /\ selection' = [selection EXCEPT ![b] = CorrectSelection(task[a], b)]
  /\ task' = [task EXCEPT ![a].due = @ \ {b}]
  /\ UNCHANGED <<offer, status, prefix, paidRuns, numbering, expired, record, settlements, basis>>

\* if that fails, the overview shows the corrected selection all the same.
CorrectionFails(a, b) ==
  /\ b \in task[a].due
  /\ Step(a, [task[a] EXCEPT !.due = @ \ {b}, !.lost = @ \union {b}])
  /\ UNCHANGED expired

Listed(t) == t.pc = "listed" /\ t.due = {}
Visible(t) == t.bets \ t.hidden

Close(a) ==
  /\ Listed(task[a]) \/ task[a].pc = "history"
  /\ Step(a, Idle)
  /\ UNCHANGED expired

-----------------------------------------------------------------------------
(* A settlement from what the overview shows. *)

FoundIn(kind, m) == {b \in Open : b.market = m /\ Finds(kind, b)}
SettledUnder(s) == {b \in offer : status[b] \in Settled /\ prefix[b] = s[1] /\ b.market = s[2]}

\* The winner is picked by its name, and sent as the number shown with it: the
\* vendor's, or that of a bet.
NumberShown(t, m, name) ==
  IF t.numbering # None THEN {NumberOf[m][name][t.numbering]}
  ELSE {t.seen[b] : b \in {c \in Visible(t) : c.market = m /\ c.name = name}}

\* Of the bets found, those are `sound` that the list shows with the numbers the
\* vendor still uses, with nothing left to be written.
Ask(a, kind, m, name) ==
  LET t == task[a]
      found == FoundIn(kind, m)
  IN
  /\ Listed(t) /\ settlements < MaxSettlements
  /\ found # {}
  /\ \A c \in Admins : task[c].market # m
  /\ kind = "FANCY" \/ NumberShown(t, m, name) # {}
  /\ task' = [task EXCEPT ![a] =
       [Idle EXCEPT !.pc = "asked", !.bets = found, !.seen = selection, !.kind = kind, !.market = m,
                    !.winner = name,
                    !.numbers = NumberShown(t, m, name),
                    !.sound = IF t.numbering = numbering
                              THEN (InSection(t, "matchOdds") \ t.lost) \intersect found ELSE {}]]
  /\ settlements' = settlements + 1
  /\ UNCHANGED <<offer, betVars, numbering, expired, record, basis>>

\* settleMarketManual asks the vendor for the runners of match odds, or takes
\* those of the bets it found; to cancel, any winner will do.
WinnerValid(t, answered, outcome) ==
  \/ t.kind # "MATCHODDS" \/ outcome = Void
  \/ t.numbers \subseteq IF answered THEN VendorIds("match odds") ELSE {t.seen[b] : b \in t.bets}

\* Fancy bets are decided on runs, the others on the winner that was picked; all
\* but bookmaker bets can be cancelled instead, match odds also by a draw that
\* has no runner.
OutcomesOf(kind) ==
  CASE kind = "FANCY" -> Runs \union {Void}
    [] kind = "BOOKMAKER" -> {None}
    [] OTHER -> {None, Void}

\* The bets then get the settlement id of this kind and market,
Validate(a, answered, outcome) ==
  LET t == task[a] IN
  /\ t.pc = "asked" /\ outcome \in OutcomesOf(t.kind)
  /\ answered => ~expired
  /\ WinnerValid(t, answered, outcome)
  /\ t.kind = "FANCY" \/ record[<<t.kind, t.market>>].state # "live" \/ SettledUnder(<<t.kind, t.market>>) = {}
  /\ prefix' = [b \in offer |-> IF b \in t.bets THEN t.kind ELSE prefix[b]]
  /\ task' = [task EXCEPT ![a].pc = "tagged", ![a].outcome = outcome]
  /\ expired' \in IF answered \/ t.kind # "MATCHODDS" THEN {expired} ELSE {expired, TRUE}
  /\ UNCHANGED <<offer, status, selection, paidRuns, numbering, record, settlements, basis>>

\* the record is written,
Record(a) ==
  LET t == task[a] IN
  /\ t.pc = "tagged"
  /\ record' = [record EXCEPT ![<<t.kind, t.market>>] =
       [state |-> "live", runs |-> IF t.outcome \in Runs THEN t.outcome ELSE None]]
  /\ task' = [task EXCEPT ![a].pc = "recorded"]
  /\ UNCHANGED <<offer, betVars, numbering, expired, settlements, basis>>

\* Tied match bets win by their name, the others by the selection read.
Wins(t, b) ==
  LET backed == IF t.kind = "TIED_MATCH" THEN b.name = t.winner ELSE t.seen[b] \in t.numbers
  IN  backed = (b.side = "BACK")

\* Mutant: the decision run is kept in the settlement's record only.
RunsOnRecord(outcome) == None

\* metadata.decisionRun of a fancy bet.
DecisionRun(outcome) == outcome

\* As the code has it: backed bets win from the line on.  According to
\* SETTLEMENT_ENDPOINTS.md:190-191 they win above the line only, and bets laid
\* win on the line.
FancyWins(b, runs) == (runs >= b.line) = (b.side = "BACK")

\* and the bets are paid.
Commit(a) ==
  LET t == task[a]
      won(b) == IF t.kind = "FANCY" THEN FancyWins(b, t.outcome) ELSE Wins(t, b)
      result(b) == IF t.outcome = Void THEN "CANCELLED" ELSE IF won(b) THEN "WON" ELSE "LOST"
  IN
  /\ t.pc = "recorded"
  /\ status' = [b \in offer |-> IF b \in t.bets THEN result(b) ELSE status[b]]
  /\ paidRuns' = [b \in offer |-> IF b \in t.bets /\ t.kind = "FANCY" THEN DecisionRun(t.outcome)
                                  ELSE paidRuns[b]]
  /\ basis' = [b \in offer |-> IF b \notin t.bets THEN basis[b]
                               ELSE IF b \in t.sound /\ t.outcome # Void THEN [sound |-> TRUE, winner |-> t.winner]
                               ELSE Unsound]
  /\ task' = [task EXCEPT ![a] = Idle]
  /\ UNCHANGED <<offer, selection, prefix, numbering, expired, record, settlements>>

\* Refused, failed, or cut off: ids and record stay as they are.
Fail(a) ==
  /\ task[a].pc \in {"asked", "tagged", "recorded"}
  /\ Step(a, Idle)
  /\ UNCHANGED expired

\* rollbackSettlement: the bets keep settlement id and metadata.
Rollback(s) ==
  /\ record[s].state = "live"
  /\ \A a \in Admins : task[a].market # s[2]
  /\ status' = [b \in offer |-> IF b \in SettledUnder(s) THEN "PENDING" ELSE status[b]]
  /\ basis' = [b \in offer |-> IF b \in SettledUnder(s) THEN Unsound ELSE basis[b]]
  /\ record' = [record EXCEPT ![s].state = "rolled back"]
  /\ UNCHANGED <<offer, selection, prefix, paidRuns, numbering, expired, task, settlements>>

-----------------------------------------------------------------------------
(* A history: the page of records, then the bets under their ids. *)

Under(s) == {b \in offer : status[b] # "none" /\ prefix[b] = s[1] /\ b.market = s[2]}

\* Records whose bets are gone or carry another id now are left out.
ReadPage(a) ==
  LET page == {s \in Kinds \X Markets : record[s].state # "none" /\ Under(s) # {}} IN
  /\ task[a].pc = "idle" /\ page # {}
  /\ Step(a, [Idle EXCEPT !.pc = "page", !.records = {<<s, record[s]>> : s \in page}])
  /\ UNCHANGED expired

\* The decision run of the bet comes first, where null counts as no runs scored,
\* then that of the record.
RunShown(b, r) ==
  CASE r[1][1] # "FANCY" -> None
    [] r[1][1] = "FANCY" /\ paidRuns[b] \in Runs -> paidRuns[b]
    [] r[1][1] = "FANCY" /\ paidRuns[b] = Void -> 0
    [] OTHER -> r[2].runs

Entry(b, r) == [bet |-> b, id |-> r[1], status |-> status[b], runs |-> RunShown(b, r)]

\* Settled bets are put under the first record of their market,
ByMarket(records) ==
  LET matching(b) == {r \in records : r[1][2] = b.market} IN
  {Entry(b, CHOOSE r \in matching(b) : TRUE) : b \in {c \in offer : status[c] \in Settled /\ matching(c) # {}}}

\* if no bet has the id of any record on the page any more.
ById(records) == UNION {{Entry(b, r) : b \in Under(r[1])} : r \in records}

\* Mutant: they are always put there.
AllEntries(records) == ById(records) \union ByMarket(records)

EntriesOf(records) == IF ById(records) # {} THEN ById(records) ELSE ByMarket(records)

ReadEntries(a) ==
  /\ task[a].pc = "page"
  /\ Step(a, [task[a] EXCEPT !.pc = "history", !.records = {}, !.entries = EntriesOf(task[a].records)])
  /\ UNCHANGED expired

-----------------------------------------------------------------------------
Next ==
  \/ \E b \in offer : Place(b)
  \/ Renumber \/ Forget
  \/ \E a \in Admins :
       \/ ReadOverview(a, [b \in offer |-> Section(b)])
       \/ ReadOverview(a, [b \in offer |-> SectionWithoutFancy(b)])
       \/ ListUnchecked(a) \/ ListChecked(a) \/ Close(a)
       \/ \E b \in offer : Correct(a, b) \/ CorrectionFails(a, b)
       \/ \E kind \in Kinds, m \in Markets : \E name \in Runners(m) : Ask(a, kind, m, name)
       \/ \E answered \in BOOLEAN, outcome \in Outcomes : Validate(a, answered, outcome)
       \/ Record(a) \/ Commit(a) \/ Fail(a) \/ ReadPage(a) \/ ReadEntries(a)
  \/ \E s \in Kinds \X Markets : Rollback(s)

Spec == Init /\ [][Next]_vars

\* Bets whose type, title and name agree on what they are, as those of the
\* vendors do.
Labelled ==
  \A b \in Bets :
    /\ b.gtype = "fancy" \/ "FANCY" \in b.title => "FANCY" \in b.type
    /\ "FANCY" \in b.type => b.name \notin {"yes", "no"}
    /\ b.name \in {"yes", "no"} => TiedName(b)
    /\ "tied match" \in b.title => b.name \in {"yes", "no"}
    /\ "BOOK" \in b.type \union b.title /\ ~MatchOddsWords(b.type) /\ ~MatchOddsWords(b.title)
         => b.gtype # "matchodds"

\* Bets are placed on runners of their market, the event has one match odds
\* market, and the vendor never gives a number of one of its runners to another,
\* nor back to the one that had it before.
NumbersTell ==
  /\ \A b \in Bets : b.name \in Runners(b.market)
  /\ \A m, n \in Markets : MarketNamed[m] = "match odds" /\ MarketNamed[n] = "match odds" => m = n
  /\ \A m \in Markets : MarketNamed[m] = "match odds" =>
       \A n, o \in Runners(m) : \A j, k \in Numberings :
         NumberOf[m][n][j] = NumberOf[m][o][k] =>
           n = o /\ \A i \in Numberings : j <= i /\ i <= k => NumberOf[m][n][i] = NumberOf[m][n][k]

\* Corrections of match odds bets are written, or fail, before the vendor
\* renumbers its runners again.
CorrectionsTimely ==
  \A a \in Admins : \A b \in task[a].due : MarketNamed[b.market] = "match odds" => task[a].numbering = numbering

-----------------------------------------------------------------------------
\* The shape of the state.
TypeOK ==
  /\ offer \in Offers
  /\ status \in [offer -> {"none", "PENDING"} \union Settled]
  /\ selection \in [offer -> Nat \union {None}]
  /\ prefix \in [offer -> Kinds \union {"legacy"}]
  /\ paidRuns \in [offer -> Outcomes]
  /\ numbering \in Numberings /\ expired \in BOOLEAN /\ settlements \in 0..MaxSettlements
  /\ record \in [Kinds \X Markets -> [state : {"none", "live", "rolled back"}, runs : Runs \union {None}]]
  /\ \A a \in Admins :
       /\ task[a].pc \in {"idle", "read", "listed", "asked", "tagged", "recorded", "page", "history"}
       /\ task[a].outcome \in Outcomes
       /\ task[a].due \union task[a].hidden \union task[a].sound \subseteq task[a].bets

\* Whatever settlements of whatever kinds were tried, failed or rolled back
\* before, and left their settlement id behind: the kind of settlement that
\* belongs to the section an overview puts an open bet in finds the bet, as do
\* those of the fancy list, the bookmaker list and the list of tied match bets.
ShownWhereSettled ==
  \A b \in Open :
    /\ \A s \in {Section(b), SectionWithoutFancy(b)} : s # "none" => Finds(KindFor[s], b)
    /\ OnFancyList(b) => FoundByFancy(b)
    /\ OnBookmakerList(b) => FoundByBookmaker(b)
    /\ OnTypeList(b, "tied-match") => FoundByTied(b)

\* A match odds bet is paid by the runner it was placed on, however the vendor
\* renumbers its runners, if it is settled from an overview that the vendor's
\* present numbers were checked against, had its corrections written, and shows
\* the bet.
PaidByName ==
  \A b \in offer :
    basis[b].sound /\ MarketNamed[b.market] = "match odds" =>
      (status[b] = "WON") = ((b.name = basis[b].winner) = (b.side = "BACK"))

Histories == {task[a].entries : a \in {c \in Admins : task[c].pc = "history"}}

\* The decision run that a history shows with a won or lost fancy bet is one that
\* decides the bet that way, though the selection may have been settled again
\* with other runs for bets that came later, or cancelled for some.  How runs on
\* the line decide it is what FancyWins says, not SETTLEMENT_ENDPOINTS.md.
DecisionRunShown ==
  \A h \in Histories : \A e \in h :
    e.id[1] = "FANCY" /\ e.status \in {"WON", "LOST"} => FancyWins(e.bet, e.runs) = (e.status = "WON")

\* No bet is counted in the statistics of two records, also if its settlement id
\* changes while the history is read.
OneEntryPerBet ==
  \A h \in Histories : \A e, f \in h : e.bet = f.bet => e = f
=============================================================================
