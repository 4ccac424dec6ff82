------------------------ MODULE SettlementListsProofs ------------------------
(***************************************************************************)
(* Lists and settlements of the same bets agree, for any bets, markets,    *)
(* texts, numbers of the vendor, administrators and settlements; for       *)
(* lists that are to show what is settled, the texts have to agree         *)
(* (Labelled), and for payment by name the numbers tell runners apart      *)
(* (NumbersTell).                                                          *)
(***************************************************************************)
EXTENDS SettlementLists, TLAPS

Statuses == {"none", "PENDING"} \union Settled
Sections == {"none", "fancy", "matchOdds", "matchOddsIncludingTie", "tiedMatch", "bookmaker"}
Rows == [state : {"none", "live", "rolled back"}, runs : Runs \union {None}]
Ids == Kinds \X Markets
Entries == [bet : offer, id : Ids, status : Statuses, runs : Nat \union {None}]

Requests ==
  [pc : {"idle", "read", "listed", "asked", "tagged", "recorded", "page", "history"},
   bets : SUBSET offer, section : [offer -> Sections], seen : [offer -> Nat \union {None}],
   hidden : SUBSET offer, due : SUBSET offer, lost : SUBSET offer,
   numbering : Numberings \union {None}, sound : SUBSET offer,
   kind : Kinds \union {"none"}, market : Markets \union {"none"}, winner : Names \union {"none"},
   numbers : SUBSET (Nat \union {None}), outcome : Outcomes,
   entries : SUBSET Entries, records : SUBSET (Ids \X Rows)]

Fitting(t) ==
  /\ t.due \union t.hidden \union t.sound \subseteq t.bets
  /\ t.due # {} => t.numbering \in Numberings /\ VendorMarket("match odds") # {}

TypeInv ==
  /\ offer \in Offers
  /\ status \in [offer -> Statuses]
  /\ selection \in [offer -> Nat \union {None}]
  /\ prefix \in [offer -> Kinds \union {"legacy"}]
  /\ paidRuns \in [offer -> Outcomes]
  /\ numbering \in Numberings /\ expired \in BOOLEAN /\ settlements \in 0..MaxSettlements
  /\ record \in [Ids -> Rows]
  /\ task \in [Admins -> Requests]
  /\ basis \in [offer -> [sound : BOOLEAN, winner : Names \union {"none"}]]
  /\ \A a \in Admins : Fitting(task[a])

-----------------------------------------------------------------------------
(* Types *)

LEMMA BetFields ==
  ASSUME offer \in Offers, NEW b \in offer
  PROVE  /\ b.gtype \in {"matchodds", "bookmaker", "fancy"} /\ b.side \in {"BACK", "LAY"}
         /\ b.name \in Names /\ b.market \in Markets /\ b.line \in Nat
         /\ b \in Bets
BY ListsAssumption DEF Bets

LEMMA Bounds == MaxNumbering \in Nat /\ MaxSettlements \in Nat
BY ListsAssumption

LEMMA RunsType == Runs \subseteq Nat /\ None \notin Nat /\ Void \notin Nat /\ None # Void
<1>1. Runs \subseteq Nat
  BY ListsAssumption
<1>2. QED BY <1>1 DEF None, Void

LEMMA NumbersType == NumberOf \in [Markets -> [Names -> [Numberings -> Nat]]]
BY ListsAssumption

LEMMA NumberType ==
  ASSUME NEW m \in Markets, NEW n \in Names, NEW k \in Numberings
  PROVE  NumberOf[m][n][k] \in Nat
BY NumbersType

LEMMA IdleType == ASSUME offer \in Offers PROVE Idle \in Requests /\ Fitting(Idle)
BY DEF Idle, Requests, Fitting, Sections, Outcomes

LEMMA SectionType ==
  ASSUME TypeInv, NEW b \in offer
  PROVE  Section(b) \in Sections /\ SectionWithoutFancy(b) \in Sections
<1>1. OddsSection(b) \in Sections
  BY DEF OddsSection, Sections
<1>2. b.gtype \in {"matchodds", "bookmaker", "fancy"} /\ prefix[b] \in Kinds \union {"legacy"}
  BY BetFields DEF TypeInv
<1>3. Section(b) \in Sections
  BY <1>1, <1>2 DEF Section, Sections, Kinds
<1>4. QED BY <1>3 DEF SectionWithoutFancy, Sections

\* A step of one request that changes no bet and no record.
LEMMA StepType ==
  ASSUME TypeInv, NEW a \in Admins, NEW t \in Requests, Fitting(t), Step(a, t), expired' \in BOOLEAN
  PROVE  TypeInv'
<1>1. offer' = offer /\ task' \in [Admins -> Requests]
  BY DEF Step, TypeInv
<1>2. Requests' = Requests
  BY <1>1 DEF Requests, Entries
<1>3. \A c \in Admins : Fitting(task'[c])
  BY DEF Step, TypeInv
<1>4. \A c \in Admins : Fitting(task[c])'
  BY <1>3 DEF Fitting, VendorMarket
<1>5. QED BY <1>1, <1>2, <1>4 DEF Step, TypeInv, betVars

\* A step that leaves the requests as they are.
LEMMA RequestsStay ==
  ASSUME TypeInv, UNCHANGED <<offer, task>>
  PROVE  task' \in [Admins -> Requests'] /\ \A c \in Admins : Fitting(task[c])'
<1>1. Requests' = Requests
  BY DEF Requests, Entries
<1>2. QED BY <1>1 DEF TypeInv, Fitting, VendorMarket

\* A step that changes one request, among other things.
LEMMA RequestTyped ==
  ASSUME TypeInv, UNCHANGED offer, NEW a \in Admins, NEW t \in Requests, Fitting(t),
         task' = [task EXCEPT ![a] = t]
  PROVE  task' \in [Admins -> Requests'] /\ \A c \in Admins : Fitting(task[c])'
<1>1. Requests' = Requests
  BY DEF Requests, Entries
<1>2. QED BY <1>1 DEF TypeInv, Fitting, VendorMarket

LEMMA TypeInit == Init => TypeInv
<1> SUFFICES ASSUME Init PROVE TypeInv
  OBVIOUS
<1>1. Idle \in Requests /\ Fitting(Idle)
  BY IdleType DEF Init
<1>2. 0 \in Numberings /\ 0 \in 0..MaxSettlements
  BY Bounds DEF Numberings
<1>3. QED BY <1>1, <1>2 DEF Init, TypeInv, Statuses, Ids, Rows, Kinds, Settled, Outcomes, Unsound

LEMMA OverviewType ==
  ASSUME TypeInv, NEW a \in Admins, NEW section \in [offer -> Sections], ReadOverview(a, section)
  PROVE  TypeInv'
<1> DEFINE t == [Idle EXCEPT !.pc = "read", !.bets = {b \in Open : section[b] # "none"}, !.seen = selection,
                             !.section = [b \in offer |-> IF b \in Open THEN section[b] ELSE "none"]]
<1>1. Idle \in Requests
  BY IdleType DEF TypeInv
<1>2. t \in Requests
  <2>1. {b \in Open : section[b] # "none"} \in SUBSET offer
    BY DEF Open
  <2>2. [b \in offer |-> IF b \in Open THEN section[b] ELSE "none"] \in [offer -> Sections]
    BY DEF Sections
  <2>3. QED BY <1>1, <2>1, <2>2 DEF TypeInv, Requests
<1>3. Fitting(t)
  BY DEF Fitting, Idle
<1>4. Step(a, t) /\ expired' = expired
  BY DEF ReadOverview
<1> HIDE DEF t
<1>5. QED BY <1>2, <1>3, <1>4, StepType DEF TypeInv

\* What a step on from a request does.
LEMMA RequestType ==
  ASSUME TypeInv, NEW a \in Admins
  PROVE  task[a] \in Requests /\ Fitting(task[a])
BY DEF TypeInv

LEMMA ListType ==
  ASSUME TypeInv, NEW a \in Admins, ListUnchecked(a) \/ ListChecked(a)
  PROVE  TypeInv'
<1> DEFINE t == task[a]
<1>1. t \in Requests /\ Fitting(t)
  BY RequestType
<1>2. CASE ListUnchecked(a)
  <2>1. [t EXCEPT !.pc = "listed"] \in Requests /\ Fitting([t EXCEPT !.pc = "listed"])
    BY <1>1 DEF Requests, Fitting
  <2>2. Step(a, [t EXCEPT !.pc = "listed"]) /\ expired' \in BOOLEAN
    BY <1>2 DEF ListUnchecked, TypeInv
  <2>3. QED BY <2>1, <2>2, StepType
<1>3. CASE ListChecked(a)
  <2> DEFINE r == [t EXCEPT !.pc = "listed", !.numbering = numbering, !.due = ToCorrect(t), !.hidden = ToHide(t)]
  <2>1. ToCorrect(t) \subseteq t.bets /\ ToHide(t) \subseteq t.bets
    BY DEF ToCorrect, ToHide, InSection
  <2>2. t.bets \subseteq offer /\ t.sound \subseteq t.bets
    BY <1>1 DEF Requests, Fitting
  <2>3. r \in Requests
    BY <1>1, <2>1, <2>2 DEF Requests, TypeInv
  <2>4. ToCorrect(t) # {} => VendorMarket("match odds") # {}
    BY DEF ToCorrect, VendorNames
  <2>5. Fitting(r)
    BY <1>1, <2>1, <2>2, <2>4 DEF Requests, Fitting, TypeInv
  <2>6. Step(a, r) /\ expired' = expired
    BY <1>3 DEF ListChecked
  <2> HIDE DEF r
  <2>7. QED BY <2>3, <2>5, <2>6, StepType DEF TypeInv
<1>4. QED BY <1>2, <1>3

LEMMA CorrectionType ==
  ASSUME TypeInv, NEW a \in Admins, NEW b \in offer, Correct(a, b) \/ CorrectionFails(a, b)
  PROVE  TypeInv'
<1> DEFINE t == task[a]
<1>1. t \in Requests /\ Fitting(t)
  BY RequestType
<1>2. CASE Correct(a, b)
  <2> DEFINE r == [t EXCEPT !.due = @ \ {b}]
  <2>1. r \in Requests /\ Fitting(r)
    BY <1>1 DEF Requests, Fitting
  <2>2. task' = [task EXCEPT ![a] = r] /\ b \in t.due
    BY <1>2 DEF Correct
  <2>3. CorrectSelection(t, b) \in Nat
    <3>1. t.numbering \in Numberings /\ VendorMarket("match odds") # {}
      BY <1>1, <2>2 DEF Fitting
    <3>2. QED BY <3>1, NumberType, BetFields DEF CorrectSelection, VendorMarket, TypeInv
  <2> HIDE DEF r
  <2>4. offer' = offer
    BY <1>2 DEF Correct
  <2>5. task' \in [Admins -> Requests'] /\ \A c \in Admins : Fitting(task[c])'
    BY <2>1, <2>2, <2>4, RequestTyped
  <2>6. QED BY <1>2, <2>3, <2>5 DEF Correct, TypeInv
<1>3. CASE CorrectionFails(a, b)
  <2> DEFINE r == [t EXCEPT !.due = @ \ {b}, !.lost = @ \union {b}]
  <2>1. r \in Requests /\ Fitting(r)
    BY <1>1 DEF Requests, Fitting
  <2>2. Step(a, r) /\ expired' = expired
    BY <1>3 DEF CorrectionFails
  <2> HIDE DEF r
  <2>3. QED BY <2>1, <2>2, StepType DEF TypeInv
<1>4. QED BY <1>2, <1>3

LEMMA ShownType ==
  ASSUME TypeInv, NEW a \in Admins, NEW m \in Markets, NEW n \in Names
  PROVE  NumberShown(task[a], m, n) \subseteq Nat \union {None}
<1> DEFINE t == task[a]
<1>1. t \in Requests
  BY RequestType
<1>2. CASE t.numbering # None
  <2>1. t.numbering \in Numberings
    BY <1>1, <1>2 DEF Requests
  <2>2. QED BY <1>2, <2>1, NumberType DEF NumberShown
<1>3. CASE t.numbering = None
  <2>1. Visible(t) \subseteq offer
    BY <1>1 DEF Requests, Visible
  <2>2. t.seen \in [offer -> Nat \union {None}]
    BY <1>1 DEF Requests
  <2>3. QED BY <1>3, <2>1, <2>2 DEF NumberShown
<1>4. QED BY <1>2, <1>3

\* What a request asks for.
AskedFor(t, kind, m, n) ==
  [Idle EXCEPT !.pc = "asked", !.bets = FoundIn(kind, m), !.seen = selection, !.kind = kind, !.market = m,
               !.winner = n, !.numbers = NumberShown(t, m, n),
               !.sound = IF t.numbering = numbering
                         THEN (InSection(t, "matchOdds") \ t.lost) \intersect FoundIn(kind, m) ELSE {}]

LEMMA AskType ==
  ASSUME TypeInv, NEW a \in Admins, NEW kind \in Kinds, NEW m \in Markets, NEW n \in Runners(m),
         Ask(a, kind, m, n)
  PROVE  TypeInv' /\ AskedFor(task[a], kind, m, n) \in Requests
         /\ task' = [task EXCEPT ![a] = AskedFor(task[a], kind, m, n)]
<1> DEFINE r == AskedFor(task[a], kind, m, n)
<1>1. Idle \in Requests /\ Fitting(Idle)
  BY IdleType DEF TypeInv
<1>2. n \in Names
  BY DEF Runners
<1>3. NumberShown(task[a], m, n) \in SUBSET (Nat \union {None})
  BY <1>2, ShownType
<1>4. FoundIn(kind, m) \in SUBSET offer
  BY DEF FoundIn, Open
<1> DEFINE sound == IF task[a].numbering = numbering
                    THEN (InSection(task[a], "matchOdds") \ task[a].lost) \intersect FoundIn(kind, m) ELSE {}
<1>12. sound \in SUBSET offer /\ selection \in [offer -> Nat \union {None}]
  BY <1>4 DEF TypeInv
<1>13. r = [Idle EXCEPT !.pc = "asked", !.bets = FoundIn(kind, m), !.seen = selection, !.kind = kind, !.market = m,
               !.winner = n, !.numbers = NumberShown(task[a], m, n), !.sound = sound]
  BY DEF AskedFor
<1>5. r \in Requests
  <2> HIDE DEF sound, r
  <2>1. QED BY <1>1, <1>2, <1>3, <1>4, <1>12, <1>13 DEF Requests
<1>6. Fitting(r)
  BY <1>1 DEF Fitting, AskedFor, Idle
<1>7. task' = [task EXCEPT ![a] = r] /\ offer' = offer
  BY DEF Ask, AskedFor
<1>8. settlements' \in 0..MaxSettlements
  BY Bounds DEF Ask, TypeInv
<1> HIDE DEF r
<1>9. task' \in [Admins -> Requests'] /\ \A c \in Admins : Fitting(task[c])'
  BY <1>5, <1>6, <1>7, RequestTyped
<1>10. TypeInv'
  BY <1>7, <1>8, <1>9 DEF Ask, TypeInv, betVars
<1>11. QED BY <1>5, <1>7, <1>10 DEF r

LEMMA ValidateType ==
  ASSUME TypeInv, NEW a \in Admins, NEW answered \in BOOLEAN, NEW outcome \in Outcomes,
         task[a].kind \in Kinds, Validate(a, answered, outcome)
  PROVE  TypeInv'
<1> DEFINE r == [task[a] EXCEPT !.pc = "tagged", !.outcome = outcome]
<1>5. task[a] \in Requests /\ Fitting(task[a])
  BY RequestType
<1>1. r \in Requests /\ Fitting(r)
  BY <1>5 DEF Requests, Fitting
<1>2. task' = [task EXCEPT ![a] = r] /\ offer' = offer
  BY <1>5 DEF Validate, TypeInv
<1> HIDE DEF r
<1>3. task' \in [Admins -> Requests'] /\ \A c \in Admins : Fitting(task[c])'
  BY <1>1, <1>2, RequestTyped
<1>4. QED BY <1>2, <1>3 DEF Validate, TypeInv

LEMMA RecordType ==
  ASSUME TypeInv, NEW a \in Admins, task[a].kind \in Kinds, task[a].market \in Markets, Record(a)
  PROVE  TypeInv'
<1> DEFINE r == [task[a] EXCEPT !.pc = "recorded"]
<1>1. task[a] \in Requests /\ Fitting(task[a])
  BY RequestType
<1>2. r \in Requests /\ Fitting(r)
  BY <1>1 DEF Requests, Fitting
<1>3. task' = [task EXCEPT ![a] = r] /\ offer' = offer
  BY DEF Record
<1> HIDE DEF r
<1>4. task' \in [Admins -> Requests'] /\ \A c \in Admins : Fitting(task[c])'
  BY <1>2, <1>3, RequestTyped
<1>5. record' \in [Ids -> Rows]
  BY DEF Record, TypeInv, Ids, Rows
<1>6. QED BY <1>3, <1>4, <1>5 DEF Record, TypeInv, betVars

LEMMA CommitType ==
  ASSUME TypeInv, NEW a \in Admins, Commit(a)
  PROVE  TypeInv'
<1>1. Idle \in Requests /\ Fitting(Idle)
  BY IdleType DEF TypeInv
<1>2. task' = [task EXCEPT ![a] = Idle] /\ offer' = offer
  BY DEF Commit
<1>3. task' \in [Admins -> Requests'] /\ \A c \in Admins : Fitting(task[c])'
  BY <1>1, <1>2, RequestTyped
<1>4. status' \in [offer -> Statuses]
  BY DEF Commit, TypeInv, Statuses, Settled
<1>5. paidRuns' \in [offer -> Outcomes]
  BY RequestType DEF Commit, TypeInv, DecisionRun, Requests
<1>6. basis' \in [offer -> [sound : BOOLEAN, winner : Names \union {"none"}]]
  <2>1. task[a].winner \in Names \union {"none"}
    BY RequestType DEF Requests
  <2>2. QED BY <2>1 DEF Commit, TypeInv, Unsound
<1>7. QED BY <1>2, <1>3, <1>4, <1>5, <1>6 DEF Commit, TypeInv

LEMMA RollbackType ==
  ASSUME TypeInv, NEW s \in Ids, Rollback(s)
  PROVE  TypeInv'
<1>1. UNCHANGED <<offer, task>>
  BY DEF Rollback
<1>2. status' \in [offer -> Statuses]
  BY DEF Rollback, TypeInv, Statuses
<1>3. record' \in [Ids -> Rows]
  BY DEF Rollback, TypeInv, Rows
<1>4. basis' \in [offer -> [sound : BOOLEAN, winner : Names \union {"none"}]]
  BY DEF Rollback, TypeInv, Unsound
<1>5. QED BY <1>1, <1>2, <1>3, <1>4, RequestsStay DEF Rollback, TypeInv

LEMMA PlaceType ==
  ASSUME TypeInv, NEW b \in offer, Place(b)
  PROVE  TypeInv'
<1>1. NumberOf[b.market][b.name][numbering] \in Nat
  BY BetFields, NumberType DEF TypeInv
<1>2. selection' \in [offer -> Nat \union {None}] /\ status' \in [offer -> Statuses]
  BY <1>1 DEF Place, TypeInv, Statuses
<1>3. QED BY <1>2, RequestsStay DEF Place, TypeInv

LEMMA VendorType ==
  ASSUME TypeInv, Renumber \/ Forget
  PROVE  TypeInv'
<1>1. expired' \in BOOLEAN
  BY DEF Renumber, Forget, TypeInv
<1>3. numbering' \in Numberings
  <2>1. numbering \in 0..MaxNumbering
    BY DEF TypeInv, Numberings
  <2>2. QED BY <2>1, Bounds DEF Renumber, Forget, Numberings
<1>2. QED BY <1>1, <1>3, RequestsStay DEF Renumber, Forget, TypeInv, betVars

\* A request that ends.
LEMMA EndType ==
  ASSUME TypeInv, NEW a \in Admins, Step(a, Idle), UNCHANGED expired
  PROVE  TypeInv'
BY IdleType, StepType DEF TypeInv

-----------------------------------------------------------------------------
(* Histories *)

LEMMA RunShownType ==
  ASSUME TypeInv, NEW b \in offer, NEW r \in Ids \X Rows
  PROVE  RunShown(b, r) \in Nat \union {None} /\ Entry(b, r) \in Entries
<1>1. r[1] \in Ids /\ r[2].runs \in Runs \union {None} /\ paidRuns[b] \in Outcomes
  BY DEF Rows, TypeInv
<1>2. RunShown(b, r) \in Nat \union {None}
  BY <1>1, RunsType DEF RunShown, Outcomes
<1>3. QED BY <1>1, <1>2 DEF Entry, Entries, TypeInv

LEMMA EntriesType ==
  ASSUME TypeInv, NEW records \in SUBSET (Ids \X Rows)
  PROVE  EntriesOf(records) \in SUBSET Entries
<1>1. ById(records) \in SUBSET Entries
  BY RunShownType DEF ById, Under
<1>2. ByMarket(records) \in SUBSET Entries
  <2> SUFFICES ASSUME NEW b \in offer, NEW matching, matching = {r \in records : r[1][2] = b.market}, matching # {}
               PROVE  Entry(b, CHOOSE r \in matching : TRUE) \in Entries
    BY DEF ByMarket
  <2>1. (CHOOSE r \in matching : TRUE) \in Ids \X Rows
    OBVIOUS
  <2>2. QED BY <2>1, RunShownType
<1>3. QED BY <1>1, <1>2 DEF EntriesOf

LEMMA PageType ==
  ASSUME TypeInv, NEW a \in Admins, ReadPage(a) \/ ReadEntries(a)
  PROVE  TypeInv'
<1>1. CASE ReadPage(a)
  <2> DEFINE page == {s \in Kinds \X Markets : record[s].state # "none" /\ Under(s) # {}}
             r == [Idle EXCEPT !.pc = "page", !.records = {<<s, record[s]>> : s \in page}]
  <2>1. {<<s, record[s]>> : s \in page} \in SUBSET (Ids \X Rows)
    BY DEF TypeInv, Ids
  <2>2. Idle \in Requests /\ Fitting(Idle)
    BY IdleType DEF TypeInv
  <2> HIDE DEF page
  <2>3. r \in Requests
    BY <2>1, <2>2 DEF Requests
  <2>4. Fitting(r)
    BY <2>2 DEF Fitting, Idle
  <2>5. Step(a, r) /\ expired' = expired
    BY <1>1 DEF ReadPage, page
  <2> HIDE DEF r
  <2>6. QED BY <2>3, <2>4, <2>5, StepType DEF TypeInv
<1>2. CASE ReadEntries(a)
  <2> DEFINE r == [task[a] EXCEPT !.pc = "history", !.records = {}, !.entries = EntriesOf(task[a].records)]
  <2>1. task[a] \in Requests /\ Fitting(task[a])
    BY RequestType
  <2>2. EntriesOf(task[a].records) \in SUBSET Entries
    BY <2>1, EntriesType DEF Requests
  <2>3. r \in Requests /\ Fitting(r)
    BY <2>1, <2>2 DEF Requests, Fitting
  <2>4. Step(a, r) /\ expired' = expired
    BY <1>2 DEF ReadEntries
  <2> HIDE DEF r
  <2>5. QED BY <2>3, <2>4, StepType DEF TypeInv
<1>3. QED BY <1>1, <1>2

\* What every bet that a settlement of a kind finds is, whatever id it carries.
StaticFancy(b) == "FANCY" \in b.type \/ b.gtype = "fancy"

Suits(kind, b) ==
  /\ kind = "FANCY" => StaticFancy(b)
  /\ kind = "MATCHODDS" => ~StaticFancy(b)
  /\ kind = "BOOKMAKER" => b.gtype = "bookmaker" /\ "FANCY" \notin b.type

\* The id a bet carries is that of a settlement which found it.
IdsSuit == \A b \in offer : Suits(prefix[b], b)

\* A request to settle has open bets of its market that suit it, and no fancy
\* ones unless it is for fancy bets.
Asking(t) == t.pc \in {"asked", "tagged", "recorded"}
Tagged(t) == t.pc \in {"tagged", "recorded"}

RequestInv(t) ==
  Asking(t) =>
    /\ t.kind \in Kinds /\ t.market \in Markets
    /\ Tagged(t) => t.outcome \in OutcomesOf(t.kind)
    /\ \A b \in t.bets :
         /\ status[b] = "PENDING" /\ b.market = t.market /\ Suits(t.kind, b)
         /\ prefix[b] = "FANCY" => t.kind = "FANCY"
         /\ Tagged(t) => prefix[b] = t.kind

Alone == \A a, c \in Admins : a # c /\ Asking(task[a]) /\ Asking(task[c]) => task[a].market # task[c].market

\* A won or lost fancy bet has the runs that decided it.
RunsKept ==
  \A b \in offer : prefix[b] = "FANCY" /\ status[b] \in {"WON", "LOST"} =>
    paidRuns[b] \in Runs /\ FancyWins(b, paidRuns[b]) = (status[b] = "WON")

\* A history in the making has one record per id, and bets under those of fancy
\* markets.
HistoryInv(t) ==
  /\ t.pc = "page" =>
       /\ \A r, q \in t.records : r[1] = q[1] => r = q
       /\ \A r \in t.records : r[1][1] = "FANCY" => Under(r[1]) # {}
  /\ t.pc = "history" =>
       /\ \A e \in t.entries :
            e.id[1] = "FANCY" /\ e.status \in {"WON", "LOST"} => FancyWins(e.bet, e.runs) = (e.status = "WON")
       /\ \A e, f \in t.entries : e.bet = f.bet => e = f

ControlInv ==
  /\ IdsSuit /\ Alone /\ RunsKept
  /\ \A a \in Admins : RequestInv(task[a]) /\ HistoryInv(task[a])

-----------------------------------------------------------------------------
(* Requests and histories *)

LEMMA FoundSuits ==
  ASSUME TypeInv, IdsSuit, NEW kind \in Kinds, NEW b \in offer, Finds(kind, b)
  PROVE  Suits(kind, b) /\ (prefix[b] = "FANCY" => kind = "FANCY")
<1>1. prefix[b] = "FANCY" => StaticFancy(b)
  BY DEF IdsSuit, Suits
<1>2. CASE kind = "FANCY"
  BY <1>1, <1>2 DEF Finds, FoundByFancy, Suits, StaticFancy
<1>3. CASE kind = "MATCHODDS"
  BY <1>3 DEF Finds, FoundByMatchOdds, IsFancy, Suits, StaticFancy
<1>4. CASE kind = "BOOKMAKER"
  BY <1>4 DEF Finds, FoundByBookmaker, Suits
<1>5. CASE kind = "TIED_MATCH"
  BY <1>5 DEF Finds, FoundByTied, Suits
<1>6. QED BY <1>2, <1>3, <1>4, <1>5 DEF Kinds

\* A step of one request that leaves the bets' status, ids and runs alone.
LEMMA OneRequest ==
  ASSUME TypeInv, ControlInv, UNCHANGED <<offer, status, prefix, paidRuns>>,
         NEW a \in Admins, NEW t \in Requests, task' = [task EXCEPT ![a] = t],
         RequestInv(t), HistoryInv(t),
         Asking(t) => \A c \in Admins : c # a /\ Asking(task[c]) => task[c].market # t.market
  PROVE  ControlInv'
<1>1. IdsSuit' /\ RunsKept'
  BY DEF ControlInv, IdsSuit, RunsKept
<1>2. task'[a] = t /\ \A c \in Admins : c # a => task'[c] = task[c]
  BY DEF TypeInv
<1>3. \A c \in Admins : RequestInv(task'[c]) /\ HistoryInv(task'[c])
  BY <1>2 DEF ControlInv
<1>4. \A c \in Admins : RequestInv(task[c])' /\ HistoryInv(task[c])'
  <2> SUFFICES ASSUME NEW c \in Admins PROVE RequestInv(task[c])' /\ HistoryInv(task[c])'
    OBVIOUS
  <2>1. RequestInv(task[c])'
    BY <1>3 DEF RequestInv
  <2>2. \A s : Under(s)' = Under(s)
    BY DEF Under
  <2>3. HistoryInv(task[c])'
    BY <1>3, <2>2 DEF HistoryInv
  <2>4. QED BY <2>1, <2>3
<1>5. Alone'
  BY <1>2 DEF ControlInv, Alone
<1>6. QED BY <1>1, <1>4, <1>5 DEF ControlInv

LEMMA StepControl ==
  ASSUME TypeInv, ControlInv, NEW a \in Admins, NEW t \in Requests, ~Asking(t), HistoryInv(t), Step(a, t)
  PROVE  ControlInv'
BY OneRequest DEF Step, betVars, RequestInv

\* Bets that are placed, or opened again.
LEMMA BetsOpened ==
  ASSUME TypeInv, ControlInv, UNCHANGED <<offer, prefix, paidRuns, task>>,
         \A b \in offer : status'[b] = status[b] \/ (status[b] # "PENDING" /\ status'[b] = "PENDING")
  PROVE  ControlInv'
<1>1. IdsSuit' /\ RunsKept' /\ Alone'
  BY DEF ControlInv, IdsSuit, RunsKept, Alone
<1>2. ASSUME NEW c \in Admins PROVE RequestInv(task[c])' /\ HistoryInv(task[c])'
  <2>1. RequestInv(task[c]) /\ HistoryInv(task[c]) /\ task[c].bets \subseteq offer
    BY <1>2, RequestType DEF ControlInv, Requests
  <2>2. RequestInv(task[c])'
    BY <2>1 DEF RequestInv
  <2>3. \A s : Under(s) \subseteq Under(s)'
    BY DEF Under
  <2>4. HistoryInv(task[c])'
    BY <2>1, <2>3 DEF HistoryInv
  <2>5. QED BY <2>2, <2>4
<1>3. QED BY <1>1, <1>2 DEF ControlInv

LEMMA AskControl ==
  ASSUME TypeInv, ControlInv, NEW a \in Admins, NEW kind \in Kinds, NEW m \in Markets, NEW n \in Runners(m),
         Ask(a, kind, m, n)
  PROVE  ControlInv'
<1> DEFINE r == AskedFor(task[a], kind, m, n)
<1>1. r \in Requests /\ task' = [task EXCEPT ![a] = r]
  BY AskType
<1>2. r.pc = "asked" /\ r.kind = kind /\ r.market = m /\ r.bets = FoundIn(kind, m)
  BY DEF AskedFor, Idle
<1>3. \A b \in FoundIn(kind, m) : b \in offer /\ status[b] = "PENDING" /\ b.market = m /\ Finds(kind, b)
  BY DEF FoundIn, Open
<1> HIDE DEF r
<1>4. RequestInv(r)
  BY <1>2, <1>3, FoundSuits DEF RequestInv, ControlInv, Tagged
<1>5. HistoryInv(r)
  BY <1>2 DEF HistoryInv
<1>6. \A c \in Admins : task[c].market # r.market
  BY <1>2 DEF Ask
<1>7. UNCHANGED <<offer, status, prefix, paidRuns>>
  BY DEF Ask, betVars
<1>8. QED BY <1>1, <1>4, <1>5, <1>6, <1>7, OneRequest

\* Other requests have none of the bets of one that is settling.
LEMMA OthersBets ==
  ASSUME TypeInv, ControlInv, NEW a \in Admins, NEW c \in Admins, a # c, Asking(task[a]), Asking(task[c])
  PROVE  task[a].bets \intersect task[c].bets = {}
BY DEF ControlInv, Alone, RequestInv

LEMMA ValidateControl ==
  ASSUME TypeInv, ControlInv, NEW a \in Admins, NEW answered \in BOOLEAN, NEW outcome \in Outcomes,
         Validate(a, answered, outcome)
  PROVE  ControlInv'
<1> DEFINE t == task[a]
           r == [t EXCEPT !.pc = "tagged", !.outcome = outcome]
<1>1. /\ t \in Requests /\ t.pc = "asked" /\ RequestInv(t) /\ outcome \in OutcomesOf(t.kind)
      /\ task' = [task EXCEPT ![a] = r]
      /\ UNCHANGED <<offer, status, paidRuns>>
      /\ prefix' = [b \in offer |-> IF b \in t.bets THEN t.kind ELSE prefix[b]]
  BY RequestType DEF Validate, ControlInv, TypeInv
<1>2. r.pc = "tagged" /\ r.bets = t.bets /\ r.kind = t.kind /\ r.market = t.market /\ r.outcome = outcome
  BY <1>1 DEF Requests
<1>3. task'[a] = r /\ \A c \in Admins : c # a => task'[c] = task[c]
  BY <1>1 DEF TypeInv
<1>4. /\ t.kind \in Kinds /\ t.market \in Markets
      /\ \A b \in t.bets : /\ status[b] = "PENDING" /\ b.market = t.market /\ Suits(t.kind, b)
                           /\ prefix[b] = "FANCY" => t.kind = "FANCY"
  BY <1>1 DEF RequestInv, Asking
<1>5. t.bets \subseteq offer
  BY <1>1 DEF Requests
<1> HIDE DEF r
<1>6. IdsSuit'
  BY <1>1, <1>4, <1>5 DEF ControlInv, IdsSuit
<1>7. RunsKept'
  BY <1>1, <1>4, <1>5 DEF ControlInv, RunsKept
<1>8. Alone'
  BY <1>1, <1>2, <1>3 DEF ControlInv, Alone, Asking
<1>9. \A s : s[1] = "FANCY" => Under(s) \subseteq Under(s)'
  BY <1>1, <1>4 DEF Under
<1>10. ASSUME NEW c \in Admins PROVE RequestInv(task[c])' /\ HistoryInv(task[c])'
  <2>1. CASE c = a
    <3>1. /\ task'[c].pc = "tagged" /\ task'[c].bets = t.bets
          /\ task'[c].kind = t.kind /\ task'[c].market = t.market /\ task'[c].outcome \in OutcomesOf(t.kind)
      BY <1>1, <1>2, <1>3, <2>1
    <3>2. \A b \in t.bets : status'[b] = "PENDING" /\ prefix'[b] = t.kind
      BY <1>1, <1>4, <1>5
    <3>3. RequestInv(task[c])'
      BY <3>1, <3>2, <1>4 DEF RequestInv
    <3>4. HistoryInv(task[c])'
      BY <3>1 DEF HistoryInv
    <3>5. QED BY <3>3, <3>4
  <2>2. CASE c # a
    <3>1. task'[c] = task[c] /\ RequestInv(task[c]) /\ HistoryInv(task[c]) /\ task[c].bets \subseteq offer
      BY <1>3, <2>2, <1>10, RequestType DEF ControlInv, Requests
    <3>2. Asking(task[c]) => t.bets \intersect task[c].bets = {}
      BY <1>1, <1>10, <2>2, OthersBets DEF Asking
    <3>3. RequestInv(task[c])'
      BY <1>1, <3>1, <3>2 DEF RequestInv
    <3>4. HistoryInv(task[c])'
      BY <1>9, <3>1 DEF HistoryInv
    <3>5. QED BY <3>3, <3>4
  <2>3. QED BY <2>1, <2>2
<1>11. QED BY <1>6, <1>7, <1>8, <1>10 DEF ControlInv

LEMMA IdleControl == RequestInv(Idle) /\ HistoryInv(Idle) /\ ~Asking(Idle)
BY DEF Idle, RequestInv, HistoryInv, Asking

LEMMA RecordControl ==
  ASSUME TypeInv, ControlInv, NEW a \in Admins, Record(a)
  PROVE  ControlInv'
<1> DEFINE t == task[a]
           r == [t EXCEPT !.pc = "recorded"]
<1>1. /\ t \in Requests /\ t.pc = "tagged" /\ RequestInv(t)
      /\ task' = [task EXCEPT ![a] = r]
      /\ UNCHANGED <<offer, status, prefix, paidRuns>>
  BY RequestType DEF Record, ControlInv, betVars
<1>2. /\ r \in Requests /\ r.pc = "recorded" /\ r.bets = t.bets /\ r.kind = t.kind
      /\ r.market = t.market /\ r.outcome = t.outcome
  BY <1>1 DEF Requests
<1> HIDE DEF r
<1>3. RequestInv(r) /\ HistoryInv(r)
  BY <1>1, <1>2 DEF RequestInv, HistoryInv, Asking, Tagged
<1>4. \A c \in Admins : c # a /\ Asking(task[c]) => task[c].market # r.market
  BY <1>1, <1>2 DEF ControlInv, Alone, Asking
<1>5. QED BY <1>1, <1>2, <1>3, <1>4, OneRequest

LEMMA CommitControl ==
  ASSUME TypeInv, ControlInv, NEW a \in Admins, Commit(a)
  PROVE  ControlInv'
<1> DEFINE t == task[a]
<1>1. /\ t \in Requests /\ t.pc = "recorded" /\ RequestInv(t)
      /\ task' = [task EXCEPT ![a] = Idle]
      /\ UNCHANGED <<offer, prefix>>
  BY RequestType DEF Commit, ControlInv
<1>2. \A b \in t.bets : b \in offer /\ status[b] = "PENDING" /\ b.market = t.market /\ prefix[b] = t.kind
  BY <1>1 DEF RequestInv, Asking, Tagged, Requests
<1>3. task'[a] = Idle /\ \A c \in Admins : c # a => task'[c] = task[c]
  BY <1>1 DEF TypeInv
<1>4. \A b \in offer \ t.bets : status'[b] = status[b] /\ paidRuns'[b] = paidRuns[b]
  BY DEF Commit
<1>5. \A b \in t.bets : status'[b] \in Settled
  BY <1>2 DEF Commit, Settled
<1>6. ASSUME NEW b \in t.bets, t.kind = "FANCY", status'[b] \in {"WON", "LOST"}
      PROVE  paidRuns'[b] \in Runs /\ FancyWins(b, paidRuns'[b]) = (status'[b] = "WON")
  <2> DEFINE runs == t.outcome
  <2>1. paidRuns'[b] = runs
    BY <1>2, <1>6 DEF Commit, DecisionRun
  <2>2. status'[b] = IF runs = Void THEN "CANCELLED" ELSE IF FancyWins(b, runs) THEN "WON" ELSE "LOST"
    BY <1>2, <1>6 DEF Commit
  <2>3. runs # Void
    BY <1>6, <2>2
  <2>4. runs \in Runs
    BY <1>1, <1>6, <2>3 DEF RequestInv, Asking, Tagged, OutcomesOf
  <2> HIDE DEF runs
  <2>5. status'[b] = IF FancyWins(b, runs) THEN "WON" ELSE "LOST"
    BY <2>2, <2>3
  <2>6. FancyWins(b, runs) \in BOOLEAN
    BY DEF FancyWins
  <2>7. FancyWins(b, runs) = (status'[b] = "WON")
    BY <2>5, <2>6
  <2>8. QED BY <2>1, <2>4, <2>7
<1>7. IdsSuit'
  BY <1>1 DEF ControlInv, IdsSuit
<1>8. RunsKept'
  BY <1>1, <1>2, <1>4, <1>6 DEF ControlInv, RunsKept
<1>9. Alone'
  BY <1>3, IdleControl DEF ControlInv, Alone
<1>10. \A s : Under(s) \subseteq Under(s)'
  BY <1>1, <1>4, <1>5 DEF Under, Settled
<1>11. ASSUME NEW c \in Admins PROVE RequestInv(task[c])' /\ HistoryInv(task[c])'
  <2>1. CASE c = a
    BY <1>3, <2>1 DEF Idle, RequestInv, HistoryInv, Asking
  <2>2. CASE c # a
    <3>1. task'[c] = task[c] /\ RequestInv(task[c]) /\ HistoryInv(task[c]) /\ task[c].bets \subseteq offer
      BY <1>3, <2>2, <1>11, RequestType DEF ControlInv, Requests
    <3>2. Asking(task[c]) => t.bets \intersect task[c].bets = {}
      BY <1>1, <1>11, <2>2, OthersBets DEF Asking
    <3>3. RequestInv(task[c])'
      BY <1>1, <1>4, <3>1, <3>2 DEF RequestInv
    <3>4. HistoryInv(task[c])'
      BY <1>10, <3>1 DEF HistoryInv
    <3>5. QED BY <3>3, <3>4
  <2>3. QED BY <2>1, <2>2
<1>12. QED BY <1>7, <1>8, <1>9, <1>11 DEF ControlInv

LEMMA OpeningControl ==
  ASSUME TypeInv, ControlInv, (\E b \in offer : Place(b)) \/ (\E s \in Ids : Rollback(s)) \/ Renumber \/ Forget
  PROVE  ControlInv'
<1>1. UNCHANGED <<offer, prefix, paidRuns, task>>
  BY DEF Place, Rollback, Renumber, Forget, betVars
<1>2. \A b \in offer : status'[b] = status[b] \/ (status[b] # "PENDING" /\ status'[b] = "PENDING")
  BY DEF Place, Rollback, Renumber, Forget, betVars, TypeInv, SettledUnder, Settled
<1>3. QED BY <1>1, <1>2, BetsOpened

LEMMA PageControl ==
  ASSUME TypeInv, ControlInv, NEW a \in Admins, ReadPage(a)
  PROVE  ControlInv'
<1> DEFINE page == {s \in Kinds \X Markets : record[s].state # "none" /\ Under(s) # {}}
           r == [Idle EXCEPT !.pc = "page", !.records = {<<s, record[s]>> : s \in page}]
<1>1. r \in Requests
  <2>1. {<<s, record[s]>> : s \in page} \in SUBSET (Ids \X Rows)
    BY DEF TypeInv, Ids
  <2>2. Idle \in Requests
    BY IdleType DEF TypeInv
  <2> HIDE DEF page
  <2>3. QED BY <2>1, <2>2 DEF Requests
<1>2. r.pc = "page" /\ r.records = {<<s, record[s]>> : s \in page}
  BY DEF Idle
<1>3. Step(a, r)
  BY DEF ReadPage
<1> HIDE DEF r
<1>4. HistoryInv(r)
  BY <1>2 DEF HistoryInv
<1>5. ~Asking(r)
  BY <1>2 DEF Asking
<1>6. QED BY <1>1, <1>3, <1>4, <1>5, StepControl

\* A history reads one entry per bet, and with won and lost fancy bets the runs
\* that decided them.
LEMMA EntriesKept ==
  ASSUME TypeInv, ControlInv, NEW t \in Requests, t.pc = "page", HistoryInv(t)
  PROVE  /\ \A e \in EntriesOf(t.records) :
              e.id[1] = "FANCY" /\ e.status \in {"WON", "LOST"} => FancyWins(e.bet, e.runs) = (e.status = "WON")
         /\ \A e, f \in EntriesOf(t.records) : e.bet = f.bet => e = f
<1> DEFINE records == t.records
<1>1. /\ \A r, q \in records : r[1] = q[1] => r = q
      /\ \A r \in records : r[1][1] = "FANCY" => Under(r[1]) # {}
  BY DEF HistoryInv
<1>2. records \subseteq Ids \X Rows
  BY DEF Requests
<1> HIDE DEF records
<1>3. CASE ById(records) # {}
  <2>1. EntriesOf(records) = ById(records)
    BY <1>3 DEF EntriesOf
  <2>2. \A e \in ById(records) : \E r \in records : e.bet \in Under(r[1]) /\ e = Entry(e.bet, r)
    <3> SUFFICES ASSUME NEW r \in records, NEW b \in Under(r[1])
                 PROVE  Entry(b, r).bet = b
      BY DEF ById
    <3>1. QED BY DEF Entry
  <2>3. ASSUME NEW e \in ById(records), e.id[1] = "FANCY", e.status \in {"WON", "LOST"}
        PROVE  FancyWins(e.bet, e.runs) = (e.status = "WON")
    <3>1. PICK r \in records : e.bet \in Under(r[1]) /\ e = Entry(e.bet, r)
      BY <2>2, <2>3
    <3> DEFINE b == e.bet
    <3>2. b \in offer /\ r[1][1] = prefix[b]
      BY <3>1 DEF Under
    <3>3. e.id = r[1] /\ e.status = status[b] /\ e.runs = RunShown(b, r)
      BY <3>1 DEF Entry
    <3>4. prefix[b] = "FANCY" /\ status[b] \in {"WON", "LOST"}
      BY <2>3, <3>2, <3>3
    <3>5. paidRuns[b] \in Runs /\ FancyWins(b, paidRuns[b]) = (status[b] = "WON")
      BY <3>2, <3>4 DEF ControlInv, RunsKept
    <3>6. e.runs = paidRuns[b]
      <4>1. RunShown(b, r) = paidRuns[b]
        <5>1. r[1][1] = "FANCY" /\ paidRuns[b] \in Runs /\ paidRuns[b] # Void
          BY <3>2, <3>4, <3>5, RunsType
        <5>2. QED BY <5>1 DEF RunShown
      <4>2. QED BY <3>3, <4>1
    <3>7. QED BY <3>3, <3>5, <3>6
  <2>4. ASSUME NEW e \in ById(records), NEW f \in ById(records), e.bet = f.bet
        PROVE  e = f
    <3>1. PICK r \in records : e.bet \in Under(r[1]) /\ e = Entry(e.bet, r)
      BY <2>2
    <3>2. PICK q \in records : f.bet \in Under(q[1]) /\ f = Entry(f.bet, q)
      BY <2>2
    <3>3. r[1] \in Ids /\ q[1] \in Ids
      BY <1>2
    <3>4. r[1][1] = q[1][1] /\ r[1][2] = q[1][2]
      BY <2>4, <3>1, <3>2 DEF Under
    <3>5. r[1] = q[1]
      BY <3>3, <3>4 DEF Ids
    <3>6. QED BY <1>1, <2>4, <3>1, <3>2, <3>5
  <2>5. QED BY <2>1, <2>3, <2>4 DEF records
<1>4. CASE ById(records) = {}
  <2>1. EntriesOf(records) = ByMarket(records)
    BY <1>4 DEF EntriesOf
  <2>2. \A r \in records : Under(r[1]) = {}
    <3> SUFFICES ASSUME NEW r \in records, NEW b \in Under(r[1]) PROVE FALSE
      OBVIOUS
    <3>1. Entry(b, r) \in ById(records)
      BY DEF ById
    <3>2. QED BY <1>4, <3>1
  <2>3. \A r \in records : r[1][1] # "FANCY"
    BY <1>1, <2>2
  <2> DEFINE matching(b) == {r \in records : r[1][2] = b.market}
             first(b) == CHOOSE r \in matching(b) : TRUE
  <2>4. \A e \in ByMarket(records) : first(e.bet) \in records /\ e = Entry(e.bet, first(e.bet))
    <3> SUFFICES ASSUME NEW b \in offer, matching(b) # {}
                 PROVE  Entry(b, first(b)).bet = b /\ first(b) \in matching(b)
      BY DEF ByMarket
    <3>1. QED BY DEF Entry
  <2>5. ASSUME NEW e \in ByMarket(records) PROVE e.id[1] # "FANCY"
    <3>1. PICK r \in records : e = Entry(e.bet, r)
      BY <2>4, <2>5
    <3>2. e.id = r[1]
      BY <3>1 DEF Entry
    <3>3. QED BY <2>3, <3>2
  <2> HIDE DEF first
  <2>6. QED BY <2>1, <2>4, <2>5 DEF records
<1>5. QED BY <1>3, <1>4

LEMMA EntriesControl ==
  ASSUME TypeInv, ControlInv, NEW a \in Admins, ReadEntries(a)
  PROVE  ControlInv'
<1> DEFINE t == task[a]
           r == [t EXCEPT !.pc = "history", !.records = {}, !.entries = EntriesOf(t.records)]
<1>1. t \in Requests /\ t.pc = "page" /\ HistoryInv(t) /\ Step(a, r)
  BY RequestType DEF ReadEntries, ControlInv
<1>2. r \in Requests
  <2>1. EntriesOf(t.records) \in SUBSET Entries
    BY <1>1, EntriesType DEF Requests
  <2>2. QED BY <1>1, <2>1 DEF Requests
<1>3. r.pc = "history" /\ r.entries = EntriesOf(t.records)
  BY <1>1 DEF Requests
<1> HIDE DEF r
<1>4. HistoryInv(r)
  <2>1. /\ \A e \in r.entries :
              e.id[1] = "FANCY" /\ e.status \in {"WON", "LOST"} => FancyWins(e.bet, e.runs) = (e.status = "WON")
        /\ \A e, f \in r.entries : e.bet = f.bet => e = f
    BY <1>1, <1>3, EntriesKept
  <2>2. QED BY <1>3, <2>1 DEF HistoryInv
<1>5. ~Asking(r)
  BY <1>3 DEF Asking
<1>6. QED BY <1>1, <1>2, <1>4, <1>5, StepControl

\* The steps of an overview.
LEMMA OverviewControl ==
  ASSUME TypeInv, TypeInv', ControlInv, NEW a \in Admins, NEW b, NEW section \in [offer -> Sections],
         \/ ReadOverview(a, section) \/ ListUnchecked(a) \/ ListChecked(a) \/ CorrectionFails(a, b)
         \/ Correct(a, b)
  PROVE  ControlInv'
<1> DEFINE t == task'[a]
<1>1. task \in [Admins -> Requests] /\ \A c \in Admins : Fitting(task[c])
  BY DEF TypeInv
<1>2. UNCHANGED <<offer, status, prefix, paidRuns>>
  BY DEF ReadOverview, ListUnchecked, ListChecked, CorrectionFails, Correct, Step, betVars
<1>3. t \in Requests
  <2>1. Requests' = Requests
    BY <1>2 DEF Requests, Entries
  <2>2. QED BY <2>1 DEF TypeInv
<1>4. task' = [task EXCEPT ![a] = t]
  BY <1>1 DEF ReadOverview, ListUnchecked, ListChecked, CorrectionFails, Correct, Step
<1>5. task[a] \in Requests /\ RequestInv(task[a]) /\ HistoryInv(task[a])
  BY <1>1 DEF ControlInv
<1>6. CASE ReadOverview(a, section) \/ ListUnchecked(a) \/ ListChecked(a)
  <2>1. t.pc \in {"read", "listed"}
    <3>1. CASE ReadOverview(a, section)
      BY <1>1, <3>1 DEF ReadOverview, Step, Idle
    <3>2. CASE ListUnchecked(a)
      BY <1>1, <1>5, <3>2 DEF ListUnchecked, Step, Requests
    <3>3. CASE ListChecked(a)
      BY <1>1, <1>5, <3>3 DEF ListChecked, Step, Requests
    <3>4. QED BY <1>6, <3>1, <3>2, <3>3
  <2> HIDE DEF t
  <2>2. QED BY <1>2, <1>3, <1>4, <2>1, OneRequest DEF RequestInv, HistoryInv, Asking
<1>7. CASE Correct(a, b) \/ CorrectionFails(a, b)
  <2>1. /\ t.pc = task[a].pc /\ t.bets = task[a].bets /\ t.kind = task[a].kind /\ t.market = task[a].market
        /\ t.records = task[a].records /\ t.entries = task[a].entries /\ t.outcome = task[a].outcome
    <3>1. CASE Correct(a, b)
      BY <1>1, <1>5, <3>1 DEF Correct, Requests
    <3>2. CASE CorrectionFails(a, b)
      BY <1>1, <1>5, <3>2 DEF CorrectionFails, Step, Requests
    <3>3. QED BY <1>7, <3>1, <3>2
  <2> HIDE DEF t
  <2>2. RequestInv(t) /\ HistoryInv(t)
    BY <1>5, <2>1 DEF RequestInv, HistoryInv, Asking, Tagged
  <2>3. Asking(t) => \A c \in Admins : c # a /\ Asking(task[c]) => task[c].market # t.market
    BY <2>1 DEF Asking, ControlInv, Alone
  <2>4. QED BY <1>2, <1>3, <1>4, <2>2, <2>3, OneRequest
<1>8. QED BY <1>6, <1>7

LEMMA EndControl ==
  ASSUME TypeInv, ControlInv, NEW a \in Admins, Close(a) \/ Fail(a)
  PROVE  ControlInv'
<1>1. Step(a, Idle) /\ Idle \in Requests
  BY IdleType DEF Close, Fail, TypeInv
<1>2. QED BY <1>1, IdleControl, StepControl

-----------------------------------------------------------------------------
(* Theorems without a premise *)

LEMMA SectionsTyped ==
  ASSUME TypeInv
  PROVE  [b \in offer |-> Section(b)] \in [offer -> Sections]
         /\ [b \in offer |-> SectionWithoutFancy(b)] \in [offer -> Sections]
BY SectionType

LEMMA AskedKind ==
  ASSUME ControlInv, NEW a \in Admins, Asking(task[a])
  PROVE  task[a].kind \in Kinds /\ task[a].market \in Markets
BY DEF ControlInv, RequestInv

LEMMA TypeStep == TypeInv /\ ControlInv /\ [Next]_vars => TypeInv'
<1> SUFFICES ASSUME TypeInv, ControlInv, [Next]_vars PROVE TypeInv'
  OBVIOUS
<1>1. CASE UNCHANGED vars
  <2>1. task' \in [Admins -> Requests'] /\ \A c \in Admins : Fitting(task[c])'
    BY <1>1, RequestsStay DEF vars
  <2>2. QED BY <1>1, <2>1 DEF vars, TypeInv
<1>2. CASE (\E b \in offer : Place(b)) \/ Renumber \/ Forget \/ (\E s \in Ids : Rollback(s))
  BY <1>2, PlaceType, VendorType, RollbackType
<1>3. ASSUME NEW a \in Admins,
             \/ ReadOverview(a, [b \in offer |-> Section(b)])
             \/ ReadOverview(a, [b \in offer |-> SectionWithoutFancy(b)])
      PROVE  TypeInv'
  BY <1>3, SectionsTyped, OverviewType
<1>4. ASSUME NEW a \in Admins,
             \/ ListUnchecked(a) \/ ListChecked(a) \/ ReadPage(a) \/ ReadEntries(a)
             \/ \E b \in offer : Correct(a, b) \/ CorrectionFails(a, b)
      PROVE  TypeInv'
  BY <1>4, ListType, PageType, CorrectionType
<1>5. ASSUME NEW a \in Admins, Close(a) \/ Fail(a)
      PROVE  TypeInv'
  BY <1>5, EndType DEF Close, Fail
<1>6. ASSUME NEW a \in Admins, NEW kind \in Kinds, NEW m \in Markets, NEW n \in Runners(m), Ask(a, kind, m, n)
      PROVE  TypeInv'
  BY <1>6, AskType
<1>7. ASSUME NEW a \in Admins, NEW answered \in BOOLEAN, NEW outcome \in Outcomes,
             Validate(a, answered, outcome)
      PROVE  TypeInv'
  <2>1. Asking(task[a])
    BY <1>7 DEF Validate, Asking
  <2>2. QED BY <1>7, <2>1, AskedKind, ValidateType
<1>8. ASSUME NEW a \in Admins, Record(a)
      PROVE  TypeInv'
  <2>1. Asking(task[a])
    BY <1>8 DEF Record, Asking
  <2>2. QED BY <1>8, <2>1, AskedKind, RecordType
<1>9. ASSUME NEW a \in Admins, Commit(a)
      PROVE  TypeInv'
  BY <1>9, CommitType
<1>10. QED BY <1>1, <1>2, <1>3, <1>4, <1>5, <1>6, <1>7, <1>8, <1>9 DEF Next, Ids

LEMMA ControlInit == Init => ControlInv
<1> SUFFICES ASSUME Init PROVE ControlInv
  OBVIOUS
<1>1. \A b \in offer : prefix[b] = "legacy"
  BY DEF Init
<1>2. \A a \in Admins : task[a] = Idle
  BY DEF Init
<1>3. \A a \in Admins : RequestInv(task[a]) /\ HistoryInv(task[a]) /\ ~Asking(task[a])
  BY <1>2, IdleControl
<1>4. QED BY <1>1, <1>3 DEF ControlInv, IdsSuit, Suits, RunsKept, Alone

LEMMA ControlStep == TypeInv /\ ControlInv /\ [Next]_vars => ControlInv'
<1> SUFFICES ASSUME TypeInv, ControlInv, [Next]_vars PROVE ControlInv'
  OBVIOUS
<1>0. TypeInv'
  BY TypeStep
<1>1. CASE UNCHANGED vars
  <2>1. UNCHANGED <<offer, prefix, paidRuns, task>> /\ \A b \in offer : status'[b] = status[b]
    BY <1>1 DEF vars
  <2>2. QED BY <2>1, BetsOpened
<1>2. CASE (\E b \in offer : Place(b)) \/ Renumber \/ Forget \/ (\E s \in Ids : Rollback(s))
  BY <1>2, OpeningControl
<1>3. ASSUME NEW a \in Admins,
             \/ ReadOverview(a, [b \in offer |-> Section(b)])
             \/ ReadOverview(a, [b \in offer |-> SectionWithoutFancy(b)])
             \/ ListUnchecked(a) \/ ListChecked(a)
      PROVE  ControlInv'
  BY <1>0, <1>3, SectionsTyped, OverviewControl
<1>4. ASSUME NEW a \in Admins, NEW b \in offer, Correct(a, b) \/ CorrectionFails(a, b)
      PROVE  ControlInv'
  BY <1>0, <1>4, SectionsTyped, OverviewControl
<1>5. ASSUME NEW a \in Admins, Close(a) \/ Fail(a) \/ ReadPage(a) \/ ReadEntries(a)
      PROVE  ControlInv'
  BY <1>5, EndControl, PageControl, EntriesControl
<1>6. ASSUME NEW a \in Admins, NEW kind \in Kinds, NEW m \in Markets, NEW n \in Runners(m), Ask(a, kind, m, n)
      PROVE  ControlInv'
  BY <1>6, AskControl
<1>7. ASSUME NEW a \in Admins, NEW answered \in BOOLEAN, NEW outcome \in Outcomes,
             Validate(a, answered, outcome)
      PROVE  ControlInv'
  BY <1>7, ValidateControl
<1>8. ASSUME NEW a \in Admins, Record(a) \/ Commit(a)
      PROVE  ControlInv'
  BY <1>8, RecordControl, CommitControl
<1>9. QED BY <1>1, <1>2, <1>3, <1>4, <1>5, <1>6, <1>7, <1>8 DEF Next, Ids

\* The inductive invariant of everything but payment by name.
THEOREM ControlKept == Spec => [](TypeInv /\ ControlInv)
<1>1. Init => TypeInv /\ ControlInv
  BY TypeInit, ControlInit
<1>2. TypeInv /\ ControlInv /\ [Next]_vars => (TypeInv /\ ControlInv)'
  BY TypeStep, ControlStep
<1>3. QED BY <1>1, <1>2, PTL DEF Spec

\* The state has its shape.
THEOREM TypeCorrect == Spec => []TypeOK
<1>1. TypeInv => TypeOK
  BY DEF TypeInv, TypeOK, Requests, Fitting, Statuses, Ids, Rows
<1>2. QED BY <1>1, ControlKept, PTL

\* The run a history shows with a won or lost fancy bet decides it that way.
THEOREM RunShownCorrect == Spec => []DecisionRunShown
<1>1. ControlInv => DecisionRunShown
  BY DEF ControlInv, HistoryInv, DecisionRunShown, Histories
<1>2. QED BY <1>1, ControlKept, PTL

\* No history has two entries of one bet.
THEOREM EntriesOnce == Spec => []OneEntryPerBet
<1>1. ControlInv => OneEntryPerBet
  BY DEF ControlInv, HistoryInv, OneEntryPerBet, Histories
<1>2. QED BY <1>1, ControlKept, PTL

-----------------------------------------------------------------------------
(* Bets whose texts agree *)

LEMMA LabelsAgree ==
  ASSUME TypeInv, IdsSuit, Labelled, NEW b \in offer
  PROVE  /\ b.gtype \in {"matchodds", "bookmaker", "fancy"} /\ prefix[b] \in Kinds \union {"legacy"}
         /\ IsFancy(b) <=> "FANCY" \in b.type
         /\ prefix[b] = "FANCY" \/ b.gtype = "fancy" \/ "FANCY" \in b.title => "FANCY" \in b.type
         /\ prefix[b] \in {"MATCHODDS", "BOOKMAKER"} => "FANCY" \notin b.type
         /\ prefix[b] = "BOOKMAKER" => b.gtype = "bookmaker"
<1>1. b \in Bets /\ b.gtype \in {"matchodds", "bookmaker", "fancy"} /\ prefix[b] \in Kinds \union {"legacy"}
  BY BetFields DEF TypeInv
<1>2. b.gtype = "fancy" \/ "FANCY" \in b.title => "FANCY" \in b.type
  BY <1>1 DEF Labelled
<1>3. Suits(prefix[b], b)
  BY DEF IdsSuit
<1>4. QED BY <1>1, <1>2, <1>3 DEF Suits, StaticFancy, IsFancy

LEMMA SectionFinds ==
  ASSUME TypeInv, IdsSuit, Labelled, NEW b \in offer, Section(b) # "none"
  PROVE  Finds(KindFor[Section(b)], b)
<1>1. /\ b.name \in {"yes", "no"} => TiedName(b)
      /\ "tied match" \in b.title => b.name \in {"yes", "no"}
      /\ "BOOK" \in b.type \union b.title /\ ~MatchOddsWords(b.type) /\ ~MatchOddsWords(b.title)
           => b.gtype # "matchodds"
  BY BetFields DEF Labelled, TypeInv
<1>2. CASE Section(b) = "fancy"
  <2>1. "FANCY" \in b.type
    <3>1. OddsSection(b) # "fancy"
      BY DEF OddsSection
    <3>2. CASE prefix[b] \in {"FANCY", "MATCHODDS", "BOOKMAKER"}
      BY <1>2, <3>1, <3>2, LabelsAgree DEF Section
    <3>3. CASE prefix[b] \in {"legacy", "TIED_MATCH"}
      <4>1. "FANCY" \in b.type \union b.title \/ b.gtype = "fancy"
        BY <1>2, <3>1, <3>3 DEF Section
      <4>2. QED BY <4>1, LabelsAgree
    <3>4. QED BY <3>2, <3>3, LabelsAgree DEF Kinds
  <2>2. QED BY <1>2, <2>1 DEF Finds, KindFor, FoundByFancy
<1>3. CASE Section(b) \in {"matchOdds", "matchOddsIncludingTie", "tiedMatch"}
  <2>1. "FANCY" \notin b.type
    <3>1. CASE prefix[b] \in {"FANCY", "MATCHODDS", "BOOKMAKER"}
      BY <1>3, <3>1, LabelsAgree DEF Section
    <3>2. CASE prefix[b] \in {"legacy", "TIED_MATCH"}
      <4>1. "FANCY" \notin b.type \union b.title
        BY <1>3, <3>2 DEF Section
      <4>2. QED BY <4>1
    <3>3. QED BY <3>1, <3>2, LabelsAgree DEF Kinds
  <2>2. ~IsFancy(b) /\ prefix[b] # "FANCY" /\ b.gtype # "fancy"
    BY <2>1, LabelsAgree
  <2>3. CASE Section(b) \in {"matchOdds", "matchOddsIncludingTie"}
    <3>1. KindFor[Section(b)] = "MATCHODDS"
      BY <2>3 DEF KindFor
    <3>2. QED BY <2>2, <3>1 DEF Finds, FoundByMatchOdds
  <2>4. CASE Section(b) = "tiedMatch"
    <3>1. KindFor[Section(b)] = "TIED_MATCH"
      BY <2>4 DEF KindFor
    <3>2. OddsSection(b) = "tiedMatch"
      <4>1. b.gtype \in {"matchodds", "bookmaker"}
        BY <2>2, LabelsAgree
      <4>2. CASE prefix[b] \in {"MATCHODDS", "BOOKMAKER"}
        BY <2>4, <4>2 DEF Section
      <4>3. CASE prefix[b] \in {"legacy", "TIED_MATCH"}
        BY <2>4, <4>1, <4>3 DEF Section
      <4>4. QED BY <2>2, <4>2, <4>3, LabelsAgree DEF Kinds
    <3>3. b.name \in {"yes", "no"} /\ TiedName(b)
      BY <1>1, <3>2 DEF OddsSection
    <3>4. FoundByTied(b)
      BY <2>2, <3>3 DEF FoundByTied
    <3>5. QED BY <3>1, <3>4 DEF Finds
  <2>5. QED BY <1>3, <2>3, <2>4
<1>4. CASE Section(b) = "bookmaker"
  <2>1. "FANCY" \notin b.type /\ prefix[b] \notin {"FANCY", "MATCHODDS"} /\ b.gtype = "bookmaker"
    <3>1. CASE prefix[b] \in {"FANCY", "MATCHODDS", "BOOKMAKER"}
      BY <1>4, <3>1, LabelsAgree DEF Section, OddsSection
    <3>2. CASE prefix[b] \in {"legacy", "TIED_MATCH"}
      <4>1. "FANCY" \notin b.type \union b.title
        BY <1>4, <3>2 DEF Section
      <4>2. \/ /\ "BOOK" \in b.type \union b.title
               /\ ~MatchOddsWords(b.type) /\ ~MatchOddsWords(b.title)
            \/ b.gtype = "bookmaker"
        BY <1>4, <3>2, <4>1 DEF Section, OddsSection
      <4>3. b.gtype # "fancy"
        BY <4>1, LabelsAgree
      <4>4. b.gtype = "bookmaker"
        BY <1>1, <4>2, <4>3, LabelsAgree
      <4>5. QED BY <3>2, <4>1, <4>4
    <3>3. QED BY <3>1, <3>2, LabelsAgree DEF Kinds
  <2>2. KindFor[Section(b)] = "BOOKMAKER"
    BY <1>4 DEF KindFor
  <2>3. QED BY <2>1, <2>2 DEF Finds, FoundByBookmaker
<1>5. QED BY <1>2, <1>3, <1>4, SectionType DEF Sections

\* An open bet is found by the settlement of the section it is shown in, if the
\* texts of bets agree: no settlement leaves an id behind that hides it.
THEOREM ShownIsSettled == ASSUME Labelled PROVE Spec => []ShownWhereSettled
<1>1. TypeInv /\ ControlInv => ShownWhereSettled
  <2> SUFFICES ASSUME TypeInv, ControlInv, NEW b \in Open
               PROVE  /\ \A s \in {Section(b), SectionWithoutFancy(b)} : s # "none" => Finds(KindFor[s], b)
                      /\ OnFancyList(b) => FoundByFancy(b)
                      /\ OnBookmakerList(b) => FoundByBookmaker(b)
                      /\ OnTypeList(b, "tied-match") => FoundByTied(b)
    BY DEF ShownWhereSettled
  <2>1. b \in offer /\ IdsSuit
    BY DEF Open, ControlInv
  <2>2. \A s \in {Section(b), SectionWithoutFancy(b)} : s # "none" => Finds(KindFor[s], b)
    BY <2>1, SectionFinds DEF SectionWithoutFancy
  <2>3. OnFancyList(b) => FoundByFancy(b)
    BY DEF OnFancyList, IsFancy, FoundByFancy
  <2>4. OnBookmakerList(b) => FoundByBookmaker(b)
    BY <2>1, LabelsAgree DEF OnBookmakerList, FoundByBookmaker
  <2>5. OnTypeList(b, "tied-match") => FoundByTied(b)
    <3>1. "FANCY" \in b.type => b.name \notin {"yes", "no"}
      BY <2>1, BetFields DEF Labelled, TypeInv
    <3>2. QED BY <2>1, <3>1, LabelsAgree DEF OnTypeList, FoundByTied
  <2>6. QED BY <2>2, <2>3, <2>4, <2>5
<1>2. QED BY <1>1, ControlKept, PTL

-----------------------------------------------------------------------------
(* Payment by name *)

IsOdds(b) == MarketNamed[b.market] = "match odds"
OwnNumber(b, k) == NumberOf[b.market][b.name][k]

\* A selection is a number the bet's runner has or had.
SelectionInv ==
  \A b \in offer : IsOdds(b) /\ status[b] # "none" => \E k \in 0..numbering : selection[b] = OwnNumber(b, k)

\* A selection read earlier is not a later number than the bet's now.
NotLater(b, seen) ==
  \E j, k \in 0..numbering : j <= k /\ seen = OwnNumber(b, j) /\ selection[b] = OwnNumber(b, k)

\* What an overview reads, and that the bets it lists with the vendor's present
\* numbers have them, once its corrections are written.
ListInv(t) ==
  /\ t.pc = "read" => t.numbering = None
  /\ t.numbering # None => t.numbering <= numbering
  /\ \A b \in t.due : IsOdds(b) => 1 <= t.numbering
  /\ t.pc \in {"read", "listed"} => \A b \in t.bets :
       /\ status[b] # "none"
       /\ t.section[b] = "matchOdds" => ~StaticFancy(b)
       /\ t.pc = "read" /\ IsOdds(b) => NotLater(b, t.seen[b])
       /\ /\ t.pc = "listed" /\ t.numbering = numbering /\ t.section[b] = "matchOdds"
          /\ IsOdds(b) /\ b \notin t.due \union t.lost
          => selection[b] = OwnNumber(b, numbering)
  /\ Asking(t) => \A b \in t.sound :
       IsOdds(b) => t.kind # "FANCY" /\ Wins(t, b) = ((b.name = t.winner) = (b.side = "BACK"))

BasisInv == \A b \in offer : basis[b].sound => status[b] \in Settled

PaymentInv ==
  /\ SelectionInv /\ BasisInv /\ PaidByName
  /\ \A a \in Admins : ListInv(task[a])

LEMMA OddsNumbers ==
  ASSUME TypeInv, NumbersTell, NEW b \in offer, IsOdds(b)
  PROVE  /\ b.market \in Markets /\ b.name \in Runners(b.market)
         /\ VendorMarket("match odds") = {b.market}
         /\ \A n \in Runners(b.market) : \A j, k \in Numberings :
              OwnNumber(b, j) = NumberOf[b.market][n][k] =>
                n = b.name /\ \A i \in Numberings : j <= i /\ i <= k => OwnNumber(b, i) = OwnNumber(b, k)
<1>1. b \in Bets /\ b.market \in Markets
  BY BetFields DEF TypeInv
<1>2. b.name \in Runners(b.market)
  BY <1>1 DEF NumbersTell
<1>3. VendorMarket("match odds") = {b.market}
  <2>1. \A m \in Markets : MarketNamed[m] = "match odds" => m = b.market
    BY <1>1 DEF NumbersTell, IsOdds
  <2>2. QED BY <1>1, <2>1 DEF VendorMarket, IsOdds
<1>4. \A n, o \in Runners(b.market) : \A j, k \in Numberings :
        NumberOf[b.market][n][j] = NumberOf[b.market][o][k] =>
          n = o /\ \A i \in Numberings : j <= i /\ i <= k =>
            NumberOf[b.market][n][i] = NumberOf[b.market][n][k]
  BY <1>1 DEF NumbersTell, IsOdds
<1>5. ASSUME NEW n \in Runners(b.market), NEW j \in Numberings, NEW k \in Numberings,
             OwnNumber(b, j) = NumberOf[b.market][n][k]
      PROVE  n = b.name /\ \A i \in Numberings : j <= i /\ i <= k => OwnNumber(b, i) = OwnNumber(b, k)
  <2>1. /\ b.name = n
        /\ \A i \in Numberings : j <= i /\ i <= k => NumberOf[b.market][b.name][i] = NumberOf[b.market][b.name][k]
    BY <1>2, <1>4, <1>5 DEF OwnNumber
  <2>2. QED BY <2>1 DEF OwnNumber
<1>6. QED BY <1>1, <1>2, <1>3, <1>5

LEMMA Now == ASSUME TypeInv PROVE numbering \in Nat /\ 0..numbering \subseteq Numberings /\ numbering \in 0..numbering
<1>1. numbering \in 0..MaxNumbering
  BY DEF TypeInv, Numberings
<1>2. QED BY <1>1, Bounds DEF Numberings

\* What else happens to a request's bets: they are placed, settled, opened again
\* and corrected to the present numbers, and the vendor renumbers.
Onward ==
  /\ UNCHANGED offer
  /\ numbering' \in {numbering, numbering + 1}
  /\ \A b \in offer : status[b] # "none" =>
       /\ status'[b] # "none"
       /\ \/ selection'[b] = selection[b]
          \/ numbering' = numbering /\ (IsOdds(b) => selection'[b] = OwnNumber(b, numbering))

LEMMA ListStays ==
  ASSUME TypeInv, Onward, NEW t \in Requests, ListInv(t)
  PROVE  ListInv(t)'
<1>1. numbering \in Nat /\ numbering' \in Nat /\ numbering <= numbering' /\ t.bets \subseteq offer
  BY Now DEF Onward, Requests
<1>2. t.numbering \in Nat \union {None}
  BY Bounds DEF Requests, Numberings
<1>3. t.numbering # None => t.numbering <= numbering'
  BY <1>1, <1>2 DEF ListInv
<1>4. ASSUME t.pc \in {"read", "listed"}, NEW b \in t.bets
      PROVE  /\ status'[b] # "none"
             /\ t.section[b] = "matchOdds" => ~StaticFancy(b)
             /\ t.pc = "read" /\ IsOdds(b) => NotLater(b, t.seen[b])'
             /\ /\ t.pc = "listed" /\ t.numbering = numbering' /\ t.section[b] = "matchOdds"
                /\ IsOdds(b) /\ b \notin t.due \union t.lost
                => selection'[b] = OwnNumber(b, numbering')
  <2>1. /\ b \in offer /\ status[b] # "none"
        /\ t.section[b] = "matchOdds" => ~StaticFancy(b)
        /\ t.pc = "read" /\ IsOdds(b) => NotLater(b, t.seen[b])
        /\ /\ t.pc = "listed" /\ t.numbering = numbering /\ t.section[b] = "matchOdds"
           /\ IsOdds(b) /\ b \notin t.due \union t.lost
           => selection[b] = OwnNumber(b, numbering)
    BY <1>1, <1>4 DEF ListInv
  <2>2. /\ status'[b] # "none"
        /\ \/ selection'[b] = selection[b]
           \/ numbering' = numbering /\ (IsOdds(b) => selection'[b] = OwnNumber(b, numbering))
    BY <2>1 DEF Onward
  <2>3. ASSUME t.pc = "read", IsOdds(b) PROVE NotLater(b, t.seen[b])'
    <3>1. PICK j, k \in 0..numbering : j <= k /\ t.seen[b] = OwnNumber(b, j) /\ selection[b] = OwnNumber(b, k)
      BY <2>1, <2>3 DEF NotLater
    <3>2. j \in 0..numbering' /\ k \in 0..numbering'
      BY <1>1
    <3>3. CASE selection'[b] = selection[b]
      BY <3>1, <3>2, <3>3 DEF NotLater, OwnNumber
    <3>4. CASE numbering' = numbering /\ selection'[b] = OwnNumber(b, numbering)
      <4>1. j <= numbering /\ numbering \in 0..numbering'
        BY <1>1, <3>4
      <4>2. QED BY <3>1, <3>2, <3>4, <4>1 DEF NotLater, OwnNumber
    <3>5. QED BY <2>2, <2>3, <3>3, <3>4
  <2>4. ASSUME t.pc = "listed", t.numbering = numbering', t.section[b] = "matchOdds",
               IsOdds(b), b \notin t.due \union t.lost
        PROVE  selection'[b] = OwnNumber(b, numbering')
    <3>1. t.numbering <= numbering
      BY <1>1, <2>4 DEF ListInv, None
    <3>2. numbering' = numbering
      BY <1>1, <2>4, <3>1
    <3>3. QED BY <2>1, <2>2, <2>4, <3>2
  <2>5. QED BY <2>1, <2>2, <2>3, <2>4
<1>5. QED BY <1>3, <1>4 DEF ListInv, Asking, Wins

\* From a request to the task that has become it.
LEMMA ListOfTask ==
  ASSUME NEW a \in Admins, NEW t, task'[a] = t, ListInv(t)'
  PROVE  ListInv(task[a])'
BY DEF ListInv, Asking, Wins, NotLater

\* A step that changes at most one request, and settles no bet.
LEMMA OneList ==
  ASSUME TypeInv, PaymentInv, Onward, NEW a \in Admins, NEW t, ListInv(t)',
         task' = [task EXCEPT ![a] = t]
  PROVE  \A c \in Admins : ListInv(task[c])'
<1> SUFFICES ASSUME NEW c \in Admins PROVE ListInv(task[c])'
  OBVIOUS
<1>1. CASE c = a
  <2>1. task'[c] = t
    BY <1>1 DEF TypeInv
  <2>2. QED BY <2>1, ListOfTask
<1>2. CASE c # a
  <2>1. task'[c] = task[c] /\ task[c] \in Requests /\ ListInv(task[c])
    BY <1>2 DEF TypeInv, PaymentInv
  <2>2. ASSUME NEW q \in Requests, q = task[c] PROVE ListInv(q)'
    <3>1. ListInv(q)
      BY <2>1, <2>2
    <3>2. QED BY <2>2, <3>1, ListStays
  <2>3. QED BY <2>1, <2>2, ListOfTask
<1>3. QED BY <1>1, <1>2

LEMMA SelectionsKept ==
  ASSUME TypeInv, SelectionInv, Onward,
         \A b \in offer : status[b] = "none" /\ status'[b] # "none" => selection'[b] = OwnNumber(b, numbering)
  PROVE  SelectionInv'
<1> SUFFICES ASSUME NEW b \in offer, IsOdds(b), status'[b] # "none"
             PROVE  \E k \in 0..numbering' : selection'[b] = OwnNumber(b, k)
  BY DEF SelectionInv, Onward, IsOdds, OwnNumber
<1>1. numbering \in 0..numbering' /\ 0..numbering \subseteq 0..numbering'
  BY Now DEF Onward
<1>2. CASE status[b] = "none"
  BY <1>1, <1>2
<1>3. CASE status[b] # "none"
  <2>1. \E k \in 0..numbering : selection[b] = OwnNumber(b, k)
    BY <1>3 DEF SelectionInv
  <2>2. selection'[b] = selection[b] \/ selection'[b] = OwnNumber(b, numbering)
    BY <1>3 DEF Onward
  <2>3. QED BY <1>1, <2>1, <2>2
<1>4. QED BY <1>2, <1>3

\* A step of one request that touches no bet's state or numbers.
LEMMA QuietPayment ==
  ASSUME TypeInv, PaymentInv, UNCHANGED <<offer, status, selection, numbering, basis>>,
         NEW a \in Admins, NEW t \in Requests, ListInv(t), task' = [task EXCEPT ![a] = t]
  PROVE  PaymentInv'
<1>1. Onward
  BY DEF Onward
<1>2. ListInv(t)'
  BY <1>1, ListStays
<1>3. \A c \in Admins : ListInv(task[c])'
  BY <1>1, <1>2, OneList
<1>4. SelectionInv'
  BY <1>1, SelectionsKept DEF PaymentInv
<1>5. BasisInv' /\ PaidByName'
  BY DEF PaymentInv, BasisInv, PaidByName
<1>6. QED BY <1>3, <1>4, <1>5 DEF PaymentInv

LEMMA IdleList == ListInv(Idle) /\ Idle.numbering = None
BY DEF ListInv, Idle, Asking

LEMMA EndPayment ==
  ASSUME TypeInv, PaymentInv, NEW a \in Admins, Close(a) \/ Fail(a)
  PROVE  PaymentInv'
<1>1. Step(a, Idle) /\ Idle \in Requests
  BY IdleType DEF Close, Fail, TypeInv
<1>2. QED BY <1>1, IdleList, QuietPayment DEF Step, betVars

LEMMA HistoryPayment ==
  ASSUME TypeInv, TypeInv', PaymentInv, NEW a \in Admins, ReadPage(a) \/ ReadEntries(a)
  PROVE  PaymentInv'
<1> DEFINE t == task'[a]
<1>1. UNCHANGED <<offer, status, selection, numbering, basis>>
  BY DEF ReadPage, ReadEntries, Step, betVars
<1>2. t \in Requests
  <2>1. Requests' = Requests
    BY <1>1 DEF Requests, Entries
  <2>2. QED BY <2>1 DEF TypeInv
<1>3. task' = [task EXCEPT ![a] = t] /\ task[a] \in Requests /\ ListInv(task[a])
  BY DEF ReadPage, ReadEntries, Step, TypeInv, PaymentInv
<1>4. ListInv(t)
  <2>1. CASE ReadPage(a)
    <3>1. t.pc = "page" /\ t.numbering = None /\ t.due = {}
      BY <1>3, <2>1 DEF ReadPage, Step, Idle, TypeInv
    <3> HIDE DEF t
    <3>2. QED BY <3>1 DEF ListInv, Asking
  <2>2. CASE ReadEntries(a)
    <3>1. t.pc = "history" /\ t.numbering = task[a].numbering /\ t.due = task[a].due
      BY <1>3, <2>2 DEF ReadEntries, Step, Requests, TypeInv
    <3> HIDE DEF t
    <3>2. QED BY <1>3, <3>1 DEF ListInv, Asking
  <2>3. QED BY <2>1, <2>2
<1> HIDE DEF t
<1>5. QED BY <1>1, <1>2, <1>3, <1>4, QuietPayment

\* A section of match odds holds no fancy bets.
LEMMA OddsNotFancy ==
  ASSUME TypeInv, IdsSuit, Labelled, NEW b \in offer,
         Section(b) = "matchOdds" \/ SectionWithoutFancy(b) = "matchOdds"
  PROVE  ~StaticFancy(b)
<1>1. Section(b) = "matchOdds"
  BY DEF SectionWithoutFancy
<1>2. Finds("MATCHODDS", b)
  BY <1>1, SectionFinds DEF KindFor
<1>3. QED BY <1>2 DEF Finds, FoundByMatchOdds, IsFancy, StaticFancy

LEMMA OverviewPayment ==
  ASSUME TypeInv, ControlInv, PaymentInv, NEW a \in Admins, NEW section \in [offer -> Sections],
         \A b \in offer : section[b] = "matchOdds" => ~StaticFancy(b),
         ReadOverview(a, section)
  PROVE  PaymentInv'
<1> DEFINE t == [Idle EXCEPT !.pc = "read", !.bets = {b \in Open : section[b] # "none"}, !.seen = selection,
                             !.section = [b \in offer |-> IF b \in Open THEN section[b] ELSE "none"]]
<1>1. t \in Requests
  <2>1. {b \in Open : section[b] # "none"} \in SUBSET offer
    BY DEF Open
  <2>2. [b \in offer |-> IF b \in Open THEN section[b] ELSE "none"] \in [offer -> Sections]
    BY DEF Sections
  <2>3. Idle \in Requests
    BY IdleType DEF TypeInv
  <2>4. QED BY <2>1, <2>2, <2>3 DEF TypeInv, Requests
<1>2. Step(a, t)
  BY DEF ReadOverview
<1>3. /\ t.pc = "read" /\ t.numbering = None /\ t.due = {} /\ t.seen = selection
      /\ \A b \in t.bets : b \in offer /\ status[b] = "PENDING" /\ t.section[b] = section[b]
  BY DEF Idle, Open
<1> HIDE DEF t
<1>4. ListInv(t)
  <2>1. ASSUME NEW b \in t.bets, IsOdds(b) PROVE NotLater(b, t.seen[b])
    <3>1. \E k \in 0..numbering : selection[b] = OwnNumber(b, k)
      BY <1>3, <2>1 DEF PaymentInv, SelectionInv
    <3>2. QED BY <1>3, <3>1 DEF NotLater
  <2>2. QED BY <1>3, <2>1 DEF ListInv, Asking
<1>5. QED BY <1>1, <1>2, <1>4, QuietPayment DEF Step, betVars

LEMMA UncheckedPayment ==
  ASSUME TypeInv, PaymentInv, NEW a \in Admins, ListUnchecked(a)
  PROVE  PaymentInv'
<1> DEFINE q == task[a]
           t == [q EXCEPT !.pc = "listed"]
<1>1. q \in Requests /\ ListInv(q) /\ q.pc = "read" /\ Step(a, t)
  BY RequestType DEF ListUnchecked, PaymentInv
<1>2. t \in Requests
  BY <1>1 DEF Requests
<1>3. t.pc = "listed" /\ t.numbering = None /\ t.due = q.due /\ t.bets = q.bets /\ t.section = q.section
  BY <1>1 DEF Requests, ListInv
<1> HIDE DEF t
<1>4. numbering # None
  BY Now DEF None
<1>5. ListInv(t)
  BY <1>1, <1>3, <1>4 DEF ListInv, Asking
<1>6. QED BY <1>1, <1>2, <1>5, QuietPayment DEF Step, betVars

\* The vendor's present numbers tell whether a bet has its own.
LEMMA CheckedPayment ==
  ASSUME TypeInv, PaymentInv, NumbersTell, NEW a \in Admins, ListChecked(a)
  PROVE  PaymentInv'
<1> DEFINE q == task[a]
           t == [q EXCEPT !.pc = "listed", !.numbering = numbering, !.due = ToCorrect(q), !.hidden = ToHide(q)]
<1>1. q \in Requests /\ ListInv(q) /\ q.pc = "read" /\ Step(a, t)
  BY RequestType DEF ListChecked, PaymentInv
<1>2. q.bets \subseteq offer /\ ToCorrect(q) \subseteq q.bets /\ ToHide(q) \subseteq q.bets
  BY <1>1 DEF ToCorrect, ToHide, InSection, Requests
<1>3. t \in Requests
  BY <1>1, <1>2 DEF Requests, TypeInv
<1>4. t.pc = "listed" /\ t.numbering = numbering /\ t.due = ToCorrect(q) /\ t.bets = q.bets /\ t.section = q.section
  BY <1>1 DEF Requests
<1> HIDE DEF t
<1>5. ASSUME NEW b \in q.bets, IsOdds(b), q.section[b] = "matchOdds"
      PROVE  /\ b \in ToCorrect(q) => 1 <= numbering
             /\ b \notin ToCorrect(q) => selection[b] = OwnNumber(b, numbering)
  <2>1. b \in offer /\ numbering \in Numberings /\ 0..numbering \subseteq Numberings /\ numbering \in Nat
    BY <1>2, Now DEF TypeInv
  <2>2. PICK j, k \in 0..numbering : j <= k /\ q.seen[b] = OwnNumber(b, j) /\ selection[b] = OwnNumber(b, k)
    BY <1>1, <1>5 DEF ListInv, NotLater
  <2>3. VendorIds("match odds") = IdsOf(b.market, numbering) /\ VendorNames("match odds") = Runners(b.market)
    <3>1. VendorMarket("match odds") = {b.market}
      BY <1>5, <2>1, OddsNumbers
    <3>2. VendorIds("match odds") = UNION {IdsOf(m, numbering) : m \in {b.market}}
      BY <3>1 DEF VendorIds
    <3>3. VendorNames("match odds") = UNION {Runners(m) : m \in {b.market}}
      BY <3>1 DEF VendorNames
    <3> HIDE DEF q, t
    <3>4. \A S : UNION {S} = S
      OBVIOUS
    <3>5. {IdsOf(m, numbering) : m \in {b.market}} = {IdsOf(b.market, numbering)}
      OBVIOUS
    <3>6. {Runners(m) : m \in {b.market}} = {Runners(b.market)}
      OBVIOUS
    <3>7. QED BY <3>2, <3>3, <3>4, <3>5, <3>6
  <2>4. b.name \in Runners(b.market)
    BY <1>5, <2>1, OddsNumbers
  <2>5. b \in ToCorrect(q) <=> q.seen[b] \notin IdsOf(b.market, numbering)
    BY <1>5, <2>3, <2>4 DEF ToCorrect, InSection
  <2>6. OwnNumber(b, numbering) \in IdsOf(b.market, numbering)
    BY <2>4 DEF IdsOf, OwnNumber
  <2>7. b \in ToCorrect(q) => 1 <= numbering
    <3>1. b \in ToCorrect(q) => j # numbering
      BY <2>2, <2>5, <2>6
    <3>2. QED BY <2>1, <3>1
  <2>8. ASSUME b \notin ToCorrect(q) PROVE selection[b] = OwnNumber(b, numbering)
    <3>1. PICK n \in Runners(b.market) : q.seen[b] = NumberOf[b.market][n][numbering]
      BY <2>5, <2>8 DEF IdsOf
    <3>2. OwnNumber(b, j) = NumberOf[b.market][n][numbering]
      BY <2>2, <3>1
    <3>3. \A i \in Numberings : j <= i /\ i <= numbering => OwnNumber(b, i) = OwnNumber(b, numbering)
      BY <1>5, <2>1, <2>2, <3>2, OddsNumbers
    <3>4. k \in Numberings /\ j <= k /\ k <= numbering
      BY <2>1, <2>2
    <3>5. QED BY <2>2, <3>3, <3>4
  <2>9. QED BY <2>7, <2>8
<1>6. \A b \in ToCorrect(q) : q.section[b] = "matchOdds"
  BY DEF ToCorrect, InSection
<1>7. \A b \in t.due : IsOdds(b) => 1 <= t.numbering
  BY <1>2, <1>4, <1>5, <1>6
<1>8. ASSUME NEW b \in t.bets
      PROVE  /\ status[b] # "none"
             /\ t.section[b] = "matchOdds" => ~StaticFancy(b)
             /\ t.section[b] = "matchOdds" /\ IsOdds(b) /\ b \notin t.due \union t.lost
                => selection[b] = OwnNumber(b, numbering)
  <2>1. status[b] # "none" /\ (t.section[b] = "matchOdds" => ~StaticFancy(b))
    BY <1>1, <1>4, <1>8 DEF ListInv
  <2>2. QED BY <1>4, <1>5, <1>8, <2>1
<1>9. ListInv(t)
  <2>1. t.numbering <= numbering
    BY <1>4, Now
  <2>2. QED BY <1>4, <1>7, <1>8, <2>1 DEF ListInv, Asking
<1>10. QED BY <1>1, <1>3, <1>9, QuietPayment DEF Step, betVars

\* A request one of whose corrections was written.
LEMMA CorrectedList ==
  ASSUME TypeInv, Onward, NEW q \in Requests, ListInv(q), NEW b, NEW t \in Requests,
         IsOdds(b) => numbering' = numbering /\ selection'[b] = OwnNumber(b, numbering),
         t.pc = q.pc, t.due = q.due \ {b}, t.lost = q.lost, t.bets = q.bets, t.section = q.section,
         t.seen = q.seen, t.numbering = q.numbering, t.sound = q.sound, t.kind = q.kind,
         t.winner = q.winner, t.numbers = q.numbers
  PROVE  ListInv(t)'
<1>1. ListInv(q)'
  BY ListStays
<1>2. ASSUME t.pc = "listed", NEW c \in t.bets, t.numbering = numbering', t.section[c] = "matchOdds",
             IsOdds(c), c \notin t.due \union t.lost
      PROVE  selection'[c] = OwnNumber(c, numbering')
  <2>1. CASE c = b
    BY <1>2, <2>1
  <2>2. CASE c # b
    BY <1>1, <1>2, <2>2 DEF ListInv
  <2>3. QED BY <2>1, <2>2
<1>3. /\ t.pc = "read" => t.numbering = None
      /\ t.numbering # None => t.numbering <= numbering'
      /\ \A c \in t.due : IsOdds(c) => 1 <= t.numbering
  BY <1>1 DEF ListInv
<1>4. t.pc \in {"read", "listed"} => \A c \in t.bets :
        /\ status'[c] # "none"
        /\ t.section[c] = "matchOdds" => ~StaticFancy(c)
        /\ t.pc = "read" /\ IsOdds(c) => NotLater(c, t.seen[c])'
  BY <1>1 DEF ListInv
<1>5. Asking(t) => \A c \in t.sound :
        IsOdds(c) => t.kind # "FANCY" /\ Wins(t, c) = ((c.name = t.winner) = (c.side = "BACK"))
  BY <1>1 DEF ListInv, Asking, Wins
<1>6. QED BY <1>2, <1>3, <1>4, <1>5 DEF ListInv, Asking, Wins

LEMMA CorrectionPayment ==
  ASSUME TypeInv, PaymentInv, NumbersTell, CorrectionsTimely, NEW a \in Admins, NEW b \in offer,
         Correct(a, b) \/ CorrectionFails(a, b)
  PROVE  PaymentInv'
<1>0. PICK q : q = task[a]
  OBVIOUS
<1>1. q \in Requests /\ Fitting(q) /\ ListInv(q) /\ b \in q.due
  BY <1>0, RequestType DEF Correct, CorrectionFails, PaymentInv
<1>2. q.due \subseteq offer /\ q.lost \subseteq offer
  BY <1>1 DEF Requests
<1>3. CASE CorrectionFails(a, b)
  <2> DEFINE t == [q EXCEPT !.due = @ \ {b}, !.lost = @ \union {b}]
  <2>1. t \in Requests /\ Step(a, t)
    BY <1>0, <1>1, <1>2, <1>3 DEF Requests, CorrectionFails
  <2>2. /\ t.pc = q.pc /\ t.due = q.due \ {b} /\ t.lost = q.lost \union {b}
        /\ t.bets = q.bets /\ t.section = q.section /\ t.seen = q.seen /\ t.numbering = q.numbering
        /\ t.sound = q.sound /\ t.kind = q.kind /\ t.winner = q.winner /\ t.numbers = q.numbers
    BY <1>1 DEF Requests
  <2> HIDE DEF t
  <2>3. ListInv(t)
    BY <1>1, <2>2 DEF ListInv, Asking, Wins
  <2>4. QED BY <2>1, <2>3, QuietPayment DEF Step, betVars
<1>4. CASE Correct(a, b)
  <2>0. PICK t : t = [q EXCEPT !.due = @ \ {b}]
    OBVIOUS
  <2>1. /\ t \in Requests /\ task' = [task EXCEPT ![a] = t]
        /\ UNCHANGED <<offer, status, numbering, basis>>
        /\ selection' = [selection EXCEPT ![b] = CorrectSelection(q, b)]
    BY <1>0, <1>1, <1>2, <1>4, <2>0 DEF Requests, Correct
  <2>2. /\ t.pc = q.pc /\ t.due = q.due \ {b} /\ t.lost = q.lost
        /\ t.bets = q.bets /\ t.section = q.section /\ t.seen = q.seen /\ t.numbering = q.numbering
        /\ t.sound = q.sound /\ t.kind = q.kind /\ t.winner = q.winner /\ t.numbers = q.numbers
    BY <1>1, <2>0 DEF Requests
  <2>3. \A c \in offer : c # b => selection'[c] = selection[c]
    BY <2>1 DEF TypeInv
  <2>4. IsOdds(b) => q.numbering = numbering /\ selection'[b] = OwnNumber(b, numbering)
    <3> SUFFICES ASSUME IsOdds(b) PROVE q.numbering = numbering /\ selection'[b] = OwnNumber(b, numbering)
      OBVIOUS
    <3>1. q.numbering = numbering
      BY <1>0, <1>1 DEF CorrectionsTimely, IsOdds
    <3>2. (CHOOSE m \in VendorMarket("match odds") : TRUE) = b.market
      <4>1. VendorMarket("match odds") = {b.market}
        BY OddsNumbers
      <4>2. QED BY <4>1
    <3>3. CorrectSelection(q, b) = OwnNumber(b, numbering)
      BY <3>1, <3>2 DEF CorrectSelection, OwnNumber
    <3>4. QED BY <2>1, <3>1, <3>3 DEF TypeInv
  <2>5. Onward
    BY <2>1, <2>3, <2>4 DEF Onward
  <2>7. ListInv(t)'
    BY <1>1, <2>1, <2>2, <2>4, <2>5, CorrectedList
  <2>8. \A c \in Admins : ListInv(task[c])'
    BY <2>1, <2>5, <2>7, OneList
  <2>9. SelectionInv'
    BY <2>1, <2>5, SelectionsKept DEF PaymentInv
  <2>10. BasisInv' /\ PaidByName'
    BY <2>1 DEF PaymentInv, BasisInv, PaidByName
  <2>11. QED BY <2>8, <2>9, <2>10 DEF PaymentInv
<1>5. QED BY <1>3, <1>4

LEMMA AskPayment ==
  ASSUME TypeInv, ControlInv, PaymentInv, NumbersTell,
         NEW a \in Admins, NEW kind \in Kinds, NEW m \in Markets, NEW n \in Runners(m), Ask(a, kind, m, n)
  PROVE  PaymentInv'
<1> DEFINE q == task[a]
           r == AskedFor(q, kind, m, n)
<1>1. r \in Requests /\ task' = [task EXCEPT ![a] = r]
  BY AskType
<1>2. q \in Requests /\ ListInv(q) /\ q.pc = "listed" /\ q.due = {} /\ q.bets \subseteq offer
  <2>1. q \in Requests /\ ListInv(q)
    BY RequestType DEF PaymentInv
  <2>2. q.pc = "listed" /\ q.due = {}
    BY DEF Ask, Listed
  <2>3. QED BY <2>1, <2>2 DEF Requests
<1>3. /\ r.pc = "asked" /\ r.numbering = None /\ r.due = {} /\ r.kind = kind /\ r.winner = n
      /\ r.seen = selection /\ r.numbers = NumberShown(q, m, n)
      /\ r.sound = IF q.numbering = numbering
                   THEN (InSection(q, "matchOdds") \ q.lost) \intersect FoundIn(kind, m) ELSE {}
  BY DEF AskedFor, Idle
<1> HIDE DEF r
<1>4. ASSUME NEW b \in r.sound, IsOdds(b)
      PROVE  r.kind # "FANCY" /\ Wins(r, b) = ((b.name = r.winner) = (b.side = "BACK"))
  <2>1. /\ q.numbering = numbering /\ b \in q.bets /\ q.section[b] = "matchOdds" /\ b \notin q.lost
        /\ b \in FoundIn(kind, m)
    BY <1>3, <1>4 DEF InSection
  <2>2. b \in offer /\ b.market = m /\ Finds(kind, b)
    BY <2>1 DEF FoundIn, Open
  <2>3. ~StaticFancy(b) /\ selection[b] = OwnNumber(b, numbering)
    BY <1>2, <1>4, <2>1 DEF ListInv
  <2>4. kind # "FANCY"
    BY <2>2, <2>3, FoundSuits DEF ControlInv, Suits
  <2>5. CASE kind = "TIED_MATCH"
    BY <1>3, <2>4, <2>5 DEF Wins
  <2>6. CASE kind # "TIED_MATCH"
    <3>1. numbering # None /\ numbering \in Numberings
      BY Now DEF None, TypeInv
    <3>2. r.numbers = {NumberOf[m][n][numbering]}
      BY <1>3, <2>1, <3>1 DEF NumberShown
    <3>3. OwnNumber(b, numbering) = NumberOf[m][n][numbering] <=> b.name = n
      <4>1. OwnNumber(b, numbering) = NumberOf[m][n][numbering] => n = b.name
        BY <1>4, <2>2, <3>1, OddsNumbers
      <4>2. QED BY <2>2, <4>1 DEF OwnNumber
    <3>4. r.seen[b] \in r.numbers <=> b.name = n
      BY <1>3, <2>3, <3>2, <3>3
    <3>5. QED BY <1>3, <2>4, <2>6, <3>4 DEF Wins
  <2>7. QED BY <2>5, <2>6
<1>5. ListInv(r)
  BY <1>3, <1>4 DEF ListInv
<1>6. UNCHANGED <<offer, status, selection, numbering, basis>>
  BY DEF Ask, betVars
<1>7. QED BY <1>1, <1>5, <1>6, QuietPayment

\* A request that goes on to be settled.
LEMMA TaggedPayment ==
  ASSUME TypeInv, PaymentInv, NEW a \in Admins, NEW pc \in {"tagged", "recorded"}, NEW outcome \in Outcomes,
         Asking(task[a]), task' = [task EXCEPT ![a].pc = pc, ![a].outcome = outcome],
         UNCHANGED <<offer, status, selection, numbering, basis>>
  PROVE  PaymentInv'
<1> DEFINE q == task[a]
           t == [q EXCEPT !.pc = pc, !.outcome = outcome]
<1>1. q \in Requests /\ ListInv(q) /\ task' = [task EXCEPT ![a] = t]
  BY RequestType DEF PaymentInv, TypeInv
<1>2. t \in Requests
  BY <1>1 DEF Requests
<1>3. /\ t.pc = pc /\ t.numbering = q.numbering /\ t.due = q.due
      /\ t.sound = q.sound /\ t.kind = q.kind /\ t.winner = q.winner /\ t.numbers = q.numbers /\ t.seen = q.seen
  BY <1>1 DEF Requests
<1> HIDE DEF t
<1>4. ListInv(t)
  BY <1>1, <1>3 DEF ListInv, Asking, Wins
<1>5. QED BY <1>1, <1>2, <1>4, QuietPayment

LEMMA ValidatePayment ==
  ASSUME TypeInv, PaymentInv, NEW a \in Admins, NEW answered \in BOOLEAN, NEW outcome \in Outcomes,
         Validate(a, answered, outcome)
  PROVE  PaymentInv'
BY TaggedPayment DEF Validate, Asking

LEMMA RecordPayment ==
  ASSUME TypeInv, PaymentInv, NEW a \in Admins, Record(a)
  PROVE  PaymentInv'
<1>1. task[a] \in Requests
  BY RequestType
<1>2. task[a].outcome \in Outcomes /\ task' = [task EXCEPT ![a].pc = "recorded", ![a].outcome = task[a].outcome]
  BY <1>1 DEF Record, TypeInv, Requests
<1>3. QED BY <1>2, TaggedPayment DEF Record, Asking, betVars

LEMMA CommitPayment ==
  ASSUME TypeInv, ControlInv, PaymentInv, NEW a \in Admins, Commit(a)
  PROVE  PaymentInv'
<1> DEFINE q == task[a]
<1>1. /\ q \in Requests /\ ListInv(q) /\ RequestInv(q) /\ q.pc = "recorded"
      /\ task' = [task EXCEPT ![a] = Idle]
      /\ UNCHANGED <<offer, selection, numbering>>
  BY RequestType DEF Commit, PaymentInv, ControlInv
<1>2. q.bets \subseteq offer /\ \A b \in q.bets : status[b] = "PENDING"
  BY <1>1 DEF RequestInv, Asking, Requests
<1>3. \A b \in offer \ q.bets : status'[b] = status[b] /\ basis'[b] = basis[b]
  BY DEF Commit
<1>4. ASSUME NEW b \in q.bets
      PROVE  /\ status'[b] \in Settled
             /\ basis'[b].sound =>
                  /\ b \in q.sound /\ basis'[b].winner = q.winner
                  /\ q.kind # "FANCY" => status'[b] = IF Wins(q, b) THEN "WON" ELSE "LOST"
  <2>1. b \in offer
    BY <1>2, <1>4
  <2>2. status'[b] \in Settled
    BY <1>4, <2>1 DEF Commit, Settled
  <2>3. basis'[b] = IF b \in q.sound /\ q.outcome # Void THEN [sound |-> TRUE, winner |-> q.winner] ELSE Unsound
    BY <1>4, <2>1 DEF Commit
  <2>4. basis'[b].sound => b \in q.sound /\ q.outcome # Void /\ basis'[b].winner = q.winner
    BY <2>3 DEF Unsound
  <2>5. q.outcome # Void /\ q.kind # "FANCY" => status'[b] = IF Wins(q, b) THEN "WON" ELSE "LOST"
    BY <1>4, <2>1 DEF Commit
  <2>6. QED BY <2>2, <2>4, <2>5
<1>5. Onward
  <2>1. \A b \in offer : status[b] # "none" => status'[b] # "none"
    BY <1>3, <1>4 DEF Settled
  <2>2. QED BY <1>1, <2>1 DEF Onward
<1>6. PICK t : t = Idle
  OBVIOUS
<1>6a. ListInv(t)'
  BY <1>6 DEF ListInv, Idle, Asking
<1>7. \A c \in Admins : ListInv(task[c])'
  BY <1>1, <1>5, <1>6, <1>6a, OneList
<1>8. SelectionInv'
  BY <1>1, <1>2, <1>3, <1>5, SelectionsKept DEF PaymentInv
<1>9. BasisInv'
  BY <1>1, <1>3, <1>4 DEF PaymentInv, BasisInv
<1>10. PaidByName'
  <2> SUFFICES ASSUME NEW b \in offer, basis'[b].sound, IsOdds(b)
               PROVE  (status'[b] = "WON") = ((b.name = basis'[b].winner) = (b.side = "BACK"))
    BY <1>1 DEF PaidByName, IsOdds
  <2>1. CASE b \in q.bets
    <3>1. b \in q.sound /\ basis'[b].winner = q.winner
      BY <1>4, <2>1
    <3>2. q.kind # "FANCY" /\ Wins(q, b) = ((b.name = q.winner) = (b.side = "BACK"))
      BY <1>1, <3>1 DEF ListInv, Asking
    <3>3. (status'[b] = "WON") = Wins(q, b)
      <4>1. Wins(q, b) \in BOOLEAN
        BY DEF Wins
      <4>2. QED BY <1>4, <2>1, <3>2, <4>1
    <3>4. QED BY <3>1, <3>2, <3>3
  <2>2. CASE b \notin q.bets
    BY <1>3, <2>2 DEF PaymentInv, PaidByName, IsOdds
  <2>3. QED BY <2>1, <2>2
<1>11. QED BY <1>7, <1>8, <1>9, <1>10 DEF PaymentInv

\* Steps that leave the requests as they are.
LEMMA OpeningPayment ==
  ASSUME TypeInv, PaymentInv,
         (\E b \in offer : Place(b)) \/ (\E s \in Ids : Rollback(s)) \/ Renumber \/ Forget \/ UNCHANGED vars
  PROVE  PaymentInv'
<1>1. UNCHANGED <<offer, task>>
  BY DEF Place, Rollback, Renumber, Forget, vars
<1>2. \A b \in offer : status[b] # "none" => status'[b] # "none" /\ selection'[b] = selection[b]
  BY DEF Place, Rollback, Renumber, Forget, vars, betVars, TypeInv
<1>3. numbering' \in {numbering, numbering + 1}
  BY DEF Place, Rollback, Renumber, Forget, vars
<1>4. \A b \in offer : status[b] = "none" /\ status'[b] # "none" => selection'[b] = OwnNumber(b, numbering)
  <2>1. ASSUME NEW c \in offer, Place(c), NEW b \in offer, status[b] = "none", status'[b] # "none"
        PROVE  selection'[b] = OwnNumber(b, numbering)
    BY <2>1 DEF Place, TypeInv, OwnNumber
  <2>2. ASSUME NEW s \in Ids, Rollback(s), NEW b \in offer, status[b] = "none"
        PROVE  status'[b] = "none"
    BY <2>2 DEF Rollback, SettledUnder, Settled
  <2>3. CASE Renumber \/ Forget \/ UNCHANGED vars
    BY <2>3 DEF Renumber, Forget, vars, betVars
  <2>4. QED BY <2>1, <2>2, <2>3
<1>5. Onward
  BY <1>1, <1>2, <1>3 DEF Onward
<1>6. SelectionInv'
  BY <1>4, <1>5, SelectionsKept DEF PaymentInv
<1>7. \A c \in Admins : ListInv(task[c])'
  <2> SUFFICES ASSUME NEW c \in Admins PROVE ListInv(task[c])'
    OBVIOUS
  <2>1. ASSUME NEW q, q = task[c] PROVE ListInv(q)'
    <3>1. q \in Requests /\ ListInv(q)
      BY <2>1 DEF TypeInv, PaymentInv
    <3>2. QED BY <1>5, <3>1, ListStays
  <2>2. task'[c] = task[c]
    BY <1>1
  <2>3. QED BY <2>1, <2>2, ListOfTask
<1>8. \A b \in offer : \/ status'[b] = status[b] /\ basis'[b] = basis[b]
                       \/ ~basis'[b].sound
  <2>1. ASSUME NEW c \in offer, Place(c), NEW b \in offer
        PROVE  (status'[b] = status[b] /\ basis'[b] = basis[b]) \/ ~basis'[b].sound
    BY <2>1 DEF Place, TypeInv, PaymentInv, BasisInv, Settled
  <2>2. ASSUME NEW s \in Ids, Rollback(s), NEW b \in offer
        PROVE  (status'[b] = status[b] /\ basis'[b] = basis[b]) \/ ~basis'[b].sound
    BY <2>2 DEF Rollback, Unsound
  <2>3. CASE Renumber \/ Forget \/ UNCHANGED vars
    BY <2>3 DEF Renumber, Forget, vars, betVars
  <2>4. QED BY <2>1, <2>2, <2>3
<1>9. BasisInv' /\ PaidByName'
  <2>1. ASSUME NEW b \in offer, basis'[b].sound
        PROVE  /\ status'[b] \in Settled
               /\ IsOdds(b) => (status'[b] = "WON") = ((b.name = basis'[b].winner) = (b.side = "BACK"))
    <3>1. status'[b] = status[b] /\ basis'[b] = basis[b]
      BY <1>8, <2>1
    <3>2. QED BY <2>1, <3>1 DEF PaymentInv, BasisInv, PaidByName, IsOdds
  <2>2. QED BY <1>1, <2>1 DEF BasisInv, PaidByName, IsOdds
<1>10. QED BY <1>6, <1>7, <1>9 DEF PaymentInv

LEMMA PaymentInit == Init => PaymentInv
<1> SUFFICES ASSUME Init PROVE PaymentInv
  OBVIOUS
<1>1. \A a \in Admins : ListInv(task[a])
  <2> SUFFICES ASSUME NEW a \in Admins PROVE ListInv(task[a])
    OBVIOUS
  <2>1. task[a] = Idle
    BY DEF Init
  <2>2. QED BY <2>1, IdleList
<1>2. \A b \in offer : status[b] = "none" /\ ~basis[b].sound
  BY DEF Init, Unsound
<1>3. QED BY <1>1, <1>2 DEF PaymentInv, SelectionInv, BasisInv, PaidByName

LEMMA PaymentStep ==
  ASSUME Labelled, NumbersTell
  PROVE  TypeInv /\ ControlInv /\ PaymentInv /\ CorrectionsTimely /\ [Next]_vars => PaymentInv'
<1> SUFFICES ASSUME TypeInv, ControlInv, PaymentInv, CorrectionsTimely, [Next]_vars PROVE PaymentInv'
  OBVIOUS
<1>0. TypeInv' /\ IdsSuit
  BY TypeStep DEF ControlInv
<1>1. CASE \/ \E b \in offer : Place(b)
           \/ Renumber \/ Forget \/ (\E s \in Ids : Rollback(s)) \/ UNCHANGED vars
  BY <1>1, OpeningPayment
<1>2. ASSUME NEW a \in Admins, ReadOverview(a, [b \in offer |-> Section(b)])
      PROVE  PaymentInv'
  <2> DEFINE section == [b \in offer |-> Section(b)]
  <2>1. section \in [offer -> Sections] /\ \A b \in offer : section[b] = "matchOdds" => ~StaticFancy(b)
    BY <1>0, SectionsTyped, OddsNotFancy
  <2> HIDE DEF section
  <2>2. ReadOverview(a, section)
    BY <1>2 DEF section
  <2>3. QED BY <2>1, <2>2, OverviewPayment
<1>3. ASSUME NEW a \in Admins, ReadOverview(a, [b \in offer |-> SectionWithoutFancy(b)])
      PROVE  PaymentInv'
  <2> DEFINE section == [b \in offer |-> SectionWithoutFancy(b)]
  <2>1. section \in [offer -> Sections] /\ \A b \in offer : section[b] = "matchOdds" => ~StaticFancy(b)
    BY <1>0, SectionsTyped, OddsNotFancy
  <2> HIDE DEF section
  <2>2. ReadOverview(a, section)
    BY <1>3 DEF section
  <2>3. QED BY <2>1, <2>2, OverviewPayment
<1>4. ASSUME NEW a \in Admins, ListUnchecked(a) \/ ListChecked(a)
      PROVE  PaymentInv'
  BY <1>4, UncheckedPayment, CheckedPayment
<1>5. ASSUME NEW a \in Admins, NEW b \in offer, Correct(a, b) \/ CorrectionFails(a, b)
      PROVE  PaymentInv'
  BY <1>5, CorrectionPayment
<1>6. ASSUME NEW a \in Admins, Close(a) \/ Fail(a) \/ ReadPage(a) \/ ReadEntries(a)
      PROVE  PaymentInv'
  BY <1>0, <1>6, EndPayment, HistoryPayment
<1>7. ASSUME NEW a \in Admins, NEW kind \in Kinds, NEW m \in Markets, NEW n \in Runners(m), Ask(a, kind, m, n)
      PROVE  PaymentInv'
  BY <1>7, AskPayment
<1>8. ASSUME NEW a \in Admins, NEW answered \in BOOLEAN, NEW outcome \in Outcomes,
             Validate(a, answered, outcome)
      PROVE  PaymentInv'
  BY <1>8, ValidatePayment
<1>9. ASSUME NEW a \in Admins, Record(a) \/ Commit(a)
      PROVE  PaymentInv'
  BY <1>9, RecordPayment, CommitPayment
<1>10. QED BY <1>1, <1>2, <1>3, <1>4, <1>5, <1>6, <1>7, <1>8, <1>9 DEF Next, Ids

\* With one renumbering at most, corrections are always in time: none are due
\* before it, and it is the last.
LEMMA TimelyWithOne ==
  ASSUME MaxNumbering <= 1, TypeInv, PaymentInv
  PROVE  CorrectionsTimely
<1> SUFFICES ASSUME NEW a \in Admins, NEW b \in task[a].due, IsOdds(b) PROVE task[a].numbering = numbering
  BY DEF CorrectionsTimely, IsOdds
<1>1. task[a] \in Requests /\ ListInv(task[a])
  BY RequestType DEF PaymentInv
<1>2. task[a].numbering \in 0..MaxNumbering \union {None} /\ numbering \in 0..MaxNumbering
  BY <1>1 DEF Requests, TypeInv, Numberings
<1>3. 1 <= task[a].numbering /\ (task[a].numbering # None => task[a].numbering <= numbering)
  BY <1>1 DEF ListInv
<1>4. QED BY <1>2, <1>3, Bounds DEF None

\* A match odds bet is paid by the runner it was placed on as long as the vendor
\* renumbers its runners once at most while administrators look at them.
THEOREM PaidByNameOnce ==
  ASSUME Labelled, NumbersTell, MaxNumbering <= 1 PROVE Spec => []PaidByName
<1> DEFINE Inv == TypeInv /\ ControlInv /\ PaymentInv
<1>1. Init => Inv
  BY TypeInit, ControlInit, PaymentInit
<1>2. Inv /\ [Next]_vars => Inv'
  BY TypeStep, ControlStep, PaymentStep, TimelyWithOne
<1>3. Inv => PaidByName
  BY DEF PaymentInv
<1>4. QED BY <1>1, <1>2, <1>3, PTL DEF Spec

\* However often it renumbers them, if corrections are written before it does so
\* again.
THEOREM PaidByNameTimely ==
  ASSUME Labelled, NumbersTell PROVE Spec /\ []CorrectionsTimely => []PaidByName
<1> DEFINE Inv == TypeInv /\ ControlInv /\ PaymentInv
<1>1. Init => Inv
  BY TypeInit, ControlInit, PaymentInit
<1>2. Inv /\ CorrectionsTimely /\ [Next]_vars => Inv'
  BY TypeStep, ControlStep, PaymentStep
<1>3. Inv => PaidByName
  BY DEF PaymentInv
<1>4. QED BY <1>1, <1>2, <1>3, PTL DEF Spec

=============================================================================
