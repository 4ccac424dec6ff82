-------------------------- MODULE BookAndFeedProofs --------------------------
(***************************************************************************)
(* Theorems about two small machines that share no state: a client's book  *)
(* in one market, and the vendor's data on its way to clients.             *)
(*                                                                         *)
(* The book: what a client's bets lock is what they can lose, for every    *)
(* market, all its runners, and every book, however the bets came.  The    *)
(* deltas that placement adds up telescope, so that the sum locked is the  *)
(* exposure of the book there is (BookInv); what that exposure is worth is *)
(* a fact about each service's formula.                                    *)
(*                                                                         *)
(* The feed: nobody is given data older than the caches and requests on    *)
(* its way allow, and a hidden match stays off the lists, for any times to *)
(* live and any numbers of readers and polls.  An age and the time an      *)
(* entry or an answer has left add up to a bound, which a tick leaves as   *)
(* it is (FeedInv).                                                        *)
(***************************************************************************)
EXTENDS ExposureBook, OddsFeed, MoneyTheorems

-----------------------------------------------------------------------------
(* The book *)

\* The exposure the service of a kind of market computes.
ExposureIn(m, bets) ==
  CASE m = "matchodds" -> MatchOddsExposure(bets)
    [] m = "bookmaker" -> BookmakerExposure(bets)
    [] m = "fancy"     -> FancyExposure(bets)

\* Finitely many of the bets a market offers.
Offered(m, bets) == m \in Markets /\ IsFiniteSet(bets) /\ bets \subseteq Offers(m)

BookInv == Offered(market, book) /\ locked = ExposureIn(market, book)

LEMMA OddsBook ==
  ASSUME NEW m \in {"matchodds", "bookmaker"}, NEW bets, Offered(m, bets)
  PROVE  Book(bets) /\ Selections(bets) \subseteq Runners
<1>1. \A b \in bets : b \in Offers("matchodds") \union Offers("bookmaker")
  BY DEF Offered
<1>2. QED BY <1>1, OffersAssumption DEF Book, Offered, Selections

LEMMA RunsBook ==
  ASSUME NEW bets, Offered("fancy", bets)
  PROVE  LineBook(bets)
BY OffersAssumption DEF LineBook, Offered

-----------------------------------------------------------------------------
(* The amount locked is the exposure of the book. *)

LEMMA EmptyBook == \A m \in Markets : ExposureIn(m, {}) = 0
<1>1. Book({}) /\ LineBook({})
  BY FS_EmptySet DEF Book, LineBook
<1>2. MatchOddsExposure({}) = 0
  <2> DEFINE locks == [b \in {} |-> 0]
  <2>1. MatchOddsExposure({}) = Sum(locks, {})
    BY <1>1, OneSidedExposure
  <2>2. QED BY <2>1, SumEmpty
<1>3. BookmakerExposure({}) = 0
  BY <1>1, <1>2, OneSidedBookmaker
<1>4. QED BY <1>2, <1>3, NoFancyExposure, MarketsAssumption DEF ExposureIn

LEMMA ExposureNatural ==
  ASSUME NEW m, NEW bets, Offered(m, bets)
  PROVE  ExposureIn(m, bets) \in Nat
<1>1. CASE m \in {"matchodds", "bookmaker"}
  BY <1>1, OddsBook, MatchOddsExposureNatural, BookmakerExposureNatural DEF ExposureIn
<1>2. CASE m = "fancy"
  BY <1>2, RunsBook, FancyExposureNatural DEF ExposureIn
<1>3. QED BY <1>1, <1>2, MarketsAssumption DEF Offered

LEMMA PlaceKeeps ==
  ASSUME BookInv, NEW b \in Offers(market), Place(b)
  PROVE  BookInv'
<1>1. Offered(market, book \union {b})
  BY FS_AddElement DEF BookInv, Offered
<1>2. Delta(book, b) = ExposureIn(market, book \union {b}) - ExposureIn(market, book)
  <2>1. market \in {"matchodds", "bookmaker", "fancy"}
    BY <1>1, MarketsAssumption DEF Offered
  <2>2. QED BY <2>1 DEF Delta, ExposureIn, MatchOddsDelta, BookmakerDelta, FancyDelta
<1>3. ExposureIn(market, book) \in Int /\ ExposureIn(market, book \union {b}) \in Int
  BY <1>1, ExposureNatural DEF BookInv
<1>4. locked' = ExposureIn(market, book \union {b})
  BY <1>2, <1>3 DEF BookInv, Place
<1>5. QED BY <1>1, <1>4 DEF BookInv, Place

\* Whatever bets came, in whatever order, what is locked is the exposure of the
\* book they make.
THEOREM LockedIsExposure == BookSpec => []BookInv
<1>1. BookInit => BookInv
  BY FS_EmptySet, EmptyBook DEF BookInit, BookInv, Offered
<1>2. BookInv /\ [BookNext]_bookVars => BookInv'
  <2> SUFFICES ASSUME BookInv, [BookNext]_bookVars PROVE BookInv'
    OBVIOUS
  <2>1. CASE BookNext
    BY <2>1, PlaceKeeps DEF BookNext
  <2>2. CASE UNCHANGED bookVars
    BY <2>2 DEF bookVars, BookInv
  <2>3. QED BY <2>1, <2>2
<1>3. QED BY <1>1, <1>2, PTL DEF BookSpec

\* The shape of the state; no client is locked less than nothing.
THEOREM TypeCorrect == BookSpec => []TypeOK
<1>1. BookInv => TypeOK
  BY ExposureNatural DEF BookInv, Offered, TypeOK
<1>2. QED BY <1>1, LockedIsExposure, PTL

-----------------------------------------------------------------------------
(* What the outcomes of a market can do to a book. *)

\* The results of a book, win who may.
RunnerResults(bets) == {NetIfWins(bets, r) : r \in Runners}

LEMMA RunnerResultsFinite ==
  ASSUME NEW bets, Book(bets)
  PROVE  IsFiniteSet(RunnerResults(bets)) /\ \A r \in RunnerResults(bets) : r \in Int
<1> DEFINE wins == [r \in Runners |-> NetIfWins(bets, r)]
           W == {wins[r] : r \in Runners}
<1>1. W = RunnerResults(bets)
  BY DEF RunnerResults
<1>2. IsFiniteSet(W)
  BY ImageFinite, OffersAssumption
<1>3. QED BY <1>1, <1>2, NetInteger DEF RunnerResults

\* A runner nobody bet upon makes every bet's selection lose.
LEMMA Unbacked ==
  ASSUME NEW bets, NEW r, r \notin Selections(bets)
  PROVE  NetIfWins(bets, r) = NetIfAllLose(bets)
<1>1. [b \in bets |-> Earns(b, b.selection = r)] = [b \in bets |-> Earns(b, FALSE)]
  <2>1. \A b \in bets : (b.selection = r) = FALSE
    BY DEF Selections
  <2>2. \A b \in bets : Earns(b, b.selection = r) = Earns(b, FALSE)
    BY <2>1
  <2>3. QED BY <2>2
<1>2. QED BY <1>1 DEF NetIfWins, NetIfAllLose

\* A set with at most one element has no two.
LEMMA AtMostOne ==
  ASSUME NEW S, IsFiniteSet(S), Cardinality(S) <= 1
  PROVE  \A x, y \in S : x = y
<1>1. Cardinality(S) \in Nat
  BY FS_CardinalityType
<1>2. Cardinality(S) = 0 \/ Cardinality(S) = 1
  BY <1>1
<1>3. QED BY <1>2, FS_EmptySet, FS_Singleton

\* What the match odds service simulates are results the market can have,
LEMMA SimulatedPossible ==
  ASSUME NEW bets, Book(bets), Selections(bets) \subseteq Runners
  PROVE  Simulated(bets) \subseteq RunnerResults(bets)
<1>1. ASSUME Cardinality(Selections(bets)) = 1
      PROVE  NetIfAllLose(bets) \in RunnerResults(bets)
  <2>1. IsFiniteSet(Selections(bets))
    BY SelectionsFinite DEF Book
  <2>2. PICK r \in Runners : r \notin Selections(bets)
    BY <1>1, <2>1, AtMostOne, OffersAssumption
  <2>3. QED BY <2>2, Unbacked DEF RunnerResults
<1>2. QED BY <1>1 DEF Simulated, RunnerResults

\* and all of them if every runner carries a bet, or at most one does.
LEMMA PossibleSimulated ==
  ASSUME NEW bets, Book(bets), Selections(bets) \subseteq Runners, bets # {},
         Selections(bets) = Runners \/ Cardinality(Selections(bets)) <= 1
  PROVE  RunnerResults(bets) \subseteq Simulated(bets)
<1>1. CASE Selections(bets) = Runners
  BY <1>1 DEF Simulated, RunnerResults
<1>2. CASE Cardinality(Selections(bets)) <= 1
  <2>1. IsFiniteSet(Selections(bets)) /\ Selections(bets) # {}
    BY SelectionsFinite DEF Book, Selections
  <2>2. Cardinality(Selections(bets)) = 1
    BY <1>2, <2>1, FS_CardinalityType, FS_EmptySet
  <2>3. QED BY <2>2, Unbacked DEF Simulated, RunnerResults
<1>3. QED BY <1>1, <1>2

\* The worst loss of results that all are nothing.
LEMMA NothingLost ==
  ASSUME NEW R, IsFiniteSet(R), \A r \in R : r = 0
  PROVE  WorstLoss(R) = 0
<1>1. WorstLoss(R) = 0 \/ \E r \in R : WorstLoss(R) = -r
  BY WorstLossOfResults
<1>2. QED BY <1>1

LEMMA MatchOddsWorstLoss ==
  ASSUME NEW bets, Book(bets), Selections(bets) \subseteq Runners,
         Selections(bets) = Runners \/ Cardinality(Selections(bets)) <= 1
  PROVE  MatchOddsExposure(bets) = WorstLoss(RunnerResults(bets))
<1>1. CASE bets = {}
  <2>1. \A r \in RunnerResults(bets) : r = 0
    BY <1>1, SumEmpty DEF RunnerResults, NetIfWins
  <2>2. WorstLoss(RunnerResults(bets)) = 0
    BY <2>1, RunnerResultsFinite, NothingLost
  <2>3. Simulated(bets) = {}
    BY <1>1, FS_EmptySet DEF Simulated, Selections
  <2>4. WorstLoss({}) = 0
    BY NothingLost, FS_EmptySet
  <2>5. QED BY <2>2, <2>3, <2>4, SimulatedResults
<1>2. CASE bets # {}
  <2>1. Simulated(bets) \subseteq RunnerResults(bets)
    BY SimulatedPossible
  <2>2. RunnerResults(bets) \subseteq Simulated(bets)
    BY <1>2, PossibleSimulated
  <2>3. Simulated(bets) = RunnerResults(bets)
    BY <2>1, <2>2
  <2>4. QED BY <2>3, SimulatedResults
<1>3. QED BY <1>1, <1>2

\* No result of which another set is made loses more.
LEMMA NoLoss ==
  ASSUME NEW R, NEW S, IsFiniteSet(S), \A r \in S : r \in Int, R \subseteq S, WorstLoss(S) = 0
  PROVE  WorstLoss(R) = 0
<1>1. IsFiniteSet(R) /\ \A r \in R : r \in Int /\ -r <= 0
  BY FS_Subset, WorstLossOfResults
<1>2. WorstLoss(R) \in Nat /\ (WorstLoss(R) = 0 \/ \E r \in R : WorstLoss(R) = -r)
  BY <1>1, WorstLossOfResults
<1>3. QED BY <1>1, <1>2

LEMMA BookmakerWorstLoss ==
  ASSUME NEW bets, Book(bets), Selections(bets) \subseteq Runners,
         Cardinality({<<b.selection, b.side>> : b \in bets}) <= 1
  PROVE  BookmakerExposure(bets) = WorstLoss(RunnerResults(bets))
<1> DEFINE on == [b \in bets |-> <<b.selection, b.side>>]
<1>1. IsFiniteSet({on[b] : b \in bets})
  BY ImageFinite DEF Book
<1>2. {on[b] : b \in bets} = {<<b.selection, b.side>> : b \in bets}
  OBVIOUS
<1>3. \A b, c \in bets : on[b] = on[c]
  <2> DEFINE S == {on[b] : b \in bets}
  <2>1. \A x, y \in S : x = y
    <3> HIDE DEF S
    <3>1. IsFiniteSet(S) /\ Cardinality(S) <= 1
      BY <1>1, <1>2 DEF S
    <3>2. QED BY <3>1, AtMostOne
  <2> HIDE DEF on
  <2>2. QED BY <2>1
<1>4. \A b, c \in bets : b.selection = c.selection /\ b.side = c.side
  BY <1>3
<1>5. Cardinality(Selections(bets)) <= 1
  <2>1. CASE bets = {}
    <3>1. Selections(bets) = {}
      BY <2>1 DEF Selections
    <3>2. QED BY <3>1, FS_EmptySet
  <2>2. CASE bets # {}
    <3>1. PICK b \in bets : TRUE
      BY <2>2
    <3>2. Selections(bets) = {b.selection}
      BY <1>4 DEF Selections
    <3>3. Cardinality({b.selection}) = 1
      BY FS_Singleton
    <3>4. QED BY <3>2, <3>3
  <2>3. QED BY <2>1, <2>2
<1>6. BookmakerExposure(bets) = MatchOddsExposure(bets)
  BY <1>4, OneSidedBookmaker
<1>7. QED BY <1>5, <1>6, MatchOddsWorstLoss

-----------------------------------------------------------------------------
(* The two theorems. *)

LEMMA WorstIs ==
  ASSUME BookInv
  PROVE  /\ market = "fancy" =>
              WorstPossibleLoss = WorstLoss({FancyPnl(book, runs) : runs \in 0 .. MaxOutcome})
         /\ market # "fancy" => WorstPossibleLoss = WorstLoss(RunnerResults(book))
BY DEF WorstPossibleLoss, PossibleResults, RunnerResults

LEMMA FancyLocksWorstLoss ==
  ASSUME BookInv, market = "fancy"
  PROVE  locked = WorstPossibleLoss
<1>1. LineBook(book) /\ locked = FancyExposure(book)
  BY RunsBook DEF BookInv, ExposureIn
<1>2. QED BY <1>1, WorstIs, FancyExposureIsWorstLoss

\* The amount locked is what the client can lose at most over every outcome of
\* the market, whatever runners it has and whatever the bets and their order
\* (LockedIsWorstLoss).
THEOREM LocksWhatCanBeLost == BookSpec => []LockedIsWorstLoss
<1>1. BookInv => LockedIsWorstLoss
  <2> SUFFICES ASSUME BookInv, EveryOutcomeSimulated PROVE locked = WorstPossibleLoss
    BY DEF LockedIsWorstLoss
  <2>1. CASE market = "matchodds"
    <3>1. Book(book) /\ Selections(book) \subseteq Runners /\ locked = MatchOddsExposure(book)
      BY <2>1, OddsBook DEF BookInv, ExposureIn
    <3>2. Selections(book) = Runners \/ Cardinality(Selections(book)) <= 1
      BY <2>1 DEF EveryOutcomeSimulated
    <3>3. QED BY <2>1, <3>1, <3>2, MatchOddsWorstLoss, WorstIs
  <2>2. CASE market = "bookmaker"
    <3>1. Book(book) /\ Selections(book) \subseteq Runners /\ locked = BookmakerExposure(book)
      BY <2>2, OddsBook DEF BookInv, ExposureIn
    <3>2. Cardinality({<<b.selection, b.side>> : b \in book}) <= 1
      BY <2>2 DEF EveryOutcomeSimulated
    <3>3. QED BY <2>2, <3>1, <3>2, BookmakerWorstLoss, WorstIs
  <2>3. CASE market = "fancy"
    BY <2>3, FancyLocksWorstLoss
  <2>4. QED BY <2>1, <2>2, <2>3, MarketsAssumption DEF BookInv, Offered
<1>2. QED BY <1>1, LockedIsExposure, PTL

\* A book no outcome of which loses money locks nothing
\* (RisklessBookLocksNothing).
THEOREM OffsetsReleaseAll == BookSpec => []RisklessBookLocksNothing
<1>1. BookInv => RisklessBookLocksNothing
  <2> SUFFICES ASSUME BookInv, market # "bookmaker", WorstPossibleLoss = 0 PROVE locked = 0
    BY DEF RisklessBookLocksNothing
  <2>1. CASE market = "matchodds"
    <3>1. Book(book) /\ Selections(book) \subseteq Runners /\ locked = MatchOddsExposure(book)
      BY <2>1, OddsBook DEF BookInv, ExposureIn
    <3>2. WorstLoss(RunnerResults(book)) = 0
      BY <2>1, WorstIs
    <3>3. Simulated(book) \subseteq RunnerResults(book)
      BY <3>1, SimulatedPossible
    <3>4. WorstLoss(Simulated(book)) = 0
      BY <3>1, <3>2, <3>3, RunnerResultsFinite, NoLoss
    <3>5. QED BY <3>1, <3>4, SimulatedResults
  <2>2. CASE market = "fancy"
    BY <2>2, FancyLocksWorstLoss
  <2>3. QED BY <2>1, <2>2, MarketsAssumption DEF BookInv, Offered
<1>2. QED BY <1>1, LockedIsExposure, PTL

-----------------------------------------------------------------------------
(* The feed: the invariant *)

Kinds == {"read", "direct", "live", "poll"}
DataOfLane == [v : 1..lane.versions, closed : BOOLEAN, listed : BOOLEAN, blind : BOOLEAN]
Wait == 0..lane.outer

Asking == [pc : {"lookup", "redis", "ask"}, kind : Kinds, left : Wait, tries : Nat]
InFlight == [pc : {"flight"}, kind : Kinds, left : Wait, tries : Nat, data : DataOfLane,
             flight : 0..MaxFlight]
Holding == [pc : {"got", "visibility"}, kind : Kinds, left : Wait, data : DataOfLane]
Given == [pc : {"deliver"}, kind : Kinds, data : DataOfLane]
TaskState == {Idle, [pc |-> "failed"]} \union Asking \union InFlight \union Holding \union Given

\* Polls are of odds and lines, placements ask for odds and no cache, visibility is of lists.
KindOK(s) ==
  s.pc \notin {"idle", "failed"} =>
    /\ s.kind \in {"live", "poll"} => Polled
    /\ s.kind = "live" => lane.name = "odds" /\ s.pc \notin {"lookup", "redis"}
    /\ s.pc = "visibility" => lane.name = "list"

\* How old what a cache gave may be.
Stale(kind) == IF kind = "live" THEN MaxFlight ELSE MaxFlight + lane.inner - 1

AgeOK(s) ==
  /\ s.pc = "flight" => gone[s.data.v] + s.flight <= MaxFlight
  /\ s.pc \in {"got", "visibility"} => s.data.closed \/ gone[s.data.v] <= Stale(s.kind)
  /\ s.pc = "deliver" => s.data.closed \/ gone[s.data.v] <= Oldest(s.kind)

ListsHidden(data) == lane.name = "list" /\ decided = "hidden" /\ data.listed /\ ~data.blind

HiddenOK(s) == s.pc = "deliver" /\ s.kind = "read" => (ListsHidden(s.data) => decidedFor < lane.outer)

TaskOK(s) == s \in TaskState /\ KindOK(s) /\ AgeOK(s) /\ HiddenOK(s)

VendorOK ==
  /\ lane \in Lanes
  /\ version \in 1..lane.versions /\ closed \in BOOLEAN
  /\ gone \in [1..lane.versions -> Nat]
  /\ \A v \in 1..lane.versions : v >= version => gone[v] = 0

CachedFor(ticks) == {NoEntry} \union [data : DataOfLane, left : ticks]

InnerOK ==
  /\ inner \in CachedFor(Nat \ {0})
  /\ inner.left > 0 =>
       inner.data.closed \/ gone[inner.data.v] + inner.left <= MaxFlight + lane.inner

OuterOK ==
  /\ outer \in CachedFor(1..lane.outer)
  /\ outer.left > 0 =>
       /\ \/ outer.data.closed
          \/ gone[outer.data.v] + outer.left <= MaxFlight + lane.inner - 1 + lane.outer
       /\ ListsHidden(outer.data) => decidedFor + outer.left <= lane.outer

VisibilityOK ==
  /\ decidedFor \in 0..lane.outer
  /\ decided = "hidden" => enabled = "hidden"

TasksOK ==
  /\ task \in [Tasks -> TaskState]
  /\ \A t \in Tasks : TaskOK(task[t])

FeedInv == VendorOK /\ InnerOK /\ OuterOK /\ VisibilityOK /\ TasksOK

history == <<lane, version, closed, gone, decided, decidedFor>>

LEMMA LaneFacts ==
  ASSUME lane \in Lanes
  PROVE  /\ lane.name \in Names
         /\ lane.inner \in Nat \ {0} /\ lane.outer \in Nat \ {0}
         /\ lane.attempts \in Nat \ {0} /\ lane.versions \in Nat \ {0}
         /\ MaxFlight \in Nat \ {0} /\ ClosedTtl \in Nat \ {0}
BY FeedAssumption

LEMMA TaskByPc ==
  ASSUME NEW s \in TaskState
  PROVE  /\ s.pc \in {"lookup", "redis", "ask"} => s \in Asking
         /\ s.pc = "flight" => s \in InFlight
         /\ s.pc \in {"got", "visibility"} => s \in Holding
         /\ s.pc = "deliver" => s \in Given
         /\ s.pc \in {"idle", "failed", "lookup", "redis", "ask", "flight", "got", "visibility", "deliver"}
BY DEF TaskState, Asking, InFlight, Holding, Given, Idle

\* A step of one task keeps what holds of all if it holds of what the task becomes.
LEMMA TaskStep ==
  ASSUME TasksOK, UNCHANGED history, NEW t \in Tasks, NEW s, TaskOK(s),
         task' = [task EXCEPT ![t] = s]
  PROVE  TasksOK'
<1>1. s \in TaskState
  BY DEF TaskOK
<1>2. task \in [Tasks -> TaskState]
  BY DEF TasksOK
<1>3. task' \in [Tasks -> TaskState]
  BY <1>1, <1>2
<1>4. TaskState' = TaskState
  BY DEF history, TaskState, Asking, InFlight, Holding, Given, Wait, DataOfLane, Kinds
<1>5. \A u \in Tasks : TaskOK(task'[u])
  BY <1>2 DEF TasksOK
<1>6. \A x : TaskOK(x) => TaskOK(x)'
  <2> SUFFICES ASSUME NEW CONSTANT x, TaskOK(x) PROVE TaskOK(x)'
    OBVIOUS
  <2>1. x \in TaskState'
    BY <1>4 DEF TaskOK
  <2>2. KindOK(x)'
    BY DEF TaskOK, KindOK, history, Polled
  <2>3. \A k : Stale(k)' = Stale(k) /\ Oldest(k)' = Oldest(k)
    BY DEF Stale, Oldest, history
  <2>4. AgeOK(x)'
    BY <2>3 DEF TaskOK, AgeOK, history
  <2>5. HiddenOK(x)'
    BY DEF TaskOK, HiddenOK, ListsHidden, history
  <2>6. QED BY <2>1, <2>2, <2>4, <2>5 DEF TaskOK
<1>7. QED BY <1>3, <1>4, <1>5, <1>6 DEF TasksOK, TaskOK, KindOK, AgeOK, HiddenOK


\* What a step leaves alone stays right.
LEMMA Frame ==
  ASSUME FeedInv, UNCHANGED history
  PROVE  /\ VendorOK'
         /\ inner' = inner => InnerOK'
         /\ outer' = outer => OuterOK'
         /\ enabled' = enabled => VisibilityOK'
         /\ task' = task => TasksOK'
<1>1. DataOfLane' = DataOfLane /\ TaskState' = TaskState
  BY DEF history, TaskState, Asking, InFlight, Holding, Given, Wait, DataOfLane, Kinds
<1>2. VendorOK'
  BY DEF FeedInv, VendorOK, history
<1>3. inner' = inner => InnerOK'
  BY <1>1 DEF FeedInv, InnerOK, CachedFor, history
<1>4. outer' = outer => OuterOK'
  BY <1>1 DEF FeedInv, OuterOK, CachedFor, ListsHidden, history
<1>5. enabled' = enabled => VisibilityOK'
  BY DEF FeedInv, VisibilityOK, history
<1>6. ASSUME task' = task PROVE TasksOK'
  <2>1. TaskOK(Idle)
    BY DEF TaskOK, TaskState, KindOK, AgeOK, HiddenOK, Idle
  <2>2. CASE Tasks = {}
    BY <1>1, <1>6, <2>2 DEF FeedInv, TasksOK
  <2>3. CASE Tasks # {}
    <3>1. PICK t \in Tasks : TRUE
      BY <2>3
    <3>2. PICK s : s = task[t]
      OBVIOUS
    <3>3. task' = [task EXCEPT ![t] = s] /\ TaskOK(s)
      BY <1>6, <3>1, <3>2 DEF FeedInv, TasksOK
    <3>4. QED BY <3>1, <3>3, TaskStep DEF FeedInv
  <2>4. QED BY <2>2, <2>3
<1>7. QED BY <1>2, <1>3, <1>4, <1>5, <1>6

\* A step of one task that changes no cache.
LEMMA TaskOnly ==
  ASSUME FeedInv, UNCHANGED <<history, inner, outer, enabled>>, NEW t \in Tasks, NEW s, TaskOK(s),
         task' = [task EXCEPT ![t] = s]
  PROVE  FeedInv'
BY Frame, TaskStep DEF FeedInv, history

LEMMA FreeTask == TaskOK(Idle) /\ TaskOK([pc |-> "failed"])
BY DEF TaskOK, TaskState, KindOK, AgeOK, HiddenOK, Idle

LEMMA FeedFailed ==
  ASSUME FeedInv, UNCHANGED <<history, inner, outer, enabled>>, NEW t \in Tasks, Failed(t)
  PROVE  FeedInv'
BY TaskOnly, FreeTask DEF Failed

LEMMA FeedEnd ==
  ASSUME FeedInv, UNCHANGED <<history, inner, outer, enabled>>, NEW t \in Tasks, End(t)
  PROVE  FeedInv'
BY TaskOnly, FreeTask DEF End

LEMMA FeedRead ==
  ASSUME FeedInv, NEW t \in Tasks, Read(t)
  PROVE  FeedInv'
<1>1. UNCHANGED <<history, inner, outer, enabled>>
  BY DEF Read, history, vendor, visibility
<1>2. CASE outer.left > 0
  <2>1. PICK s : s = [pc |-> "deliver", kind |-> "read", data |-> outer.data]
    OBVIOUS
  <2>2. task' = [task EXCEPT ![t] = s]
    BY <1>2, <2>1 DEF Read
  <2>3. outer \in [data : DataOfLane, left : 1..lane.outer]
    BY <1>2 DEF FeedInv, OuterOK, CachedFor, NoEntry
  <2>4. s \in Given
    BY <2>1, <2>3 DEF Given, Kinds
  <2>5. lane.outer \in Nat /\ lane.inner \in Nat /\ MaxFlight \in Nat /\ decidedFor \in Nat
    BY LaneFacts DEF FeedInv, VendorOK, VisibilityOK
  <2>6. gone[outer.data.v] \in Nat
    BY <2>3 DEF FeedInv, VendorOK, DataOfLane
  <2>7. outer.data.closed \/ gone[outer.data.v] <= Oldest("read")
    <3>1. Oldest("read") = MaxFlight + lane.inner - 1 + lane.outer - 1
      BY DEF Oldest
    <3>2. \/ outer.data.closed
          \/ gone[outer.data.v] + outer.left <= MaxFlight + lane.inner - 1 + lane.outer
      BY <1>2 DEF FeedInv, OuterOK
    <3>3. outer.left \in Nat
      BY <2>3, <2>5
    <3>4. QED BY <1>2, <2>5, <2>6, <3>1, <3>2, <3>3
  <2>8. AgeOK(s)
    BY <2>1, <2>7 DEF AgeOK
  <2>9. HiddenOK(s)
    BY <1>2, <2>1, <2>3, <2>5 DEF FeedInv, OuterOK, HiddenOK
  <2>10. TaskOK(s)
    BY <2>1, <2>4, <2>8, <2>9 DEF TaskOK, TaskState, KindOK
  <2>11. QED BY <1>1, <2>2, <2>10, TaskOnly
<1>3. CASE ~(outer.left > 0)
  <2>1. PICK s : s = [pc |-> Lookup, kind |-> "read", left |-> lane.outer, tries |-> 0]
    OBVIOUS
  <2>2. task' = [task EXCEPT ![t] = s]
    BY <1>3, <2>1 DEF Read
  <2>3. Lookup \in {"lookup", "redis"}
    BY DEF Lookup
  <2>4. lane.outer \in Wait
    BY LaneFacts DEF FeedInv, VendorOK, Wait
  <2>5. s \in Asking
    BY <2>1, <2>3, <2>4 DEF Asking, Kinds
  <2>6. TaskOK(s)
    BY <2>1, <2>3, <2>5 DEF TaskOK, TaskState, KindOK, AgeOK, HiddenOK
  <2>7. QED BY <1>1, <2>2, <2>6, TaskOnly
<1>4. QED BY <1>2, <1>3

LEMMA FeedReadDirect ==
  ASSUME FeedInv, NEW t \in Tasks, ReadDirect(t)
  PROVE  FeedInv'
<1>1. UNCHANGED <<history, inner, outer, enabled>>
  BY DEF ReadDirect, history, vendor, visibility
<1>2. PICK s : s = [pc |-> "redis", kind |-> "direct", left |-> 0, tries |-> 0]
  OBVIOUS
<1>3. task' = [task EXCEPT ![t] = s]
  BY <1>2 DEF ReadDirect
<1>4. s \in Asking
  BY <1>2, LaneFacts DEF Asking, Kinds, Wait, FeedInv, VendorOK
<1>5. TaskOK(s)
  BY <1>2, <1>4 DEF TaskOK, TaskState, KindOK, AgeOK, HiddenOK
<1>6. QED BY <1>1, <1>3, <1>5, TaskOnly

LEMMA FeedReadLive ==
  ASSUME FeedInv, NEW t \in Tasks, ReadLive(t)
  PROVE  FeedInv'
<1>1. UNCHANGED <<history, outer, enabled>>
  BY DEF ReadLive, history, vendor, visibility
<1>2. PICK s : s = [pc |-> "ask", kind |-> "live", left |-> 0, tries |-> 0]
  OBVIOUS
<1>3. task' = [task EXCEPT ![t] = s]
  BY <1>2 DEF ReadLive
<1>4. s \in Asking
  BY <1>2, LaneFacts DEF Asking, Kinds, Wait, FeedInv, VendorOK
<1>5. lane.name = "odds"
  BY DEF ReadLive
<1>6. TaskOK(s)
  BY <1>2, <1>4, <1>5 DEF TaskOK, TaskState, KindOK, AgeOK, HiddenOK, Polled
<1>7. TasksOK'
  BY <1>1, <1>3, <1>6, TaskStep DEF FeedInv
<1>8. InnerOK'
  <2>1. CASE inner' = inner
    BY <1>1, <2>1, Frame
  <2>2. CASE inner' = NoEntry
    BY <2>2 DEF InnerOK, CachedFor, NoEntry
  <2>3. QED BY <2>1, <2>2 DEF ReadLive
<1>9. QED BY <1>1, <1>7, <1>8, Frame DEF FeedInv, history

LEMMA FeedPoll ==
  ASSUME FeedInv, NEW t \in Tasks, Poll(t)
  PROVE  FeedInv'
<1>1. UNCHANGED <<history, inner, outer, enabled>>
  BY DEF Poll, history, vendor, visibility
<1>2. PICK s : s = [pc |-> "redis", kind |-> "poll", left |-> 0, tries |-> 0]
  OBVIOUS
<1>3. task' = [task EXCEPT ![t] = s] /\ Polled
  BY <1>2 DEF Poll
<1>4. s \in Asking
  BY <1>2, LaneFacts DEF Asking, Kinds, Wait, FeedInv, VendorOK
<1>5. TaskOK(s)
  BY <1>2, <1>3, <1>4 DEF TaskOK, TaskState, KindOK, AgeOK, HiddenOK
<1>6. QED BY <1>1, <1>3, <1>5, TaskOnly

\* Where a task that asks goes on to.
LEMMA FeedAsks ==
  ASSUME FeedInv, UNCHANGED <<history, inner, outer, enabled>>, NEW t \in Tasks,
         task[t].pc \in {"lookup", "redis"}, NEW pc \in {"redis", "ask"}, Goto(t, pc)
  PROVE  FeedInv'
<1>1. PICK q : q = task[t]
  OBVIOUS
<1>2. TaskOK(q) /\ q.pc \in {"lookup", "redis"}
  BY <1>1 DEF FeedInv, TasksOK
<1>3. q \in Asking
  BY <1>2, TaskByPc DEF TaskOK
<1>4. PICK s : s = [q EXCEPT !.pc = pc]
  OBVIOUS
<1>5. s \in Asking /\ s.pc = pc /\ s.kind = q.kind
  BY <1>3, <1>4 DEF Asking
<1>6. task' = [task EXCEPT ![t] = s]
  BY <1>1, <1>4 DEF Goto
<1>7. TaskOK(s)
  BY <1>2, <1>5 DEF TaskOK, TaskState, KindOK, AgeOK, HiddenOK
<1>8. QED BY <1>6, <1>7, TaskOnly

LEMMA FeedLookUp ==
  ASSUME FeedInv, NEW t \in Tasks, LookUp(t)
  PROVE  FeedInv'
<1>1. UNCHANGED <<history, inner, outer, enabled>>
  BY DEF LookUp, history, vendor, visibility
<1>2. QED BY <1>1, FeedAsks, FeedFailed DEF LookUp

LEMMA FeedReadRedis ==
  ASSUME FeedInv, NEW t \in Tasks, ReadRedis(t)
  PROVE  FeedInv'
<1>1. UNCHANGED <<history, inner, outer, enabled>>
  BY DEF ReadRedis, history, vendor, visibility
<1>2. CASE Goto(t, "ask")
  BY <1>1, <1>2, FeedAsks DEF ReadRedis
<1>3. CASE /\ inner.left > 0
           /\ task' = [task EXCEPT ![t] = [pc |-> "got", kind |-> @.kind, left |-> @.left,
                                           data |-> inner.data]]
  <2>1. PICK q : q = task[t]
    OBVIOUS
  <2>2. TaskOK(q) /\ q.pc = "redis"
    BY <2>1 DEF FeedInv, TasksOK, ReadRedis
  <2>3. q \in Asking
    BY <2>2, TaskByPc DEF TaskOK
  <2>4. PICK s : s = [pc |-> "got", kind |-> q.kind, left |-> q.left, data |-> inner.data]
    OBVIOUS
  <2>5. task' = [task EXCEPT ![t] = s]
    BY <1>3, <2>1, <2>4
  <2>6. inner \in [data : DataOfLane, left : Nat \ {0}]
    BY <1>3 DEF FeedInv, InnerOK, CachedFor, NoEntry
  <2>7. s \in Holding
    BY <2>3, <2>4, <2>6 DEF Holding, Asking
  <2>8. q.kind # "live"
    BY <2>2 DEF TaskOK, KindOK
  <2>9. lane.inner \in Nat /\ MaxFlight \in Nat
    BY LaneFacts DEF FeedInv, VendorOK
  <2>10. gone[inner.data.v] \in Nat
    BY <2>6 DEF FeedInv, VendorOK, DataOfLane
  <2>11. inner.data.closed \/ gone[inner.data.v] <= Stale(q.kind)
    BY <1>3, <2>6, <2>8, <2>9, <2>10 DEF FeedInv, InnerOK, Stale
  <2>12. AgeOK(s)
    BY <2>4, <2>11 DEF AgeOK
  <2>13. TaskOK(s)
    BY <2>2, <2>4, <2>7, <2>8, <2>12 DEF TaskOK, TaskState, KindOK, HiddenOK
  <2>14. QED BY <1>1, <2>5, <2>13, TaskOnly
<1>4. QED BY <1>2, <1>3 DEF ReadRedis


LEMMA FeedAnswered ==
  ASSUME FeedInv, NEW t \in Tasks, NEW isClosed \in BOOLEAN, Answered(t, Data(isClosed))
  PROVE  FeedInv'
<1>1. UNCHANGED <<history, inner, outer, enabled>>
  BY DEF Answered, history, vendor, visibility
<1>2. PICK q : q = task[t]
  OBVIOUS
<1>3. TaskOK(q) /\ q.pc = "ask"
  BY <1>2 DEF FeedInv, TasksOK, Answered
<1>4. q \in Asking
  BY <1>3, TaskByPc DEF TaskOK
<1>5. PICK d : d = Data(isClosed)
  OBVIOUS
<1>6. d \in DataOfLane /\ d.v = version
  BY <1>5 DEF Data, DataOfLane, FeedInv, VendorOK
<1>7. PICK s : s = [pc |-> "flight", kind |-> q.kind, left |-> q.left, tries |-> q.tries,
                    data |-> d, flight |-> MaxFlight]
  OBVIOUS
<1>8. task' = [task EXCEPT ![t] = s]
  BY <1>2, <1>5, <1>7 DEF Answered
<1>9. MaxFlight \in Nat
  BY LaneFacts DEF FeedInv, VendorOK
<1>10. s \in InFlight
  BY <1>4, <1>6, <1>7, <1>9 DEF InFlight, Asking
<1>11. gone[d.v] = 0
  BY <1>6 DEF FeedInv, VendorOK
<1>12. AgeOK(s)
  BY <1>7, <1>9, <1>11 DEF AgeOK
<1>13. TaskOK(s)
  BY <1>3, <1>7, <1>10, <1>12 DEF TaskOK, TaskState, KindOK, HiddenOK
<1>14. QED BY <1>1, <1>8, <1>13, TaskOnly

LEMMA FeedVendorAnswers ==
  ASSUME FeedInv, NEW t \in Tasks, VendorAnswers(t)
  PROVE  FeedInv'
<1>1. closed \in BOOLEAN
  BY DEF FeedInv, VendorOK
<1>2. QED BY <1>1, FeedAnswered
     DEF VendorAnswers, QuoteOdds, QuoteFancy, ListEvents, DescribeMarket

LEMMA FeedVendorFails ==
  ASSUME FeedInv, NEW t \in Tasks, VendorFails(t)
  PROVE  FeedInv'
<1>1. UNCHANGED <<history, inner, outer, enabled>>
  BY DEF VendorFails, history, vendor, visibility
<1>2. CASE Failed(t)
  BY <1>1, <1>2, FeedFailed
<1>3. CASE task' = [task EXCEPT ![t] = [pc |-> "ask", kind |-> @.kind, left |-> @.left,
                                        tries |-> @.tries + 1]]
  <2>1. PICK q : q = task[t]
    OBVIOUS
  <2>2. TaskOK(q) /\ q.pc \in {"ask", "flight"}
    BY <2>1 DEF FeedInv, TasksOK, VendorFails
  <2>3. q.kind \in Kinds /\ q.left \in Wait /\ q.tries \in Nat
    BY <2>2, TaskByPc DEF TaskOK, Asking, InFlight
  <2>4. PICK s : s = [pc |-> "ask", kind |-> q.kind, left |-> q.left, tries |-> q.tries + 1]
    OBVIOUS
  <2>5. task' = [task EXCEPT ![t] = s]
    BY <1>3, <2>1, <2>4
  <2>6. s \in Asking
    BY <2>3, <2>4 DEF Asking
  <2>7. TaskOK(s)
    BY <2>2, <2>4, <2>6 DEF TaskOK, TaskState, KindOK, AgeOK, HiddenOK
  <2>8. QED BY <1>1, <2>5, <2>7, TaskOnly
<1>4. QED BY <1>2, <1>3 DEF VendorFails

LEMMA FeedStore ==
  ASSUME FeedInv, NEW t \in Tasks, Store(t)
  PROVE  FeedInv'
<1>1. UNCHANGED <<history, outer, enabled>>
  BY DEF Store, history, vendor, visibility
<1>2. PICK q : q = task[t]
  OBVIOUS
<1>3. TaskOK(q) /\ q.pc = "flight"
  BY <1>2 DEF FeedInv, TasksOK, Store
<1>4. q \in InFlight
  BY <1>3, TaskByPc DEF TaskOK
<1>5. PICK s : s = [pc |-> "got", kind |-> q.kind, left |-> q.left, data |-> q.data]
  OBVIOUS
<1>6. task' = [task EXCEPT ![t] = s]
  BY <1>2, <1>5 DEF Store
<1>7. s \in Holding
  BY <1>4, <1>5 DEF InFlight, Holding
<1>8. lane.inner \in Nat \ {0} /\ MaxFlight \in Nat /\ ClosedTtl \in Nat \ {0} /\ q.flight \in Nat
  BY <1>4, LaneFacts DEF FeedInv, VendorOK, InFlight
<1>9. gone[q.data.v] \in Nat
  BY <1>4 DEF FeedInv, VendorOK, DataOfLane, InFlight
<1>10. gone[q.data.v] <= MaxFlight
  BY <1>3, <1>8, <1>9 DEF TaskOK, AgeOK
<1>11. gone[q.data.v] <= Stale(q.kind)
  BY <1>8, <1>9, <1>10 DEF Stale
<1>12. TaskOK(s)
  <2>1. AgeOK(s)
    BY <1>5, <1>11 DEF AgeOK
  <2>2. QED BY <1>3, <1>5, <1>7, <2>1 DEF TaskOK, TaskState, KindOK, HiddenOK
<1>13. TasksOK'
  BY <1>1, <1>6, <1>12, TaskStep DEF FeedInv
<1>14. InnerOK'
  <2>1. CASE inner' = inner
    BY <1>1, <2>1, Frame
  <2>2. CASE inner' = [data |-> q.data, left |-> TtlOf(q.data)]
    <3>1. PICK e : e = [data |-> q.data, left |-> TtlOf(q.data)]
      OBVIOUS
    <3>2. TtlOf(q.data) \in Nat \ {0} /\ (~q.data.closed => TtlOf(q.data) = lane.inner)
      BY <1>8 DEF TtlOf
    <3>3. q.data \in DataOfLane
      BY <1>4 DEF InFlight
    <3>4. e \in CachedFor(Nat \ {0}) /\ e.data = q.data /\ e.left = TtlOf(q.data)
      BY <3>1, <3>2, <3>3 DEF CachedFor
    <3>5. e.data.closed \/ gone[e.data.v] + e.left <= MaxFlight + lane.inner
      BY <1>8, <1>9, <1>10, <3>2, <3>4
    <3>6. inner' = e /\ DataOfLane' = DataOfLane
      BY <1>1, <2>2, <3>1 DEF DataOfLane, history
    <3>7. QED BY <1>1, <3>4, <3>5, <3>6 DEF InnerOK, CachedFor, history
  <2>3. QED BY <1>2, <2>1, <2>2 DEF Store
<1>15. QED BY <1>1, <1>13, <1>14, Frame DEF FeedInv, history


\* What a task got is handed over, and may be put into the outer cache; only a list that
\* bypasses it may hold a hidden match.
LEMMA FeedDelivered ==
  ASSUME FeedInv, UNCHANGED <<history, inner, enabled>>,
         NEW t \in Tasks, task[t].pc \in {"got", "visibility"},
         NEW data \in DataOfLane, data.v = task[t].data.v, data.closed = task[t].data.closed,
         Delivered(t, data), NEW left \in Wait, outer' \in {outer, Entry(data, left)},
         ~ListsHidden(data) \/ (task[t].kind = "direct" /\ outer' = outer)
  PROVE  FeedInv'
<1>1. PICK q : q = task[t]
  OBVIOUS
<1>2. TaskOK(q) /\ q.pc \in {"got", "visibility"}
  BY <1>1 DEF FeedInv, TasksOK
<1>3. q \in Holding
  BY <1>2, TaskByPc DEF TaskOK
<1>4. PICK s : s = [pc |-> "deliver", kind |-> q.kind, data |-> data]
  OBVIOUS
<1>5. task' = [task EXCEPT ![t] = s]
  BY <1>1, <1>4 DEF Delivered
<1>6. s \in Given
  BY <1>3, <1>4 DEF Given, Holding
<1>7. lane.inner \in Nat \ {0} /\ lane.outer \in Nat \ {0} /\ MaxFlight \in Nat
  BY LaneFacts DEF FeedInv, VendorOK
<1>8. PICK age : age = gone[data.v]
  OBVIOUS
<1>9. age \in Nat
  BY <1>8 DEF FeedInv, VendorOK, DataOfLane
<1>10. data.closed \/ age <= Stale(q.kind)
  BY <1>1, <1>2, <1>8 DEF TaskOK, AgeOK
<1>11. data.closed \/ age <= Oldest(q.kind)
  <2>1. q.kind \in Kinds
    BY <1>3 DEF Holding
  <2>2. CASE q.kind = "live"
    BY <1>10, <2>2 DEF Stale, Oldest
  <2>3. CASE q.kind \in {"poll", "direct"}
    BY <1>10, <2>3 DEF Stale, Oldest
  <2>4. CASE q.kind = "read"
    <3>1. Stale(q.kind) = MaxFlight + lane.inner - 1
      BY <2>4 DEF Stale
    <3>2. Oldest(q.kind) = MaxFlight + lane.inner - 1 + lane.outer - 1
      BY <2>4 DEF Oldest
    <3>3. QED BY <1>7, <1>9, <1>10, <3>1, <3>2
  <2>5. QED BY <2>1, <2>2, <2>3, <2>4 DEF Kinds
<1>12. AgeOK(s)
  BY <1>4, <1>8, <1>11 DEF AgeOK
<1>13. TaskOK(s)
  BY <1>1, <1>2, <1>4, <1>6, <1>12 DEF TaskOK, TaskState, KindOK, HiddenOK
<1>14. TasksOK'
  BY <1>5, <1>13, TaskStep DEF FeedInv
<1>15. OuterOK'
  <2>1. CASE outer' = outer
    BY <2>1, Frame
  <2>2. CASE outer' = Entry(data, left) /\ left = 0
    BY <2>2 DEF OuterOK, CachedFor, Entry, NoEntry
  <2>3. CASE outer' = Entry(data, left) /\ left # 0 /\ outer' # outer
    <3>1. PICK e : e = [data |-> data, left |-> left]
      OBVIOUS
    <3>2. left \in 1..lane.outer
      BY <1>7, <2>3 DEF Wait
    <3>3. e \in CachedFor(1..lane.outer) /\ e.data = data /\ e.left = left
      BY <3>1, <3>2 DEF CachedFor
    <3>4. Stale(q.kind) <= MaxFlight + lane.inner - 1 /\ Stale(q.kind) \in Int
      BY <1>7 DEF Stale
    <3>5. data.closed \/ age + left <= MaxFlight + lane.inner - 1 + lane.outer
      BY <1>7, <1>9, <1>10, <3>2, <3>4
    <3>6. \/ e.data.closed
          \/ gone[e.data.v] + e.left <= MaxFlight + lane.inner - 1 + lane.outer
      BY <1>8, <3>3, <3>5
    <3>7. ~ListsHidden(e.data)
      BY <2>3, <3>3
    <3>8. outer' = e /\ DataOfLane' = DataOfLane
      BY <2>3, <3>1 DEF Entry, DataOfLane, history
    <3>9. QED BY <3>3, <3>6, <3>7, <3>8 DEF OuterOK, CachedFor, ListsHidden, history
  <2>4. QED BY <2>1, <2>2, <2>3
<1>16. QED BY <1>14, <1>15, Frame DEF FeedInv, history

LEMMA Held ==
  ASSUME FeedInv, NEW t \in Tasks, task[t].pc \in {"got", "visibility"}
  PROVE  task[t] \in Holding /\ task[t].left \in Wait /\ task[t].data \in DataOfLane
<1>1. PICK q : q = task[t]
  OBVIOUS
<1>2. TaskOK(q) /\ q.pc \in {"got", "visibility"}
  BY <1>1 DEF FeedInv, TasksOK
<1>3. q \in Holding
  BY <1>2, TaskByPc DEF TaskOK
<1>4. QED BY <1>1, <1>3 DEF Holding

LEMMA FeedFillMap ==
  ASSUME FeedInv, NEW t \in Tasks, FillMap(t)
  PROVE  FeedInv'
<1>1. UNCHANGED <<history, inner, enabled>> /\ task[t].pc \in {"got", "visibility"}
  BY DEF FillMap, history, vendor, visibility
<1>2. PICK data : data = task[t].data
  OBVIOUS
<1>3. data \in DataOfLane /\ LeftOf(t) \in Wait
  BY <1>1, <1>2, Held DEF LeftOf
<1>4. ~ListsHidden(data)
  BY DEF FillMap, ListsHidden
<1>5. Delivered(t, data) /\ outer' = Entry(data, LeftOf(t))
  BY <1>2 DEF FillMap
<1>6. QED BY <1>1, <1>2, <1>3, <1>4, <1>5, FeedDelivered

LEMMA FeedFillDetail ==
  ASSUME FeedInv, NEW t \in Tasks, FillDetail(t)
  PROVE  FeedInv'
<1>1. UNCHANGED <<history, inner, enabled>> /\ task[t].pc \in {"got", "visibility"}
  BY DEF FillDetail, history, vendor, visibility
<1>2. PICK data : data = task[t].data
  OBVIOUS
<1>3. data \in DataOfLane /\ lane.outer \in Wait
  BY <1>1, <1>2, Held, LaneFacts DEF Wait, FeedInv, VendorOK
<1>4. ~ListsHidden(data)
  BY DEF FillDetail, ListsHidden
<1>5. Delivered(t, data) /\ outer' \in {outer, Entry(data, lane.outer)}
  BY <1>2 DEF FillDetail
<1>6. QED BY <1>1, <1>2, <1>3, <1>4, <1>5, FeedDelivered

LEMMA FeedPassOn ==
  ASSUME FeedInv, NEW t \in Tasks, PassOn(t)
  PROVE  FeedInv'
<1>1. UNCHANGED <<history, inner, enabled>> /\ task[t].pc \in {"got", "visibility"}
  BY DEF PassOn, history, vendor, visibility
<1>2. PICK data : data = task[t].data
  OBVIOUS
<1>3. data \in DataOfLane /\ task[t].left \in Wait
  BY <1>1, <1>2, Held
<1>4. ~ListsHidden(data) \/ task[t].kind = "direct"
  <2>1. KindOK(task[t])
    BY DEF FeedInv, TasksOK, TaskOK
  <2>2. lane.name = "odds" \/ task[t].kind = "direct"
    BY <2>1 DEF KindOK, PassOn
  <2>3. QED BY <2>2 DEF ListsHidden
<1>5. Delivered(t, data) /\ outer' = outer
  BY <1>2 DEF PassOn
<1>6. QED BY <1>1, <1>2, <1>3, <1>4, <1>5, FeedDelivered

LEMMA FeedFilterList ==
  ASSUME FeedInv, NEW t \in Tasks, FilterList(t)
  PROVE  FeedInv'
<1>1. UNCHANGED <<history, inner, enabled>> /\ task[t].pc \in {"got", "visibility"}
  BY DEF FilterList, history, vendor, visibility
<1>2. PICK d : d = task[t].data
  OBVIOUS
<1>3. d \in DataOfLane /\ LeftOf(t) \in Wait
  BY <1>1, <1>2, Held DEF LeftOf
<1>4. PICK data \in {[d EXCEPT !.listed = Enabled], [d EXCEPT !.listed = TRUE, !.blind = TRUE]} :
        outer' = Entry(data, LeftOf(t)) /\ Delivered(t, data)
  BY <1>2 DEF FilterList
<1>5. CASE data = [d EXCEPT !.listed = Enabled]
  <2>1. PICK listed \in BOOLEAN : listed = Enabled
    BY DEF Enabled
  <2>2. data = [d EXCEPT !.listed = listed]
    BY <1>5, <2>1
  <2>3. data \in DataOfLane /\ data.v = d.v /\ data.closed = d.closed /\ data.listed = listed
    BY <1>3, <2>2 DEF DataOfLane
  <2>4. decided = "hidden" => ~listed
    BY <2>1 DEF FeedInv, VisibilityOK, Enabled
  <2>5. ~ListsHidden(data)
    BY <2>3, <2>4 DEF ListsHidden
  <2>6. QED BY <1>1, <1>2, <1>3, <1>4, <2>3, <2>5, FeedDelivered
<1>6. CASE data = [d EXCEPT !.listed = TRUE, !.blind = TRUE]
  <2>1. data \in DataOfLane /\ data.v = d.v /\ data.closed = d.closed /\ data.blind = TRUE
    BY <1>3, <1>6 DEF DataOfLane
  <2>2. ~ListsHidden(data)
    BY <2>1 DEF ListsHidden
  <2>3. QED BY <1>1, <1>2, <1>3, <1>4, <2>1, <2>2, FeedDelivered
<1>7. QED BY <1>4, <1>5, <1>6

LEMMA FeedSyncMatches ==
  ASSUME FeedInv, NEW t \in Tasks, SyncMatches(t)
  PROVE  FeedInv'
<1>1. UNCHANGED <<history, inner, outer, enabled>>
  BY DEF SyncMatches, history, vendor
<1>2. PICK q : q = task[t]
  OBVIOUS
<1>3. TaskOK(q) /\ q.pc = "got" /\ q \in Holding /\ lane.name = "list"
  BY <1>2, Held DEF FeedInv, TasksOK, SyncMatches
<1>4. PICK s : s = [q EXCEPT !.pc = "visibility"]
  OBVIOUS
<1>5. s \in Holding /\ s.pc = "visibility" /\ s.kind = q.kind /\ s.data = q.data
  BY <1>3, <1>4 DEF Holding
<1>6. task' = [task EXCEPT ![t] = s]
  BY <1>2, <1>4 DEF SyncMatches, Goto
<1>7. KindOK(s) /\ AgeOK(s) /\ HiddenOK(s)
  BY <1>3, <1>5 DEF TaskOK, KindOK, AgeOK, HiddenOK
<1>8. QED BY <1>1, <1>5, <1>6, <1>7, TaskOnly DEF TaskOK, TaskState

LEMMA FeedEmitIfChanged ==
  ASSUME FeedInv, NEW t \in Tasks, EmitIfChanged(t)
  PROVE  FeedInv'
<1>1. UNCHANGED <<history, inner, outer, enabled>>
  BY DEF EmitIfChanged, history, vendor, visibility
<1>2. QED BY <1>1, FeedEnd DEF EmitIfChanged


LEMMA FeedUpdateVisibility ==
  ASSUME FeedInv, NEW value \in {"shown", "hidden"}, UpdateVisibility(value)
  PROVE  FeedInv'
<1>1. UNCHANGED <<lane, version, closed, gone, inner, outer, task>> /\ decidedFor' = 0
      /\ decided' = value /\ enabled' = value
  BY DEF UpdateVisibility, vendor
<1>2. lane.outer \in Nat \ {0}
  BY LaneFacts DEF FeedInv, VendorOK
<1>3. DataOfLane' = DataOfLane /\ TaskState' = TaskState
  BY <1>1 DEF TaskState, Asking, InFlight, Holding, Given, Wait, DataOfLane, Kinds
<1>4. VendorOK' /\ InnerOK'
  BY <1>1, <1>3 DEF FeedInv, VendorOK, InnerOK, CachedFor
<1>5. OuterOK'
  <2>1. outer.left > 0 => 0 + outer.left <= lane.outer
    BY <1>2 DEF FeedInv, OuterOK, CachedFor, NoEntry
  <2>2. QED BY <1>1, <1>3, <2>1 DEF FeedInv, OuterOK, CachedFor
<1>6. VisibilityOK'
  BY <1>1, <1>2 DEF VisibilityOK
<1>7. TasksOK'
  <2>1. task' \in [Tasks -> TaskState']
    BY <1>1, <1>3 DEF FeedInv, TasksOK
  <2>2. \A x : TaskOK(x) => TaskOK(x)'
    <3> SUFFICES ASSUME NEW CONSTANT x, TaskOK(x) PROVE TaskOK(x)'
      OBVIOUS
    <3>1. KindOK(x)'
      BY <1>1 DEF TaskOK, KindOK, Polled
    <3>2. \A k : Stale(k)' = Stale(k) /\ Oldest(k)' = Oldest(k)
      BY <1>1 DEF Stale, Oldest
    <3>3. AgeOK(x)'
      BY <1>1, <3>2 DEF TaskOK, AgeOK
    <3>4. HiddenOK(x)'
      BY <1>1, <1>2 DEF HiddenOK
    <3>5. QED BY <1>3, <3>1, <3>3, <3>4 DEF TaskOK
  <2>3. \A t \in Tasks : TaskOK(task'[t])
    BY <1>1 DEF FeedInv, TasksOK
  <2>4. QED BY <1>3, <2>1, <2>2, <2>3 DEF TasksOK, TaskOK, KindOK, AgeOK, HiddenOK
<1>8. QED BY <1>4, <1>5, <1>6, <1>7 DEF FeedInv

LEMMA FeedSync ==
  ASSUME FeedInv, Sync
  PROVE  FeedInv'
<1>1. UNCHANGED <<history, inner, outer, task>>
  BY DEF Sync, history, vendor
<1>2. decided = "hidden" => enabled' = "hidden"
  BY DEF Sync, Synced, FeedInv, VisibilityOK
<1>3. VisibilityOK'
  BY <1>1, <1>2 DEF FeedInv, VisibilityOK, history
<1>4. QED BY <1>1, <1>3, Frame DEF FeedInv, history

LEMMA FeedOthers ==
  ASSUME FeedInv, Subscribe \/ Unsubscribe \/ CleanInactive \/ UNCHANGED vars
  PROVE  FeedInv'
<1>1. UNCHANGED <<history, inner, outer, enabled, task>>
  BY DEF Subscribe, Unsubscribe, CleanInactive, vars, history, vendor, visibility
<1>2. QED BY <1>1, Frame DEF FeedInv, history

-----------------------------------------------------------------------------
(* Time *)

LEMMA SoonerIs ==
  ASSUME NEW left \in Nat
  PROVE  Sooner(left) = IF left = 0 THEN 0 ELSE left - 1
<1>1. {left - 1, 0} = {0, left - 1} /\ left - 1 \in Int
  OBVIOUS
<1>2. QED BY <1>1, MaxWithZero DEF Sooner

\* When time passes, versions get older by a tick at most, and the present one is no older.
LEMMA Ages ==
  ASSUME FeedInv, Tick
  PROVE  /\ lane' = lane /\ version' \in 1..lane.versions /\ closed' \in BOOLEAN
         /\ gone' \in [1..lane.versions -> Nat]
         /\ \A v \in 1..lane.versions : gone'[v] <= gone[v] + 1 /\ (v >= version' => gone'[v] = 0)
         /\ decidedFor' \in 0..lane.outer /\ decidedFor' <= decidedFor + 1
<1>1. lane.versions \in Nat \ {0} /\ lane.inner \in Nat /\ lane.outer \in Nat /\ MaxFlight \in Nat
  BY LaneFacts DEF FeedInv, VendorOK
<1>2. lane' = lane
  BY DEF Tick
<1>3. version \in 1..lane.versions /\ gone \in [1..lane.versions -> Nat] /\ closed \in BOOLEAN
      /\ decidedFor \in 0..lane.outer
  BY DEF FeedInv, VendorOK, VisibilityOK
<1>4. version' \in 1..lane.versions
  <2>1. Min({version + 1, lane.versions}) \in 1..lane.versions
    BY <1>1, <1>3, MinOfTwo
  <2>2. QED BY <1>3, <2>1 DEF Tick
<1>5. closed' \in BOOLEAN
  BY <1>3 DEF Tick
<1>6. Horizon \in Nat
  BY <1>1 DEF Horizon
<1>7. ASSUME NEW v \in 1..lane.versions
      PROVE  /\ (IF v >= version' THEN 0 ELSE Min({gone[v] + 1, Horizon})) \in Nat
             /\ (IF v >= version' THEN 0 ELSE Min({gone[v] + 1, Horizon})) <= gone[v] + 1
  <2>1. gone[v] \in Nat
    BY <1>3
  <2>2. Min({gone[v] + 1, Horizon}) = IF gone[v] + 1 <= Horizon THEN gone[v] + 1 ELSE Horizon
    BY <1>6, <2>1, MinOfTwo
  <2>3. QED BY <1>6, <2>1, <2>2
<1>8. gone' = [v \in 1..lane.versions |-> IF v >= version' THEN 0 ELSE Min({gone[v] + 1, Horizon})]
  BY DEF Tick
<1>9. decidedFor' = Min({decidedFor + 1, lane.outer})
  BY DEF Tick
<1>10. decidedFor' \in 0..lane.outer /\ decidedFor' <= decidedFor + 1
  BY <1>1, <1>3, <1>9, MinOfTwo
<1>11. QED BY <1>2, <1>4, <1>5, <1>7, <1>8, <1>10

LEMMA TickCaches ==
  ASSUME FeedInv, Tick
  PROVE  InnerOK' /\ OuterOK'
<1>1. lane' = lane /\ DataOfLane' = DataOfLane /\ decided' = decided
  BY DEF Tick, DataOfLane
<1>2. lane.inner \in Nat \ {0} /\ lane.outer \in Nat \ {0} /\ MaxFlight \in Nat
      /\ decidedFor \in Nat
  BY LaneFacts DEF FeedInv, VendorOK, VisibilityOK
<1>3. \A d \in DataOfLane : gone[d.v] \in Nat /\ gone'[d.v] \in Nat /\ gone'[d.v] <= gone[d.v] + 1
  BY Ages DEF FeedInv, VendorOK, DataOfLane
<1>4. InnerOK'
  <2>1. CASE inner.left <= 1
    <3>1. inner' = NoEntry
      BY <2>1 DEF Tick, Older
    <3>2. QED BY <3>1 DEF InnerOK, CachedFor, NoEntry
  <2>2. CASE ~(inner.left <= 1)
    <3>1. inner \in [data : DataOfLane, left : Nat \ {0}]
      BY <2>2 DEF FeedInv, InnerOK, CachedFor, NoEntry
    <3>2. inner' = [inner EXCEPT !.left = inner.left - 1]
      BY <2>2 DEF Tick, Older
    <3>3. PICK left, d : left = inner.left /\ d = inner.data
      OBVIOUS
    <3>4. left \in Nat /\ left > 1 /\ d \in DataOfLane
      BY <2>2, <3>1, <3>3
    <3>5. inner' \in [data : DataOfLane, left : Nat \ {0}] /\ inner'.data = d /\ inner'.left = left - 1
      BY <3>1, <3>2, <3>3, <3>4
    <3>6. d.closed \/ gone[d.v] + left <= MaxFlight + lane.inner
      BY <3>3, <3>4 DEF FeedInv, InnerOK
    <3>7. d.closed \/ gone'[d.v] + (left - 1) <= MaxFlight + lane.inner
      BY <1>2, <1>3, <3>4, <3>6
    <3>8. QED BY <1>1, <3>5, <3>7 DEF InnerOK, CachedFor
  <2>3. QED BY <2>1, <2>2
<1>5. OuterOK'
  <2>1. CASE outer.left <= 1
    <3>1. outer' = NoEntry
      BY <2>1 DEF Tick, Older
    <3>2. QED BY <3>1 DEF OuterOK, CachedFor, NoEntry
  <2>2. CASE ~(outer.left <= 1)
    <3>1. outer \in [data : DataOfLane, left : 1..lane.outer]
      BY <2>2 DEF FeedInv, OuterOK, CachedFor, NoEntry
    <3>2. outer' = [outer EXCEPT !.left = outer.left - 1]
      BY <2>2 DEF Tick, Older
    <3>3. PICK left, d : left = outer.left /\ d = outer.data
      OBVIOUS
    <3>4. left \in 2..lane.outer /\ d \in DataOfLane
      BY <1>2, <2>2, <3>1, <3>3
    <3>5. /\ outer' \in [data : DataOfLane, left : 1..lane.outer]
          /\ outer'.data = d /\ outer'.left = left - 1
      BY <1>2, <3>1, <3>2, <3>3, <3>4
    <3>6. /\ d.closed \/ gone[d.v] + left <= MaxFlight + lane.inner - 1 + lane.outer
          /\ ListsHidden(d) => decidedFor + left <= lane.outer
      BY <3>3, <3>4 DEF FeedInv, OuterOK
    <3>7. d.closed \/ gone'[d.v] + (left - 1) <= MaxFlight + lane.inner - 1 + lane.outer
      BY <1>2, <1>3, <3>4, <3>6
    <3>8. ListsHidden(d) => decidedFor' + (left - 1) <= lane.outer
      BY <1>2, <3>4, <3>6, Ages
    <3>9. ListsHidden(d)' <=> ListsHidden(d)
      BY <1>1 DEF ListsHidden
    <3>10. QED BY <1>1, <3>5, <3>7, <3>8, <3>9 DEF OuterOK, CachedFor, ListsHidden
  <2>3. QED BY <2>1, <2>2
<1>6. QED BY <1>4, <1>5


\* What a task becomes when time passes.
Passing(s) ==
  CASE s.pc = "ask" -> [s EXCEPT !.left = Sooner(@)]
    [] s.pc = "flight" -> [s EXCEPT !.left = Sooner(@), !.flight = @ - 1]
    [] OTHER -> Idle

\* A task that waits is right after the tick, too: an answer that is under way may be under
\* way for a tick less, by which what it holds gets older.
LEMMA TickTask ==
  ASSUME FeedInv, Tick, NEW s, TaskOK(s), s.pc = "flight" => s.flight > 0
  PROVE  TaskOK(Passing(s))'
<1>1. lane' = lane /\ TaskState' = TaskState
  BY DEF Tick, TaskState, Asking, InFlight, Holding, Given, Wait, DataOfLane, Kinds
<1>2. PICK r : r = Passing(s)
  OBVIOUS
<1>3. CASE s.pc = "ask"
  <2>1. s \in Asking
    BY <1>3, TaskByPc DEF TaskOK
  <2>2. Sooner(s.left) \in Wait
    <3>1. s.left \in Nat /\ s.left <= lane.outer /\ lane.outer \in Nat
      BY <2>1, LaneFacts DEF Asking, Wait, FeedInv, VendorOK
    <3>2. QED BY <3>1, SoonerIs DEF Wait
  <2>3. r = [s EXCEPT !.left = Sooner(s.left)]
    BY <1>2, <1>3 DEF Passing
  <2>4. r \in Asking /\ r.pc = "ask" /\ r.kind = s.kind
    BY <1>3, <2>1, <2>2, <2>3 DEF Asking
  <2>5. TaskOK(r)'
    BY <1>1, <1>3, <2>4 DEF TaskOK, TaskState, KindOK, Polled, AgeOK, HiddenOK
  <2>6. QED BY <1>2, <2>5
<1>4. CASE s.pc = "flight"
  <2>1. s \in InFlight /\ s.flight > 0
    BY <1>4, TaskByPc DEF TaskOK
  <2>2. s.left \in Wait /\ s.flight \in 1..MaxFlight /\ s.data \in DataOfLane /\ MaxFlight \in Nat
    BY <2>1, LaneFacts DEF InFlight, FeedInv, VendorOK
  <2>3. Sooner(s.left) \in Wait
    <3>1. s.left \in Nat /\ s.left <= lane.outer /\ lane.outer \in Nat
      BY <2>2, LaneFacts DEF Wait, FeedInv, VendorOK
    <3>2. QED BY <3>1, SoonerIs DEF Wait
  <2>4. r = [s EXCEPT !.left = Sooner(s.left), !.flight = s.flight - 1]
    BY <1>2, <1>4 DEF Passing
  <2>5. s.flight - 1 \in 0..MaxFlight
    BY <2>2
  <2>6. /\ r \in InFlight
        /\ r.pc = "flight" /\ r.kind = s.kind /\ r.data = s.data /\ r.flight = s.flight - 1
    BY <1>4, <2>1, <2>3, <2>4, <2>5 DEF InFlight
  <2>7. gone[s.data.v] + s.flight <= MaxFlight
    BY <1>4 DEF TaskOK, AgeOK
  <2>8. /\ gone[s.data.v] \in Nat /\ gone'[s.data.v] \in Nat
        /\ gone'[s.data.v] <= gone[s.data.v] + 1
    BY <2>2, Ages DEF FeedInv, VendorOK, DataOfLane
  <2>9. gone'[r.data.v] + r.flight <= MaxFlight
    BY <2>2, <2>6, <2>7, <2>8
  <2>10. AgeOK(r)'
    BY <2>6, <2>9 DEF AgeOK
  <2>11. TaskOK(r)'
    BY <1>1, <1>4, <2>6, <2>10 DEF TaskOK, TaskState, KindOK, Polled, HiddenOK
  <2>12. QED BY <1>2, <2>11
<1>5. CASE s.pc \notin {"ask", "flight"}
  <2>1. r = Idle
    BY <1>2, <1>5 DEF Passing
  <2>2. TaskOK(r)'
    BY <2>1 DEF TaskOK, TaskState, KindOK, AgeOK, HiddenOK, Idle
  <2>3. QED BY <1>2, <2>2
<1>6. QED BY <1>3, <1>4, <1>5

LEMMA FeedTick ==
  ASSUME FeedInv, Tick
  PROVE  FeedInv'
<1>1. VendorOK'
  BY Ages DEF FeedInv, VendorOK
<1>2. VisibilityOK'
  BY Ages DEF FeedInv, VisibilityOK, Tick
<1>3. task' = [t \in Tasks |-> Passing(task[t])]
  BY DEF Tick, Passing
<1>4. \A t \in Tasks : \E r : r = task'[t] /\ TaskOK(r)'
  <2> SUFFICES ASSUME NEW t \in Tasks PROVE \E r : r = task'[t] /\ TaskOK(r)'
    OBVIOUS
  <2>1. PICK s : s = task[t]
    OBVIOUS
  <2>2. TaskOK(s)
    BY <2>1 DEF FeedInv, TasksOK
  <2>3. s.pc = "flight" => s.flight > 0
    BY <2>1 DEF Tick, Waits
  <2>4. PICK r : r = Passing(s)
    OBVIOUS
  <2>5. TaskOK(r)'
    BY <2>2, <2>3, <2>4, TickTask
  <2>6. r = task'[t]
    BY <1>3, <2>1, <2>4
  <2>7. QED BY <2>5, <2>6
<1>5. TasksOK'
  <2>1. \A t \in Tasks : TaskOK(task[t])'
    BY <1>4 DEF TaskOK, KindOK, AgeOK, HiddenOK
  <2>2. task' \in [Tasks -> TaskState']
    BY <1>3, <2>1 DEF TaskOK
  <2>3. QED BY <2>1, <2>2 DEF TasksOK
<1>6. QED BY <1>1, <1>2, <1>5, TickCaches DEF FeedInv

-----------------------------------------------------------------------------
(* The invariant, and what follows *)

LEMMA FeedInit ==
  ASSUME Init
  PROVE  FeedInv
<1>1. lane \in Lanes
  BY DEF Init
<1>2. lane.outer \in Nat \ {0} /\ lane.versions \in Nat \ {0}
  BY <1>1, LaneFacts
<1>3. VendorOK
  <2>1. version = 1 /\ 1 \in 1..lane.versions
    BY <1>2 DEF Init
  <2>2. closed \in BOOLEAN
    BY DEF Init
  <2>3. gone \in [1..lane.versions -> Nat] /\ \A v \in 1..lane.versions : gone[v] = 0
    BY DEF Init
  <2>4. QED BY <1>1, <2>1, <2>2, <2>3 DEF VendorOK
<1>4. InnerOK /\ OuterOK
  BY DEF Init, InnerOK, OuterOK, CachedFor, NoEntry
<1>5. VisibilityOK
  BY <1>2 DEF Init, VisibilityOK
<1>6. TasksOK
  <2>1. task = [t \in Tasks |-> Idle]
    BY DEF Init
  <2>2. Idle \in TaskState
    BY DEF TaskState
  <2>3. QED BY <2>1, <2>2, FreeTask DEF TasksOK
<1>7. QED BY <1>3, <1>4, <1>5, <1>6 DEF FeedInv

LEMMA FeedProceed ==
  ASSUME FeedInv, NEW t \in Tasks, Proceed(t)
  PROVE  FeedInv'
BY FeedLookUp, FeedReadRedis, FeedFillMap, FeedFillDetail, FeedSyncMatches, FeedFilterList,
   FeedPassOn, FeedEmitIfChanged DEF Proceed

LEMMA FeedNext ==
  ASSUME FeedInv, [Next]_vars
  PROVE  FeedInv'
<1>1. ASSUME NEW t \in Tasks,
             \/ Read(t) \/ ReadDirect(t) \/ ReadLive(t) \/ Poll(t)
             \/ VendorAnswers(t) \/ VendorFails(t) \/ Store(t) \/ Proceed(t)
      PROVE  FeedInv'
  BY <1>1, FeedRead, FeedReadDirect, FeedReadLive, FeedPoll, FeedVendorAnswers, FeedVendorFails, FeedStore,
     FeedProceed
<1>2. ASSUME NEW value \in {"shown", "hidden"}, UpdateVisibility(value) PROVE FeedInv'
  BY <1>2, FeedUpdateVisibility
<1>3. CASE Sync \/ Subscribe \/ Unsubscribe \/ CleanInactive \/ Tick \/ UNCHANGED vars
  BY <1>3, FeedSync, FeedOthers, FeedTick
<1>4. QED BY <1>1, <1>2, <1>3 DEF Next

LEMMA FeedInvariant == Spec => []FeedInv
<1>1. Init => FeedInv
  BY FeedInit
<1>2. FeedInv /\ [Next]_vars => FeedInv'
  BY FeedNext
<1>3. QED BY <1>1, <1>2, PTL DEF Spec

LEMMA FreshFollows ==
  ASSUME FeedInv
  PROVE  Fresh
<1> SUFFICES ASSUME NEW t \in Tasks,
                    task[t].pc = "deliver" \/ (task[t].pc = "got" /\ task[t].kind = "poll")
             PROVE  task[t].data.closed \/ gone[task[t].data.v] <= Oldest(task[t].kind)
  BY DEF Fresh
<1>1. AgeOK(task[t])
  BY DEF FeedInv, TasksOK, TaskOK
<1>2. CASE task[t].pc = "deliver"
  BY <1>1, <1>2 DEF AgeOK
<1>3. CASE task[t].pc = "got" /\ task[t].kind = "poll"
  BY <1>1, <1>3 DEF AgeOK, Stale, Oldest
<1>4. QED BY <1>2, <1>3

\* Nobody is given data older than the caches' times to live and a request's time allow, for
\* any times, any kinds of data, and any number of readers and polls (getBetfairOdds,
\* fetchWithCache, getMatchDetail).
THEOREM DataFresh == Spec => []Fresh
<1>1. FeedInv => Fresh
  BY FreshFollows
<1>2. QED BY <1>1, FeedInvariant, PTL

LEMMA HiddenFollows ==
  ASSUME FeedInv
  PROVE  HiddenIsUnlisted
<1> SUFFICES ASSUME NEW t \in Tasks, lane.name = "list", task[t].pc = "deliver",
                    task[t].kind = "read", ~task[t].data.blind, decided = "hidden", decidedFor >= lane.outer
             PROVE  ~task[t].data.listed
  BY DEF HiddenIsUnlisted
<1>1. HiddenOK(task[t])
  BY DEF FeedInv, TasksOK, TaskOK
<1>2. decidedFor \in Nat /\ lane.outer \in Nat
  BY LaneFacts DEF FeedInv, VendorOK, VisibilityOK
<1>3. QED BY <1>1, <1>2 DEF HiddenOK, ListsHidden

\* A match that was hidden is off every list the aggregator gives out that was made with
\* visibility known, once the cached list has had its time (fetchMatchesForSport,
\* syncMatchesBatch).
THEOREM HiddenStaysUnlisted == Spec => []HiddenIsUnlisted
<1>1. FeedInv => HiddenIsUnlisted
  BY HiddenFollows
<1>2. QED BY <1>1, FeedInvariant, PTL
=============================================================================
