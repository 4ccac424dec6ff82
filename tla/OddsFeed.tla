------------------------------- MODULE OddsFeed -------------------------------
(***************************************************************************)
(* The vendor's data on its way to clients (src/src/cricketid,             *)
(* src/src/betting/betting.gateway.ts): match odds, bookmaker and fancy    *)
(* lines, the list of matches and the details of a market.  Each is read   *)
(* through two caches: an inner one in Redis, filled from the vendor, and  *)
(* an outer one, filled from the inner.  Some requests of clients go to    *)
(* the inner one directly.  Odds and lines are also polled and pushed to   *)
(* browsers.                                                               *)
(*                                                                         *)
(* One datum is followed.  Readers and polls are tasks that run at the     *)
(* same time; every Redis call, query and request to the vendor is a step. *)
(* Time is counted in ticks, which pass while the vendor is waited for;    *)
(* what the vendor has changes with them.                                  *)
(***************************************************************************)
EXTENDS Integers, FiniteSets, FiniteSetsExt

CONSTANTS
  Lanes,       \* kinds of data: name, times to live of the caches, attempts, how often it
               \* changes, requests of clients handled at the same time
  Pollers,     \* polls that may run at the same time
  MaxFlight,   \* the longest time an answer of the vendor is under way
  ClosedTtl,   \* MATCH_DETAIL_AFTER_END
  InactiveAfter \* how long a match stays registered

Names == {"odds", "fancy", "list", "detail"}

ASSUME FeedAssumption ==
  /\ \A l \in Lanes : /\ l.name \in Names
                       /\ {l.inner, l.outer, l.attempts, l.versions} \subseteq Nat \ {0}
  /\ {MaxFlight, ClosedTtl, InactiveAfter} \subseteq Nat \ {0}

VARIABLES
  lane,      \* the kind of data followed
  version, closed,  \* the vendor's data, and if its market is closed
  inner,     \* Redis
  outer,     \* AggregatorService.cache, or Redis for details
  enabled,   \* MatchVisibility.isEnabled, or "none"
  syncing,   \* rows of MatchVisibility are about to be created
  idleFor,   \* activeMatches: ticks since the match was last registered, or NotActive
  due,       \* is the cron job due
  room,      \* is the browser in the room
  pushed,    \* what was last sent to the room
  shown,     \* what the browser shows
  task,
  gone,      \* history: ticks since each version was replaced
  decided, decidedFor \* history: what an administrator last decided on visibility, ticks since

vars == <<lane, version, closed, inner, outer, enabled, syncing, idleFor, due, room, pushed, shown,
          task, gone, decided, decidedFor>>
vendor == <<version, closed, gone>>
visibility == <<enabled, syncing, decided, decidedFor>>
push == <<idleFor, due, room, pushed, shown>>

Readers == lane.readers
Tasks == Pollers \union UNION {l.readers : l \in Lanes}
Idle == [pc |-> "idle"]
NoEntry == [left |-> 0]
NotActive == -1
Nothing == 0
Polled == lane.name \in {"odds", "fancy"}

Horizon == MaxFlight + lane.inner + lane.outer
Goto(t, pc) == task' = [task EXCEPT ![t].pc = pc]
Failed(t) == task' = [task EXCEPT ![t] = [pc |-> "failed"]]
End(t) == task' = [task EXCEPT ![t] = Idle]

-----------------------------------------------------------------------------
(* Reading *)

\* getOddsAndFancy registers the match: the key is used again, with the time of now.
Registered == IF Polled THEN 0 ELSE idleFor

Lookup == IF lane.name = "detail" THEN "lookup" ELSE "redis"

\* The outer cache is asked first.  What will be put there expires by the time of now.
Read(t) ==
  /\ t \in Readers /\ task[t] = Idle
  /\ task' = [task EXCEPT ![t] =
       IF outer.left > 0
         THEN [pc |-> "deliver", kind |-> "read", data |-> outer.data]
         ELSE [pc |-> Lookup, kind |-> "read", left |-> lane.outer, tries |-> 0]]
  /\ idleFor' = Registered
  /\ UNCHANGED <<lane, vendor, inner, outer, visibility, due, room, pushed, shown>>

\* Endpoints beside the aggregator's (odds, bookmaker-fancy, events-by-sport, match-detail)
\* give out what the inner cache or the vendor has.
ReadDirect(t) ==
  /\ t \in Readers /\ task[t] = Idle
  /\ task' = [task EXCEPT ![t] = [pc |-> "redis", kind |-> "direct", left |-> 0, tries |-> 0]]
  /\ UNCHANGED <<lane, vendor, inner, outer, visibility, push>>

\* A placement has the inner cache emptied, which may fail, and asks the vendor in any case.
ReadLive(t) ==
  /\ lane.name = "odds" /\ t \in Readers /\ task[t] = Idle
  /\ inner' \in {NoEntry, inner}
  /\ task' = [task EXCEPT ![t] = [pc |-> "ask", kind |-> "live", left |-> 0, tries |-> 0]]
  /\ UNCHANGED <<lane, vendor, outer, visibility, push>>

\* Cron jobs poll for the matches registered, whether or not earlier polls have ended.
Poll(t) ==
  /\ due /\ Polled /\ idleFor # NotActive
  /\ t \in Pollers /\ task[t] = Idle
  /\ due' = FALSE
  /\ task' = [task EXCEPT ![t] = [pc |-> "redis", kind |-> "poll", left |-> 0, tries |-> 0]]
  /\ UNCHANGED <<lane, vendor, inner, outer, visibility, idleFor, room, pushed, shown>>

\* The market of an event is looked for in the lists of events; there may be none.
LookUp(t) ==
  /\ task[t].pc = "lookup"
  /\ Goto(t, "redis") \/ Failed(t)
  /\ UNCHANGED <<lane, vendor, inner, outer, visibility, push>>

\* Redis may fail, which reads as a miss.
ReadRedis(t) ==
  /\ task[t].pc = "redis"
  /\ \/ /\ inner.left > 0
        /\ task' = [task EXCEPT ![t] = [pc |-> "got", kind |-> @.kind, left |-> @.left,
                                        data |-> inner.data]]
     \/ Goto(t, "ask")
  /\ UNCHANGED <<lane, vendor, inner, outer, visibility, push>>

\* The vendor answers with what it has now; the answer is under way.
Answered(t, data) ==
  /\ task[t].pc = "ask"
  /\ task' = [task EXCEPT ![t] = [pc |-> "flight", kind |-> @.kind, left |-> @.left, tries |-> @.tries,
                                  data |-> data, flight |-> MaxFlight]]
  /\ UNCHANGED <<lane, vendor, inner, outer, visibility, push>>

Data(isClosed) == [v |-> version, closed |-> isClosed, listed |-> TRUE, blind |-> FALSE]

\* Names of runners, looked for in the details, are added if they are found.
QuoteOdds(t) == lane.name = "odds" /\ Answered(t, Data(FALSE))

\* Sorted, with the markets that are not wanted left out and the others marked as suspended
\* or not.
QuoteFancy(t) == lane.name = "fancy" /\ Answered(t, Data(FALSE))

\* Competitions that are allowed, one market per event.
ListEvents(t) == lane.name = "list" /\ Answered(t, Data(FALSE))

DescribeMarket(t) == lane.name = "detail" /\ Answered(t, Data(closed))

VendorAnswers(t) == QuoteOdds(t) \/ QuoteFancy(t) \/ ListEvents(t) \/ DescribeMarket(t)

\* Requests for lists and details are made again after some failures, an empty list and no
\* lines are asked for in another way.
MayRetry(t) == task[t].tries + 1 < lane.attempts

VendorFails(t) ==
  /\ task[t].pc \in {"ask", "flight"}
  /\ \/ /\ MayRetry(t)
        /\ task' = [task EXCEPT ![t] = [pc |-> "ask", kind |-> @.kind, left |-> @.left,
                                        tries |-> @.tries + 1]]
     \/ Failed(t)
  /\ UNCHANGED <<lane, vendor, inner, outer, visibility, push>>

\* Mutant: details are kept as long whether or not the market is closed.
TtlOfDetails(data) == IF lane.name = "detail" THEN ClosedTtl ELSE lane.inner

TtlOf(data) == IF data.closed THEN ClosedTtl ELSE lane.inner

\* What the vendor answered is stored, or not if Redis fails.  A task that asked earlier may
\* store it later.
Store(t) ==
  /\ task[t].pc = "flight"
  /\ inner' \in {inner, [data |-> task[t].data, left |-> TtlOf(task[t].data)]}
  /\ task' = [task EXCEPT ![t] = [pc |-> "got", kind |-> @.kind, left |-> @.left, data |-> @.data]]
  /\ UNCHANGED <<lane, vendor, outer, visibility, push>>

-----------------------------------------------------------------------------
(* The outer caches *)

Delivered(t, data) ==
  task' = [task EXCEPT ![t] = [pc |-> "deliver", kind |-> @.kind, data |-> data]]

\* fetchWithCache: entries expire by the time before the fetch.
LeftOf(t) == task[t].left

Entry(data, left) == IF left = 0 THEN NoEntry ELSE [data |-> data, left |-> left]

FillMap(t) ==
  /\ lane.name \in {"odds", "fancy"} /\ task[t].pc = "got" /\ task[t].kind = "read"
  /\ outer' = Entry(task[t].data, LeftOf(t))
  /\ Delivered(t, task[t].data)
  /\ UNCHANGED <<lane, vendor, inner, visibility, push>>

\* getMatchDetail: in Redis, after the fetch.
FillDetail(t) ==
  /\ lane.name = "detail" /\ task[t].pc = "got" /\ task[t].kind = "read"
  /\ outer' \in {outer, Entry(task[t].data, lane.outer)}
  /\ Delivered(t, task[t].data)
  /\ UNCHANGED <<lane, vendor, inner, visibility, push>>

\* The aggregator's list is filtered.  Rows for new matches are created meanwhile; nobody
\* waits for them.
SyncMatches(t) ==
  /\ lane.name = "list" /\ task[t].pc = "got" /\ task[t].kind = "read"
  /\ syncing' = TRUE
  /\ Goto(t, "visibility")
  /\ UNCHANGED <<lane, vendor, inner, outer, enabled, decided, decidedFor, push>>

\* Matches without a row are shown, and all are if the query fails.
Enabled == enabled # "hidden"

\* The filter is applied before the list is put into the cache.
FilterList(t) ==
  /\ task[t].pc = "visibility"
  /\ \E data \in {[task[t].data EXCEPT !.listed = Enabled],
                  [task[t].data EXCEPT !.listed = TRUE, !.blind = TRUE]} :
       /\ outer' = Entry(data, LeftOf(t))
       /\ Delivered(t, data)
  /\ UNCHANGED <<lane, vendor, inner, visibility, push>>

\* Others get what there is, the list of events-by-sport with the matches that are hidden.
PassOn(t) ==
  /\ task[t].pc = "got" /\ task[t].kind \in {"live", "direct"}
  /\ Delivered(t, task[t].data)
  /\ UNCHANGED <<lane, vendor, inner, outer, visibility, push>>

-----------------------------------------------------------------------------
(* Visibility *)

UpdateVisibility(value) ==
  /\ lane.name = "list" /\ decided # value
  /\ enabled' = value
  /\ decided' = value /\ decidedFor' = 0
  /\ UNCHANGED <<lane, vendor, inner, outer, syncing, push, task>>

\* A row that is there is left as it is.
\* Mutant: every match that is listed is enabled.
SyncedAlways == "shown"

Synced == IF enabled = "none" THEN "shown" ELSE enabled

Sync ==
  /\ syncing
  /\ enabled' \in {enabled, Synced}
  /\ syncing' = FALSE
  /\ UNCHANGED <<lane, vendor, inner, outer, decided, decidedFor, push, task>>

-----------------------------------------------------------------------------
(* Push *)

\* What is sent has the time it is sent at, and so differs from what was sent before.
\* Mutant: only data that differs from what was sent before is sent.
DataChanged(data) == pushed # data.v

Changed(data) == TRUE

EmitIfChanged(t) ==
  /\ task[t].pc = "got" /\ task[t].kind = "poll"
  /\ IF Changed(task[t].data)
       THEN /\ pushed' = task[t].data.v
            /\ shown' = IF room THEN task[t].data.v ELSE shown
       ELSE UNCHANGED <<pushed, shown>>
  /\ End(t)
  /\ UNCHANGED <<lane, vendor, inner, outer, visibility, idleFor, due, room>>

\* Who joins gets what is sent from now on.  Lines may be asked for without naming the
\* markets, which registers nothing.
Subscribe ==
  /\ Polled /\ ~room
  /\ room' = TRUE /\ shown' = Nothing
  /\ idleFor' \in IF lane.name = "fancy" THEN {Registered, idleFor} ELSE {Registered}
  /\ UNCHANGED <<lane, vendor, inner, outer, visibility, due, pushed, task>>

Unsubscribe ==
  /\ room
  /\ room' = FALSE
  /\ UNCHANGED <<lane, vendor, inner, outer, visibility, idleFor, due, pushed, shown, task>>

\* Rooms that are not empty do not keep a match registered.
CleanInactive ==
  /\ idleFor = InactiveAfter
  /\ idleFor' = NotActive
  /\ UNCHANGED <<lane, vendor, inner, outer, visibility, due, room, pushed, shown, task>>

-----------------------------------------------------------------------------
Waits(t) ==
  \/ task[t].pc \in {"idle", "ask", "deliver", "failed"}
  \/ task[t].pc = "flight" /\ task[t].flight > 0

Older(entry) == IF entry.left <= 1 THEN NoEntry ELSE [entry EXCEPT !.left = @ - 1]

Sooner(left) == Max({left - 1, 0})

\* Answers reach those who asked before time passes.
Tick ==
  /\ \A t \in Tasks : Waits(t)
  /\ version' \in {version, Min({version + 1, lane.versions})}
  /\ closed' \in (IF lane.name = "detail" /\ version' # version THEN BOOLEAN ELSE {closed})
  /\ gone' = [v \in 1..lane.versions |-> IF v >= version' THEN 0 ELSE Min({gone[v] + 1, Horizon})]
  /\ inner' = Older(inner) /\ outer' = Older(outer)
  /\ task' = [t \in Tasks |->
       CASE task[t].pc = "ask" -> [task[t] EXCEPT !.left = Sooner(@)]
         [] task[t].pc = "flight" -> [task[t] EXCEPT !.left = Sooner(@), !.flight = @ - 1]
         [] OTHER -> Idle]
  /\ idleFor' = IF idleFor = NotActive THEN NotActive ELSE Min({idleFor + 1, InactiveAfter})
  /\ decidedFor' = Min({decidedFor + 1, lane.outer})
  /\ due' = Polled
  /\ UNCHANGED <<lane, enabled, syncing, decided, room, pushed, shown>>

Init ==
  /\ lane \in Lanes
  /\ version = 1 /\ closed = FALSE
  /\ inner = NoEntry /\ outer = NoEntry
  /\ enabled = "none" /\ syncing = FALSE
  /\ idleFor = NotActive /\ due = FALSE /\ room = FALSE /\ pushed = Nothing /\ shown = Nothing
  /\ task = [t \in Tasks |-> Idle]
  /\ gone = [v \in 1..lane.versions |-> 0]
  /\ decided = "none" /\ decidedFor = lane.outer

\* What a task that has begun does on its own.
Proceed(t) ==
  \/ LookUp(t) \/ ReadRedis(t) \/ FillMap(t) \/ FillDetail(t) \/ SyncMatches(t) \/ FilterList(t)
  \/ PassOn(t) \/ EmitIfChanged(t)

Next ==
  \/ \E t \in Tasks : \/ Read(t) \/ ReadDirect(t) \/ ReadLive(t) \/ Poll(t)
                      \/ VendorAnswers(t) \/ VendorFails(t) \/ Store(t) \/ Proceed(t)
  \/ \E value \in {"shown", "hidden"} : UpdateVisibility(value)
  \/ Sync \/ Subscribe \/ Unsubscribe \/ CleanInactive \/ Tick

Spec == Init /\ [][Next]_vars

Polling(t) == task[t].pc \in {"ask", "flight"} /\ task[t].kind = "poll"

\* The server handles its tasks and runs its cron jobs whenever one of the tasks is free, time
\* passes, requests to the vendor end, and not every one of a poll fails.  Nothing makes readers, administrators or
\* browsers act.
FairSpec ==
  /\ Spec
  /\ WF_vars(Tick)
  /\ WF_vars(\E t \in Tasks : Proceed(t) \/ VendorAnswers(t) \/ VendorFails(t) \/ Store(t))
  /\ SF_vars(\E t \in Pollers : Poll(t))
  /\ SF_vars(\E t \in Pollers : Polling(t) /\ VendorAnswers(t))
  /\ SF_vars(\E t \in Pollers : Polling(t) /\ Store(t))

-----------------------------------------------------------------------------
(* Properties *)

\* How old data may be: a placement sees what the vendor had while it waited, others what
\* the caches add to that.
Oldest(kind) ==
  CASE kind = "live" -> MaxFlight
    [] kind \in {"poll", "direct"} -> MaxFlight + lane.inner - 1
    [] kind = "read" -> MaxFlight + lane.inner - 1 + lane.outer - 1

\* The caches on the way of a datum add up, and no more: whatever order answers come in and
\* are stored, which of the caches fail, and whatever placements empty, nobody is given data
\* the vendor replaced longer ago than the times to live allow; a placement gets none from a
\* cache.  Details that said the market was closed are kept for an hour and excepted
\* (getBetfairOdds, fetchWithCache, getMatchDetail).
Fresh ==
  \A t \in Tasks :
    (task[t].pc = "deliver" \/ (task[t].pc = "got" /\ task[t].kind = "poll")) =>
      task[t].data.closed \/ gone[task[t].data.v] <= Oldest(task[t].kind)

\* A match that an administrator hid is not on the list the aggregator gives out once the
\* cached list has had its time, unless it was shown again since, or the list was made while
\* visibility could not be read: slow fetches, the creation of rows and the lists that other
\* endpoints fetch do not bring it back (fetchMatchesForSport, syncMatchesBatch).  The lists
\* of events-by-sport are not filtered: a hidden match stays on them.
HiddenIsUnlisted ==
  \A t \in Tasks :
    ( /\ lane.name = "list" /\ task[t].pc = "deliver" /\ task[t].kind = "read"
      /\ ~task[t].data.blind
      /\ decided = "hidden" /\ decidedFor >= lane.outer ) =>
      ~task[t].data.listed

\* A browser that stays in its room while the match stays registered ends up showing what the
\* vendor has, also if it joined after that was sent, and if polls overtake each other
\* (emitOddsIfChanged, fetchOddsFast).
EventuallyShown ==
  <>[](Polled /\ room /\ idleFor # NotActive) => <>[](shown = version)
=============================================================================
