---------------------------- MODULE BetAcceptance ----------------------------
(***************************************************************************)
(* What decides whether a bet gets as far as its transaction               *)
(* (src/src/bets/bets.service.ts): the lists of stopped events, the        *)
(* comparison with the vendor's live price, the snapshot of a price kept   *)
(* in Redis, and the delay an administrator sets for an event.             *)
(*                                                                         *)
(* The settings are rows that are read, changed and written as a whole.    *)
(* Placements and requests for settings run at the same time; every query, *)
(* Redis call and request to the vendor is a step.  Time is counted in     *)
(* ticks: only sleeping and waiting for the vendor take any, and prices    *)
(* move with them.                                                         *)
(***************************************************************************)
EXTENDS Integers, FiniteSets, FiniteSetsExt

CONSTANTS
  Events,
  Placements, \* requests to place a bet
  Admins,     \* requests for settings handled at the same time
  Requests,   \* list, event, side and rate of the bets asked for, and if the price is checked
  Quotes,     \* prices to back and to lay at that the vendor may have
  Delays,     \* delays asked for, and the one an older version left
  Inherited,  \* sets of events it left it for
  MaxAcceptDelay, \* MAX_BET_ACCEPT_DELAY_SEC
  MaxFlight,  \* the longest time an answer of the vendor is under way
  Mixes       \* what goes on together: activities, bets asked for, number of requests for settings

Lists == {"matchodds", "fancy"}
Activities == {"prices", "stops", "delays"}
NoDelay == 0
Unknown == -1

ASSUME AcceptanceAssumption ==
  /\ \A r \in Requests : r.event \in Events /\ (r.checked => r.list = "matchodds")
  /\ Inherited \subseteq SUBSET Events
  /\ Delays \subseteq Nat \ {NoDelay} /\ Delays # {} /\ IsFiniteSet(Delays)
  /\ {MaxAcceptDelay, MaxFlight} \subseteq Nat
  /\ \A m \in Mixes : m.goes \subseteq Activities /\ m.bets \subseteq Requests /\ m.settings \in Nat

VARIABLES
  mix,       \* what goes on
  stopped,   \* Setting: the lists of stopped events
  canonical, legacy, \* Setting: the delays, under the present and the deprecated key
  snapshot,  \* Redis: the price kept, and the ticks it is kept for
  quote,     \* what the vendor has now
  placement,
  setting,   \* the requests for settings
  settings,  \* how many were made
  offered,   \* history: ticks since the vendor last had a price
  held,      \* history: events that were stopped for certain
  delayOf    \* history: the delays that were set for certain

vars == <<mix, stopped, canonical, legacy, snapshot, quote, placement, setting, settings,
          offered, held, delayOf>>
rows == <<stopped, canonical, legacy>>
feed == <<quote, offered>>
known == <<held, delayOf>>

Idle == [pc |-> "idle"]
NoSnapshot == [left |-> 0]
LongestDelay == Max(Delays)
Horizon == MaxFlight + 2 * LongestDelay + 1

Ended(p) == placement[p].pc \in {"accepted", "refused"}
Now(p, pc) == placement' = [placement EXCEPT ![p].pc = pc]
End(p, pc) == placement' = [placement EXCEPT ![p] = [pc |-> pc, held |-> pc = "accepted" /\ @.held]]
Refused == [pc |-> "refused", held |-> FALSE]

-----------------------------------------------------------------------------
(* The rate of a bet and the vendor's prices, in hundredths *)

\* Clients may send a rate ten or a hundred times what it is.
Decimal(rate) ==
  CASE rate >= 10000 -> rate \div 100
    [] rate \in 1000..9999 -> rate \div 10
    [] OTHER -> rate

\* The vendor's best price is at least as good.  A runner that is missing has no prices.
Achievable(request, q) ==
  IF request.side = "BACK"
    THEN \E price \in q.backs : price >= Decimal(request.rate)
    ELSE \E price \in q.lays : price <= Decimal(request.rate)

\* Both keys are read; the canonical one wins.
Merged(e) == IF canonical[e] # NoDelay THEN canonical[e] ELSE legacy[e]

-----------------------------------------------------------------------------
(* Settings *)

Busy(pcs) == {a \in Admins : setting[a].pc \in pcs}
WritingTo(list) == {a \in Busy({"write"}) : setting[a].list = list}
WritingDelays == Busy({"canonical", "legacy"})

MayAsk(activity, a) == activity \in mix.goes /\ setting[a] = Idle /\ settings < mix.settings

SetBlocked(a, list, e, block) ==
  /\ MayAsk("stops", a)
  /\ setting' = [setting EXCEPT ![a] =
       [pc |-> "write", list |-> list, event |-> e, block |-> block,
        value |-> IF block THEN stopped[list] \union {e} ELSE stopped[list] \ {e}]]
  /\ settings' = settings + 1
  /\ held' = IF block THEN held ELSE [held EXCEPT ![list] = @ \ {e}]
  /\ UNCHANGED <<mix, rows, snapshot, feed, placement, delayOf>>

\* The whole list is written.  What a request stops while another one is about to write the
\* same list may be lost; what was stopped before both is in what both read.
WriteBlocked(a) ==
  /\ setting[a].pc = "write"
  /\ LET list == setting[a].list IN
       /\ stopped' = [stopped EXCEPT ![list] = setting[a].value]
       /\ held' = IF setting[a].block /\ WritingTo(list) = {a}
                    THEN [held EXCEPT ![list] = @ \union {setting[a].event}] ELSE held
  /\ setting' = [setting EXCEPT ![a] = Idle]
  /\ UNCHANGED <<mix, canonical, legacy, snapshot, feed, placement, settings, delayOf>>

SetDelay(a, e, delay) ==
  /\ MayAsk("delays", a)
  /\ setting' = [b \in Admins |->
       IF b = a THEN [pc |-> "canonical", event |-> e, value |-> [canonical EXCEPT ![e] = delay],
                      alone |-> WritingDelays = {}]
       ELSE IF b \in WritingDelays THEN [setting[b] EXCEPT !.alone = FALSE] ELSE setting[b]]
  /\ settings' = settings + 1
  /\ delayOf' = [delayOf EXCEPT ![e] = Unknown]
  /\ UNCHANGED <<mix, rows, snapshot, feed, placement, held>>

WriteCanonical(a) ==
  /\ setting[a].pc = "canonical"
  /\ canonical' = setting[a].value
  /\ setting' = [setting EXCEPT ![a].pc = "legacy"]
  /\ UNCHANGED <<mix, stopped, legacy, snapshot, feed, placement, settings, known>>

\* The deprecated key gets the same value.
\* Mutant: it gets the delays it lacks, and keeps the others.
MirrorAdded(value) == [e \in Events |-> IF value[e] # NoDelay THEN value[e] ELSE legacy[e]]

Mirror(value) == value

WriteLegacy(a) ==
  /\ setting[a].pc = "legacy"
  /\ legacy' = Mirror(setting[a].value)
  /\ delayOf' = IF setting[a].alone
                  THEN [delayOf EXCEPT ![setting[a].event] = setting[a].value[setting[a].event]]
                  ELSE delayOf
  /\ setting' = [setting EXCEPT ![a] = Idle]
  /\ UNCHANGED <<mix, stopped, canonical, snapshot, feed, placement, settings, held>>

\* The database refuses a write; what was written before stays.
SettingFails(a) ==
  /\ setting[a] # Idle
  /\ setting' = [setting EXCEPT ![a] = Idle]
  /\ UNCHANGED <<mix, rows, snapshot, feed, placement, settings, known>>

-----------------------------------------------------------------------------
(* Placement *)

\* Bets of a bookmaker have no list.
\* Mutant: fancy bets look at the list of match odds.
OnMatchOddsList(request) == request.list # "none" /\ request.event \in stopped["matchodds"]

OnStoppedList(request) == request.list \in Lists /\ request.event \in stopped[request.list]

\* Match odds without a selection, and tied matches, are not compared with the feed but wait.
Begin(p, request) ==
  /\ placement[p] = Idle
  /\ placement' = [placement EXCEPT ![p] =
       IF OnStoppedList(request) THEN Refused
       ELSE [request |-> request, ttl |-> NoDelay, left |-> 0, late |-> 0,
             held |-> request.list \in Lists /\ request.event \in held[request.list],
             pc |-> CASE request.list # "matchodds" -> "sleep"
                      [] request.checked -> "override"
                      [] OTHER -> "delay"]]
  /\ UNCHANGED <<mix, rows, snapshot, feed, setting, settings, known>>

ReadOverride(p) ==
  /\ placement[p].pc = "override"
  /\ placement' = [placement EXCEPT ![p].pc = "ask", ![p].ttl = Merged(placement[p].request.event)]
  /\ UNCHANGED <<mix, rows, snapshot, feed, setting, settings, known>>

\* The cache of the feed is not asked: the answer is what the vendor has when it answers.
VendorQuotes(p) ==
  /\ placement[p].pc = "ask"
  /\ placement' = [placement EXCEPT ![p] =
       [pc |-> "flight", request |-> @.request, ttl |-> @.ttl, left |-> MaxFlight, late |-> 0,
        held |-> @.held, quote |-> quote]]
  /\ UNCHANGED <<mix, rows, snapshot, feed, setting, settings, known>>

\* Whatever is wrong with the vendor, the bet is refused.
VendorFails(p) ==
  /\ placement[p].pc \in {"ask", "flight"}
  /\ End(p, "refused")
  /\ UNCHANGED <<mix, rows, snapshot, feed, setting, settings, known>>

\* The answer arrives.
Receive(p) ==
  /\ placement[p].pc = "flight"
  /\ Now(p, IF placement[p].ttl # NoDelay THEN "keep" ELSE "check")
  /\ UNCHANGED <<mix, rows, snapshot, feed, setting, settings, known>>

\* The price is kept before it is looked at.  Redis may fail to.
\* Mutant: it is kept without an expiry.
KeptForGood(p) == Horizon

KeptFor(p) == placement[p].ttl

KeepSnapshot(p) ==
  /\ placement[p].pc = "keep"
  /\ snapshot' \in {snapshot, [quote |-> placement[p].quote, left |-> KeptFor(p)]}
  /\ Now(p, "check")
  /\ UNCHANGED <<mix, rows, feed, setting, settings, known>>

Check(p) ==
  /\ placement[p].pc = "check"
  /\ IF Achievable(placement[p].request, placement[p].quote) THEN Now(p, "delay")
     ELSE IF placement[p].ttl # NoDelay THEN Now(p, "fallback")
     ELSE End(p, "refused")
  /\ UNCHANGED <<mix, rows, snapshot, feed, setting, settings, known>>

\* The price kept may be that of another placement, kept since.
FallBack(p) ==
  /\ placement[p].pc = "fallback"
  /\ \/ /\ snapshot.left > 0 /\ Achievable(placement[p].request, snapshot.quote)
        /\ placement' = [placement EXCEPT ![p].pc = "delay", ![p].late = LongestDelay - 1]
     \/ End(p, "refused")
  /\ UNCHANGED <<mix, rows, snapshot, feed, setting, settings, known>>

\* The delay is read again.
ReadDelay(p) ==
  /\ placement[p].pc = "delay"
  /\ LET sleep == Min({Merged(placement[p].request.event), MaxAcceptDelay}) IN
     placement' = [placement EXCEPT ![p] =
       [pc |-> "sleep", request |-> @.request, held |-> @.held, left |-> sleep,
        late |-> IF @.request.checked THEN @.late + MaxFlight + sleep ELSE Horizon]]
  /\ UNCHANGED <<mix, rows, snapshot, feed, setting, settings, known>>

\* The transaction, which OpenBets has in detail: nothing above is looked at again.
Commit(p) ==
  /\ placement[p].pc = "sleep" /\ placement[p].left = 0
  /\ \E outcome \in {"accepted", "refused"} : End(p, outcome)
  /\ UNCHANGED <<mix, rows, snapshot, feed, setting, settings, known>>

-----------------------------------------------------------------------------
\* Placements that wait let time pass.
Waits(p) ==
  \/ Ended(p) \/ placement[p].pc \in {"idle", "ask"}
  \/ placement[p].pc \in {"flight", "sleep"} /\ placement[p].left > 0

\* Prices move with the ticks.
Tick ==
  /\ "prices" \in mix.goes
  /\ \A p \in Placements : Waits(p)
  /\ quote' \in Quotes
  /\ offered' = [q \in Quotes |-> IF q = quote' THEN 0 ELSE Min({offered[q] + 1, Horizon})]
  /\ snapshot' = IF snapshot.left <= 1 THEN NoSnapshot ELSE [snapshot EXCEPT !.left = @ - 1]
  /\ placement' = [p \in Placements |-> IF placement[p].pc \in {"flight", "sleep"}
                                          THEN [placement[p] EXCEPT !.left = @ - 1] ELSE placement[p]]
  /\ UNCHANGED <<mix, rows, setting, settings, known>>

Init ==
  /\ mix \in Mixes
  /\ stopped = [list \in Lists |-> {}]
  /\ canonical = [e \in Events |-> NoDelay]
  \* Delays set before the key was changed.
  /\ legacy \in {[e \in Events |-> IF e \in S THEN LongestDelay ELSE NoDelay] : S \in Inherited}
  /\ snapshot = NoSnapshot
  /\ quote \in Quotes
  /\ placement = [p \in Placements |-> Idle]
  /\ setting = [a \in Admins |-> Idle]
  /\ settings = 0
  /\ offered = [q \in Quotes |-> IF q = quote THEN 0 ELSE Horizon]
  /\ held = [list \in Lists |-> {}]
  /\ delayOf = [e \in Events |-> Unknown]

Settings(a) ==
  \/ \E list \in Lists, e \in Events, block \in BOOLEAN : SetBlocked(a, list, e, block)
  \/ WriteBlocked(a)
  \/ \E e \in Events, delay \in Delays \union {NoDelay} : SetDelay(a, e, delay)
  \/ WriteCanonical(a) \/ WriteLegacy(a) \/ SettingFails(a)

Placing(p) ==
  \/ \E request \in mix.bets : Begin(p, request)
  \/ ReadOverride(p) \/ VendorQuotes(p) \/ VendorFails(p) \/ Receive(p)
  \/ KeepSnapshot(p) \/ Check(p) \/ FallBack(p) \/ ReadDelay(p) \/ Commit(p)

Next == (\E a \in Admins : Settings(a)) \/ (\E p \in Placements : Placing(p)) \/ Tick

Spec == Init /\ [][Next]_vars

-----------------------------------------------------------------------------
(* Properties *)

\* A bet is accepted only at a rate the vendor offered, or bettered, within the time its
\* answer was under way, the bet was delayed and, if it was accepted by a price that another
\* bet had left in Redis, the time such prices are kept.  Bets overwrite each other's
\* snapshots, prices move and settings change meanwhile (assertMatchOddsRateAgainstBetfair).
PriceWasOffered ==
  [][\A p \in Placements :
       (placement[p].pc = "sleep" /\ placement'[p].pc = "accepted" /\ placement[p].request.checked) =>
         \E q \in Quotes : Achievable(placement[p].request, q) /\ offered[q] <= placement[p].late]_vars

\* Once a request to stop betting on an event was answered, no bet asked for later is accepted
\* on it until somebody asks to allow it, whatever else is done to the list: only a request
\* for the same list that was being handled at that moment can undo it
\* (setMatchOddsBlockedForEvent, setFancyBlockedForEvent, placeBet).
StopHolds == \A p \in Placements : placement[p].pc = "accepted" => ~placement[p].held

\* A delay that was set or removed with success, while no other request for delays was
\* handled, is in force until the next request for the event, whatever requests for other
\* events do, or leave undone between their two writes.
DelayHolds == \A e \in Events : delayOf[e] # Unknown => Merged(e) = delayOf[e]
=============================================================================
