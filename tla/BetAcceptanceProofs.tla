------------------------- MODULE BetAcceptanceProofs -------------------------
(***************************************************************************)
(* The settings of events hold, for any events, delays, mixes and numbers  *)
(* of requests: a confirmed stop keeps bets away and a confirmed delay     *)
(* stays in force, although the rows are written as a whole.               *)
(*                                                                         *)
(* What makes both work is that a request in flight carries everything     *)
(* that was confirmed before it began (Carried), and that what is          *)
(* confirmed was written by a request that met no other one.               *)
(***************************************************************************)
EXTENDS BetAcceptance, MoneyTheorems

Delay == Delays \union {NoDelay}

StopRequest == [pc : {"write"}, list : Lists, event : Events, block : BOOLEAN, value : SUBSET Events]
DelayRequest == [pc : {"canonical", "legacy"}, event : Events, value : [Events -> Delay], alone : BOOLEAN]

RowsOK ==
  /\ stopped \in [Lists -> SUBSET Events]
  /\ held \in [Lists -> SUBSET Events]
  /\ canonical \in [Events -> Delay]
  /\ delayOf \in [Events -> Delay \union {Unknown}]
  /\ setting \in [Admins -> {Idle} \union StopRequest \union DelayRequest]

\* A request to stop betting on an event writes a list that has it.
StopAsked ==
  \A a \in Admins : (setting[a].pc = "write" /\ setting[a].block) => setting[a].event \in setting[a].value

\* What is confirmed is in the list, and in what every request is about to write to it.
StopsCarried ==
  \A list \in Lists :
    /\ held[list] \subseteq stopped[list]
    /\ \A a \in Admins : (setting[a].pc = "write" /\ setting[a].list = list) =>
                           held[list] \subseteq setting[a].value

\* A request that is still alone is the only one.
AloneIsOnly ==
  \A a, b \in WritingDelays : setting[a].alone => b = a

\* A confirmed delay is in the canonical row, and in what every request is about to write;
\* a confirmed absence is also in the deprecated row.
DelaysCarried ==
  \A e \in Events : delayOf[e] # Unknown =>
    /\ canonical[e] = delayOf[e]
    /\ delayOf[e] = NoDelay => legacy[e] = NoDelay
    /\ \A a \in WritingDelays : setting[a].value[e] = delayOf[e]

\* Nobody writes between the two writes of a request that is alone.
HalfWritten ==
  \A a \in Admins : (setting[a].pc = "legacy" /\ setting[a].alone) => canonical = setting[a].value

\* No placement goes on that was asked for on an event whose stop is confirmed.
NoneHeld ==
  \A p \in Placements :
    \/ placement[p] = Idle
    \/ {"pc", "held"} \subseteq DOMAIN placement[p] /\ placement[p].held = FALSE

Carried == StopsCarried /\ AloneIsOnly /\ DelaysCarried /\ HalfWritten

SettingsInv == RowsOK /\ StopAsked /\ Carried

PlacementsInv == placement = [p \in Placements |-> placement[p]] /\ NoneHeld

-----------------------------------------------------------------------------
(* Requests for settings *)

LEMMA InitSettings == Init => SettingsInv
BY AcceptanceAssumption DEF Init, SettingsInv, RowsOK, StopAsked, Carried, StopsCarried,
   AloneIsOnly, DelaysCarried, HalfWritten, Idle, WritingDelays, Busy, Delay, Lists, NoDelay, Unknown

LEMMA StepSetBlocked ==
  ASSUME SettingsInv, NEW a \in Admins, NEW list \in Lists, NEW e \in Events, NEW block \in BOOLEAN,
         SetBlocked(a, list, e, block)
  PROVE  SettingsInv'
<1> USE DEF Idle
<1>1. RowsOK'
  BY DEF SettingsInv, RowsOK, SetBlocked, StopRequest, rows
<1>2. StopsCarried'
  BY DEF SettingsInv, RowsOK, Carried, StopsCarried, SetBlocked, StopRequest, DelayRequest, rows
<1>3. AloneIsOnly' /\ DelaysCarried' /\ HalfWritten'
  BY DEF SettingsInv, RowsOK, Carried, AloneIsOnly, DelaysCarried, HalfWritten, SetBlocked,
     WritingDelays, Busy, rows, MayAsk
<1>s. StopAsked'
  BY DEF SettingsInv, RowsOK, StopAsked, SetBlocked, StopRequest, DelayRequest
<1>4. QED BY <1>s, <1>1, <1>2, <1>3 DEF SettingsInv, Carried

LEMMA StepWriteBlocked ==
  ASSUME SettingsInv, NEW a \in Admins, WriteBlocked(a)
  PROVE  SettingsInv'
<1> USE DEF Idle
<1>0. setting[a] \in StopRequest
  BY DEF SettingsInv, RowsOK, WriteBlocked, StopRequest, DelayRequest
<1>1. RowsOK'
  BY <1>0 DEF SettingsInv, RowsOK, WriteBlocked, StopRequest, rows
<1>2. StopsCarried'
  <2> SUFFICES ASSUME NEW list \in Lists
               PROVE  /\ held'[list] \subseteq stopped'[list]
                      /\ \A b \in Admins : (setting'[b].pc = "write" /\ setting'[b].list = list) =>
                                             held'[list] \subseteq setting'[b].value
    BY DEF StopsCarried
  <2>1. CASE list # setting[a].list
    BY <1>0, <2>1 DEF SettingsInv, RowsOK, Carried, StopsCarried, WriteBlocked, StopRequest
  <2>2. CASE list = setting[a].list
    <3>1. stopped'[list] = setting[a].value /\ held[list] \subseteq setting[a].value
      BY <1>0, <2>2 DEF SettingsInv, RowsOK, Carried, StopsCarried, WriteBlocked
    <3>2. \A b \in Admins : setting'[b].pc = "write" => b # a /\ setting'[b] = setting[b]
      BY DEF SettingsInv, RowsOK, WriteBlocked
    <3>3. CASE held' = held
      BY <3>1, <3>2, <3>3 DEF SettingsInv, Carried, StopsCarried
    <3>4. CASE setting[a].block /\ WritingTo(list) = {a}
      <4>1. held'[list] = held[list] \union {setting[a].event}
        BY <1>0, <2>2, <3>4 DEF SettingsInv, RowsOK, WriteBlocked
      <4>2. \A b \in Admins : (setting'[b].pc = "write" /\ setting'[b].list = list) => b \in WritingTo(list)
        BY <3>2 DEF WritingTo, Busy
      <4>3. setting[a].event \in setting[a].value
        BY <3>4 DEF SettingsInv, StopAsked, WriteBlocked
      <4>4. QED BY <3>1, <3>2, <3>4, <4>1, <4>2, <4>3
    <3>5. QED BY <2>2, <3>3, <3>4 DEF WriteBlocked
  <2>3. QED BY <2>1, <2>2
<1>3. AloneIsOnly' /\ DelaysCarried' /\ HalfWritten'
  BY DEF SettingsInv, RowsOK, Carried, AloneIsOnly, DelaysCarried, HalfWritten, WriteBlocked,
     WritingDelays, Busy
<1>s. StopAsked'
  BY DEF SettingsInv, RowsOK, StopAsked, WriteBlocked, StopRequest, DelayRequest
<1>4. QED BY <1>s, <1>1, <1>2, <1>3 DEF SettingsInv, Carried

LEMMA StepSetDelay ==
  ASSUME SettingsInv, NEW a \in Admins, NEW e \in Events, NEW delay \in Delay, SetDelay(a, e, delay)
  PROVE  SettingsInv'
<1> USE DEF Idle
<1> DEFINE nobody == WritingDelays = {}
<1>a. setting'[a] = [pc |-> "canonical", event |-> e, value |-> [canonical EXCEPT ![e] = delay],
                     alone |-> nobody]
  BY DEF SetDelay
<1>b. \A b \in Admins \ {a} : b \in WritingDelays =>
        setting[b] \in DelayRequest /\ setting'[b] = [setting[b] EXCEPT !.alone = FALSE]
  BY DEF SettingsInv, RowsOK, SetDelay, StopRequest, DelayRequest, WritingDelays, Busy
<1>c. \A b \in Admins \ {a} : b \notin WritingDelays => setting'[b] = setting[b]
  BY DEF SetDelay
<1>d. nobody \in BOOLEAN
  OBVIOUS
<1>e. setting' = [b \in Admins |-> setting'[b]]
  BY Zenon DEF SetDelay
<1>f. [canonical EXCEPT ![e] = delay] \in [Events -> Delay]
  BY DEF SettingsInv, RowsOK
<1>g. setting'[a] \in DelayRequest
  <2> HIDE DEF nobody
  <2> QED BY <1>a, <1>d, <1>f DEF DelayRequest
<1> HIDE DEF nobody
<1>h. \A b \in Admins \ {a} : setting'[b] \in {Idle} \union StopRequest \union DelayRequest
  BY <1>b, <1>c DEF SettingsInv, RowsOK, DelayRequest
<1>1. RowsOK'
  <2>1. setting' \in [Admins -> {Idle} \union StopRequest \union DelayRequest]
    BY <1>e, <1>g, <1>h
  <2>2. QED BY <2>1 DEF SettingsInv, RowsOK, SetDelay, rows
<1>2. StopsCarried'
  BY <1>a, <1>b, <1>c DEF SettingsInv, RowsOK, Carried, StopsCarried, SetDelay, DelayRequest, rows
<1>3. AloneIsOnly'
  <2> SUFFICES ASSUME NEW b \in WritingDelays', NEW c \in WritingDelays', setting'[b].alone, c # b
               PROVE  FALSE
    BY DEF AloneIsOnly
  <2>1. b \in Admins /\ c \in Admins
    BY DEF WritingDelays, Busy
  <2>2. \A d \in Admins \ {a} : d \in WritingDelays' => d \in WritingDelays
    BY <1>c DEF WritingDelays, Busy
  <2>3. \A d \in Admins \ {a} : d \in WritingDelays => setting'[d].alone = FALSE
    BY <1>b DEF DelayRequest
  <2>4. b = a
    BY <2>1, <2>2, <2>3
  <2>5. nobody
    BY <1>a, <2>4
  <2>6. c \in WritingDelays
    BY <2>1, <2>2, <2>4
  <2>7. QED BY <2>5, <2>6 DEF nobody
<1>4. DelaysCarried'
  BY <1>a, <1>b, <1>c DEF SettingsInv, RowsOK, Carried, DelaysCarried, SetDelay, DelayRequest, rows,
     WritingDelays, Busy
<1>5. HalfWritten'
  BY <1>a, <1>b, <1>c DEF SettingsInv, RowsOK, Carried, HalfWritten, SetDelay, DelayRequest, rows,
     WritingDelays, Busy
<1>s. StopAsked'
  BY <1>a, <1>b, <1>c DEF SettingsInv, RowsOK, StopAsked, SetDelay, StopRequest, DelayRequest
<1>6. QED BY <1>s, <1>1, <1>2, <1>3, <1>4, <1>5 DEF SettingsInv, Carried

LEMMA StepWriteCanonical ==
  ASSUME SettingsInv, NEW a \in Admins, WriteCanonical(a)
  PROVE  SettingsInv'
<1> USE DEF Idle
<1>0. setting[a] \in DelayRequest /\ a \in WritingDelays
  BY DEF SettingsInv, RowsOK, WriteCanonical, StopRequest, DelayRequest, WritingDelays, Busy
<1>1. RowsOK'
  BY <1>0 DEF SettingsInv, RowsOK, WriteCanonical, DelayRequest, known
<1>2. StopsCarried'
  BY <1>0 DEF SettingsInv, RowsOK, Carried, StopsCarried, WriteCanonical, DelayRequest, known
<1>3. AloneIsOnly'
  BY <1>0 DEF SettingsInv, RowsOK, Carried, AloneIsOnly, WriteCanonical, DelayRequest, WritingDelays, Busy
<1>4. DelaysCarried'
  BY <1>0 DEF SettingsInv, RowsOK, Carried, DelaysCarried, WriteCanonical, DelayRequest, known,
     WritingDelays, Busy
<1>5. HalfWritten'
  BY <1>0 DEF SettingsInv, RowsOK, Carried, AloneIsOnly, HalfWritten, WriteCanonical, DelayRequest,
     WritingDelays, Busy
<1>s. StopAsked'
  BY DEF SettingsInv, RowsOK, StopAsked, WriteCanonical, StopRequest, DelayRequest
<1>6. QED BY <1>s, <1>1, <1>2, <1>3, <1>4, <1>5 DEF SettingsInv, Carried

LEMMA StepWriteLegacy ==
  ASSUME SettingsInv, NEW a \in Admins, WriteLegacy(a)
  PROVE  SettingsInv'
<1> USE DEF Idle, Mirror
<1>0. setting[a] \in DelayRequest /\ a \in WritingDelays
  BY DEF SettingsInv, RowsOK, WriteLegacy, StopRequest, DelayRequest, WritingDelays, Busy
<1>1. RowsOK'
  BY <1>0 DEF SettingsInv, RowsOK, WriteLegacy, DelayRequest
<1>2. StopsCarried'
  BY <1>0 DEF SettingsInv, RowsOK, Carried, StopsCarried, WriteLegacy, DelayRequest
<1>3. AloneIsOnly'
  BY <1>0 DEF SettingsInv, RowsOK, Carried, AloneIsOnly, WriteLegacy, WritingDelays, Busy
<1>4. DelaysCarried'
  BY <1>0 DEF SettingsInv, RowsOK, Carried, DelaysCarried, AloneIsOnly, HalfWritten, WriteLegacy,
     DelayRequest, WritingDelays, Busy
<1>5. HalfWritten'
  BY <1>0 DEF SettingsInv, RowsOK, Carried, HalfWritten, WriteLegacy
<1>s. StopAsked'
  BY DEF SettingsInv, RowsOK, StopAsked, WriteLegacy, StopRequest, DelayRequest
<1>6. QED BY <1>s, <1>1, <1>2, <1>3, <1>4, <1>5 DEF SettingsInv, Carried

LEMMA StepSettingFails ==
  ASSUME SettingsInv, NEW a \in Admins, SettingFails(a)
  PROVE  SettingsInv'
<1> USE DEF Idle
<1>1. RowsOK' BY DEF SettingsInv, RowsOK, SettingFails, rows, known
<1>2. Carried'
  BY DEF SettingsInv, RowsOK, Carried, StopsCarried, AloneIsOnly, DelaysCarried, HalfWritten,
     SettingFails, rows, known, WritingDelays, Busy
<1>s. StopAsked'
  BY DEF SettingsInv, RowsOK, StopAsked, SettingFails, StopRequest, DelayRequest
<1>3. QED BY <1>s, <1>1, <1>2 DEF SettingsInv

LEMMA StepSettings ==
  ASSUME SettingsInv, NEW a \in Admins, Settings(a)
  PROVE  SettingsInv'
<1>1. CASE \E list \in Lists, e \in Events, block \in BOOLEAN : SetBlocked(a, list, e, block)
  BY <1>1, StepSetBlocked
<1>2. CASE WriteBlocked(a)
  BY <1>2, StepWriteBlocked
<1>3. CASE \E e \in Events, delay \in Delays \union {NoDelay} : SetDelay(a, e, delay)
  BY <1>3, StepSetDelay DEF Delay
<1>4. CASE WriteCanonical(a)
  BY <1>4, StepWriteCanonical
<1>5. CASE WriteLegacy(a)
  BY <1>5, StepWriteLegacy
<1>6. CASE SettingFails(a)
  BY <1>6, StepSettingFails
<1>7. QED BY <1>1, <1>2, <1>3, <1>4, <1>5, <1>6 DEF Settings

-----------------------------------------------------------------------------
(* Placements *)

LEMMA SettingsAlone ==
  ASSUME SettingsInv, UNCHANGED <<rows, setting, known>>
  PROVE  SettingsInv'
BY DEF SettingsInv, RowsOK, StopAsked, Carried, StopsCarried, AloneIsOnly, DelaysCarried, HalfWritten,
   rows, known, WritingDelays, Busy

LEMMA OthersLeaveSettings ==
  ASSUME SettingsInv, (\E p \in Placements : Placing(p)) \/ Tick \/ UNCHANGED vars
  PROVE  SettingsInv'
<1>1. UNCHANGED <<rows, setting, known>>
  BY DEF Placing, Begin, ReadOverride, VendorQuotes, VendorFails, Receive, KeepSnapshot, Check,
     FallBack, ReadDelay, Commit, Tick, vars, rows, known
<1>2. QED BY <1>1, SettingsAlone

LEMMA InitPlacements == Init => PlacementsInv
BY DEF Init, PlacementsInv, NoneHeld

\* A placement that is replaced by one that is not held leaves none held.
LEMMA OneReplaced ==
  ASSUME PlacementsInv, NEW p \in Placements, NEW new,
         placement' = [placement EXCEPT ![p] = new],
         {"pc", "held"} \subseteq DOMAIN new /\ new.held = FALSE
  PROVE  PlacementsInv'
BY DEF PlacementsInv, NoneHeld

LEMMA StepBegin ==
  ASSUME SettingsInv, PlacementsInv, NEW p \in Placements, NEW request \in Requests, Begin(p, request)
  PROVE  PlacementsInv'
<1>1. CASE OnStoppedList(request)
  <2>1. placement' = [placement EXCEPT ![p] = Refused]
    BY <1>1 DEF Begin
  <2>2. {"pc", "held"} \subseteq DOMAIN Refused /\ Refused.held = FALSE
    BY DEF Refused
  <2>3. QED BY <2>1, <2>2, OneReplaced
<1>2. CASE ~OnStoppedList(request)
  <2> DEFINE isHeld == request.list \in Lists /\ request.event \in held[request.list]
             begins == CASE request.list # "matchodds" -> "sleep"
                         [] request.checked -> "override"
                         [] OTHER -> "delay"
             new == [request |-> request, ttl |-> NoDelay, left |-> 0, late |-> 0,
                     held |-> isHeld, pc |-> begins]
  <2>1. isHeld = FALSE
    BY <1>2 DEF SettingsInv, Carried, StopsCarried, OnStoppedList
  <2>2. placement' = [placement EXCEPT ![p] = new]
    BY <1>2 DEF Begin
  <2>3. {"pc", "held"} \subseteq DOMAIN new /\ new.held = isHeld
    <3> HIDE DEF isHeld, begins
    <3> QED OBVIOUS
  <2>4. new.held = FALSE
    BY <2>1, <2>3
  <2> HIDE DEF new
  <2>5. QED BY <2>2, <2>3, <2>4, OneReplaced
<1>3. QED BY <1>1, <1>2

\* A placement under way is not held.
LEMMA UnderWay ==
  ASSUME PlacementsInv, NEW p \in Placements, placement[p].pc # "idle"
  PROVE  {"pc", "held"} \subseteq DOMAIN placement[p] /\ placement[p].held = FALSE
BY DEF PlacementsInv, NoneHeld, Idle

\* Ending leaves none held.
LEMMA Ending ==
  ASSUME PlacementsInv, NEW p \in Placements, placement[p].pc # "idle",
         NEW outcome \in {"accepted", "refused"}, End(p, outcome)
  PROVE  PlacementsInv'
<1> DEFINE new == [pc |-> outcome, held |-> outcome = "accepted" /\ placement[p].held]
<1>1. placement' = [placement EXCEPT ![p] = new]
  BY DEF End
<1>2. (outcome = "accepted" /\ placement[p].held) = FALSE
  BY UnderWay
<1>3. {"pc", "held"} \subseteq DOMAIN new /\ new.held = FALSE
  BY <1>2
<1> HIDE DEF new
<1>4. QED BY <1>1, <1>3, OneReplaced

\* Going on leaves none held.
LEMMA GoingOn ==
  ASSUME PlacementsInv, NEW p \in Placements, placement[p].pc # "idle", NEW pc, Now(p, pc)
  PROVE  PlacementsInv'
<1> DEFINE new == [placement[p] EXCEPT !.pc = pc]
<1>1. placement' = [placement EXCEPT ![p] = new]
  BY DEF Now
<1>2. {"pc", "held"} \subseteq DOMAIN new /\ new.held = FALSE
  BY UnderWay
<1> HIDE DEF new
<1>3. QED BY <1>1, <1>2, OneReplaced

LEMMA StepPlacing ==
  ASSUME SettingsInv, PlacementsInv, AcceptanceAssumption, mix \in Mixes, NEW p \in Placements, Placing(p)
  PROVE  PlacementsInv'
<1>1. CASE \E request \in mix.bets : Begin(p, request)
  BY <1>1, StepBegin DEF AcceptanceAssumption
<1>2. CASE ReadOverride(p)
  <2> DEFINE new == [placement[p] EXCEPT !.pc = "ask", !.ttl = Merged(placement[p].request.event)]
  <2>1. placement' = [placement EXCEPT ![p] = new]
    BY <1>2 DEF ReadOverride
  <2>2. {"pc", "held"} \subseteq DOMAIN new /\ new.held = FALSE
    BY <1>2, UnderWay DEF ReadOverride
  <2> HIDE DEF new
  <2>3. QED BY <2>1, <2>2, OneReplaced
<1>3. CASE VendorQuotes(p)
  <2> DEFINE new == [pc |-> "flight", request |-> placement[p].request, ttl |-> placement[p].ttl,
                     left |-> MaxFlight, late |-> 0, held |-> placement[p].held, quote |-> quote]
  <2>1. placement' = [placement EXCEPT ![p] = new]
    BY <1>3 DEF VendorQuotes
  <2>2. {"pc", "held"} \subseteq DOMAIN new /\ new.held = FALSE
    BY <1>3, UnderWay DEF VendorQuotes
  <2> HIDE DEF new
  <2>3. QED BY <2>1, <2>2, OneReplaced
<1>4. CASE VendorFails(p)
  BY <1>4, Ending DEF VendorFails
<1>5. CASE Receive(p)
  BY <1>5, GoingOn DEF Receive
<1>6. CASE KeepSnapshot(p)
  BY <1>6, GoingOn DEF KeepSnapshot
<1>7. CASE Check(p)
  BY <1>7, GoingOn, Ending DEF Check
<1>8. CASE FallBack(p)
  <2>1. CASE End(p, "refused")
    BY <1>8, <2>1, Ending DEF FallBack
  <2>2. CASE placement' = [placement EXCEPT ![p].pc = "delay", ![p].late = LongestDelay - 1]
    <3> DEFINE new == [placement[p] EXCEPT !.pc = "delay", !.late = LongestDelay - 1]
    <3>1. placement' = [placement EXCEPT ![p] = new]
      BY <2>2
    <3>2. {"pc", "held"} \subseteq DOMAIN new /\ new.held = FALSE
      BY <1>8, UnderWay DEF FallBack
    <3> HIDE DEF new
    <3>3. QED BY <3>1, <3>2, OneReplaced
  <2>3. QED BY <1>8, <2>1, <2>2 DEF FallBack
<1>9. CASE ReadDelay(p)
  <2> DEFINE sleep == Min({Merged(placement[p].request.event), MaxAcceptDelay})
             late == IF placement[p].request.checked THEN placement[p].late + MaxFlight + sleep ELSE Horizon
             new == [pc |-> "sleep", request |-> placement[p].request, held |-> placement[p].held,
                     left |-> sleep, late |-> late]
  <2>1. placement' = [placement EXCEPT ![p] = new]
    BY <1>9 DEF ReadDelay
  <2> HIDE DEF late, sleep
  <2>2. {"pc", "held"} \subseteq DOMAIN new /\ new.held = FALSE
    BY <1>9, UnderWay DEF ReadDelay
  <2> HIDE DEF new
  <2>3. QED BY <2>1, <2>2, OneReplaced
<1>10. CASE Commit(p)
  BY <1>10, Ending DEF Commit
<1>11. QED
  BY <1>1, <1>2, <1>3, <1>4, <1>5, <1>6, <1>7, <1>8, <1>9, <1>10 DEF Placing

LEMMA StepTick ==
  ASSUME PlacementsInv, Tick
  PROVE  PlacementsInv'
<1>1. placement' = [p \in Placements |-> IF placement[p].pc \in {"flight", "sleep"}
                                           THEN [placement[p] EXCEPT !.left = @ - 1] ELSE placement[p]]
  BY DEF Tick
<1>2. \A p \in Placements : placement[p].pc \in {"flight", "sleep"} =>
        /\ placement'[p] = [placement[p] EXCEPT !.left = placement[p].left - 1]
        /\ {"pc", "held"} \subseteq DOMAIN placement[p] /\ placement[p].held = FALSE
  BY <1>1, UnderWay
<1>3. \A p \in Placements : placement[p].pc \notin {"flight", "sleep"} => placement'[p] = placement[p]
  BY <1>1
<1>4. placement' = [p \in Placements |-> placement'[p]]
  BY <1>1
<1>5. NoneHeld'
  BY <1>2, <1>3 DEF PlacementsInv, NoneHeld
<1>6. QED BY <1>4, <1>5 DEF PlacementsInv

-----------------------------------------------------------------------------
(* The theorems *)

AcceptanceInv == mix \in Mixes /\ SettingsInv /\ PlacementsInv

LEMMA InitAcceptance == Init => AcceptanceInv
BY InitSettings, InitPlacements DEF Init, AcceptanceInv

LEMMA StepAcceptance == AcceptanceInv /\ [Next]_vars => AcceptanceInv'
<1> SUFFICES ASSUME AcceptanceInv, [Next]_vars PROVE AcceptanceInv'
  OBVIOUS
<1>1. mix' = mix
  BY DEF Next, Settings, SetBlocked, WriteBlocked, SetDelay, WriteCanonical, WriteLegacy, SettingFails,
     Placing, Begin, ReadOverride, VendorQuotes, VendorFails, Receive, KeepSnapshot, Check, FallBack,
     ReadDelay, Commit, Tick, vars
<1>2. CASE \E a \in Admins : Settings(a)
  <2>1. placement' = placement
    BY <1>2 DEF Settings, SetBlocked, WriteBlocked, SetDelay, WriteCanonical, WriteLegacy, SettingFails
  <2>2. PlacementsInv'
    BY <2>1 DEF AcceptanceInv, PlacementsInv, NoneHeld
  <2>3. QED BY <1>1, <1>2, <2>2, StepSettings DEF AcceptanceInv
<1>3. CASE \E p \in Placements : Placing(p)
  BY <1>1, <1>3, StepPlacing, OthersLeaveSettings, AcceptanceAssumption DEF AcceptanceInv
<1>4. CASE Tick
  BY <1>1, <1>4, StepTick, OthersLeaveSettings DEF AcceptanceInv
<1>5. CASE UNCHANGED vars
  BY <1>1, <1>5, OthersLeaveSettings DEF AcceptanceInv, PlacementsInv, NoneHeld, vars
<1>6. QED BY <1>2, <1>3, <1>4, <1>5 DEF Next

\* Whatever is in the lists, in the delays and in the requests under way for them has its
\* type: rows are only ever written whole (bets.service.ts, setMatchOddsBlockedForEvent,
\* setFancyBlockedForEvent and the delays).
THEOREM RowsTyped == Spec => []RowsOK
<1>1. AcceptanceInv => RowsOK
  BY DEF AcceptanceInv, SettingsInv
<1>2. QED BY <1>1, InitAcceptance, StepAcceptance, PTL DEF Spec

\* No bet asked for after a stop was confirmed is accepted, for any number of requests that
\* write the same list: what is confirmed is in the list and in every list about to be
\* written, so placeBet, which looks at it once, refuses the bet.
THEOREM StopsHold == Spec => []StopHolds
<1>1. AcceptanceInv => StopHolds
  BY DEF AcceptanceInv, PlacementsInv, NoneHeld, StopHolds, Idle
<1>2. QED BY <1>1, InitAcceptance, StepAcceptance, PTL DEF Spec

\* A delay confirmed while nobody else set one is what placements read under both keys until
\* the next request for its event, whatever is done, or left half done, to other events.
THEOREM DelaysHold == Spec => []DelayHolds
<1>1. AcceptanceInv => DelayHolds
  BY DEF AcceptanceInv, SettingsInv, Carried, DelaysCarried, DelayHolds, Merged
<1>2. QED BY <1>1, InitAcceptance, StepAcceptance, PTL DEF Spec

-----------------------------------------------------------------------------
(* Prices.  A placement carries the age that the price it was checked      *)
(* against can have: the time its answer was under way, what the snapshot  *)
(* was kept for, and the delay that it sleeps.                             *)

Asked == [request : Requests, ttl : Delay, left : Nat, late : Nat, held : BOOLEAN,
          pc : {"override", "ask", "delay", "sleep"}]
Quoted == [pc : {"flight", "keep", "check", "fallback", "delay"}, request : Requests, ttl : Delay,
           left : Nat, late : Nat, held : BOOLEAN, quote : Quotes]
Slept == [pc : {"sleep"}, request : Requests, held : BOOLEAN, left : Nat, late : Nat]
Done == [pc : {"accepted", "refused"}, held : BOOLEAN]

PlacementRecord == {Idle} \union Asked \union Quoted \union Slept \union Done

\* The price that carries r on was the vendor's when r says.
Timely(r) ==
  /\ r.pc = "flight" => offered[r.quote] + r.left <= MaxFlight
  /\ r.pc \in {"keep", "check", "fallback"} => r.late = 0 /\ offered[r.quote] <= MaxFlight
  /\ r.pc = "flight" => r.late = 0
  /\ (r.pc = "delay" /\ r.request.checked) =>
       \E q \in Quotes : Achievable(r.request, q) /\ offered[q] <= MaxFlight + r.late
  /\ (r.pc = "sleep" /\ r.request.checked) =>
       \E q \in Quotes : Achievable(r.request, q) /\ offered[q] + r.left <= r.late

PlacementsTimely ==
  /\ placement \in [Placements -> PlacementRecord]
  /\ \A p \in Placements : Timely(placement[p])

\* The price in Redis is as old as it was kept, and the answer under way before.
SnapshotTimely ==
  \/ snapshot = NoSnapshot
  \/ /\ snapshot \in [quote : Quotes, left : Nat]
     /\ offered[snapshot.quote] + snapshot.left <= MaxFlight + LongestDelay

FeedOK ==
  /\ quote \in Quotes
  /\ offered \in [Quotes -> Nat]
  /\ offered[quote] = 0

LegacyOK == legacy \in [Events -> Delay]

PriceInv == PlacementsTimely /\ SnapshotTimely /\ FeedOK /\ LegacyOK

LEMMA MinNatural == \A m, n \in Nat : Min({m, n}) \in Nat /\ Min({m, n}) <= m
BY MinOfTwo

LEMMA LongestIsLongest ==
  /\ LongestDelay \in Nat /\ LongestDelay >= 1 /\ LongestDelay \in Delay
  /\ \A d \in Delay : d \in Nat /\ d <= LongestDelay
<1>1. Delays \subseteq Int /\ Delays # {} /\ IsFiniteSet(Delays) /\ NoDelay = 0
  BY AcceptanceAssumption DEF NoDelay
<1>2. \E x \in Delays : \A y \in Delays : x >= y
  BY <1>1, HasGreatest
<1>3. LongestDelay \in Delays /\ \A y \in Delays : LongestDelay >= y
  BY <1>2, Zenon DEF LongestDelay, Max
<1>4. QED BY <1>1, <1>3, AcceptanceAssumption DEF Delay

LEMMA MergedTyped ==
  ASSUME SettingsInv, LegacyOK, NEW e \in Events
  PROVE  Merged(e) \in Delay
BY DEF SettingsInv, RowsOK, LegacyOK, Merged

\* A request for settings gives the deprecated row a value of its type.
LEMMA LegacyStep ==
  ASSUME SettingsInv, LegacyOK, [Next]_vars
  PROVE  LegacyOK'
<1>1. ASSUME NEW a \in Admins, WriteLegacy(a) PROVE LegacyOK'
  <2>1. setting[a] \in DelayRequest
    BY <1>1 DEF SettingsInv, RowsOK, WriteLegacy, StopRequest, DelayRequest, Idle
  <2>2. QED BY <1>1, <2>1 DEF WriteLegacy, Mirror, DelayRequest, LegacyOK
<1>2. CASE UNCHANGED legacy
  BY <1>2 DEF LegacyOK
<1>3. QED
  BY <1>1, <1>2 DEF Next, Settings, SetBlocked, WriteBlocked, SetDelay, WriteCanonical, SettingFails,
     Placing, Begin, ReadOverride, VendorQuotes, VendorFails, Receive, KeepSnapshot, Check, FallBack,
     ReadDelay, Commit, Tick, vars, rows

LEMMA InitPrices == Init => PriceInv
<1> SUFFICES ASSUME Init PROVE PriceInv
  OBVIOUS
<1>1. PlacementsTimely
  BY DEF Init, PlacementsTimely, PlacementRecord, Timely, Idle
<1>2. SnapshotTimely
  BY DEF Init, SnapshotTimely
<1>3. FeedOK
  <2>1. Horizon \in Nat
    BY LongestIsLongest, AcceptanceAssumption DEF Horizon
  <2>2. QED BY <2>1 DEF Init, FeedOK
<1>4. LegacyOK
  BY LongestIsLongest DEF Init, LegacyOK, Delay
<1>5. QED BY <1>1, <1>2, <1>3, <1>4 DEF PriceInv

\* One placement goes on while prices stay.
LEMMA OneGoesOn ==
  ASSUME PriceInv, NEW p \in Placements, NEW new \in PlacementRecord, Timely(new),
         placement' = [placement EXCEPT ![p] = new], UNCHANGED feed
  PROVE  PlacementsTimely' /\ FeedOK'
<1>1. offered' = offered /\ quote' = quote
  BY DEF feed
<1>2. \A q \in Placements : placement'[q] = new \/ placement'[q] = placement[q]
  BY DEF PriceInv, PlacementsTimely
<1>3. placement' \in [Placements -> PlacementRecord]
  BY DEF PriceInv, PlacementsTimely
<1>4. \A q \in Placements : Timely(placement[q])'
  BY <1>1, <1>2 DEF PriceInv, PlacementsTimely, Timely
<1>5. QED BY <1>1, <1>3, <1>4 DEF PriceInv, PlacementsTimely, FeedOK

\* What a placement between its steps looks like.
LEMMA Shapes ==
  ASSUME PriceInv, NEW p \in Placements
  PROVE  /\ placement[p].pc = "override" => placement[p] \in Asked
         /\ placement[p].pc = "ask" => placement[p] \in Asked
         /\ placement[p].pc \in {"flight", "keep", "check", "fallback"} => placement[p] \in Quoted
         /\ placement[p].pc = "delay" => placement[p] \in Asked \union Quoted
         /\ placement[p].pc = "sleep" => placement[p] \in Asked \union Slept
         /\ Timely(placement[p])
BY DEF PriceInv, PlacementsTimely, PlacementRecord, Asked, Quoted, Slept, Done, Idle

LEMMA SnapshotSame ==
  ASSUME PriceInv, UNCHANGED <<snapshot, feed>>
  PROVE  SnapshotTimely'
BY DEF PriceInv, SnapshotTimely, feed

LEMMA EndingTimely ==
  ASSUME PriceInv, NEW p \in Placements, NEW outcome \in {"accepted", "refused"}, End(p, outcome),
         placement[p].held \in BOOLEAN, UNCHANGED <<snapshot, feed>>
  PROVE  PlacementsTimely' /\ SnapshotTimely' /\ FeedOK'
<1> DEFINE isHeld == outcome = "accepted" /\ placement[p].held
           new == [pc |-> outcome, held |-> isHeld]
<1>1. placement' = [placement EXCEPT ![p] = new]
  BY DEF End
<1>2. isHeld \in BOOLEAN
  OBVIOUS
<1> HIDE DEF isHeld
<1>3. new \in PlacementRecord /\ Timely(new)
  BY <1>2 DEF PlacementRecord, Done, Timely
<1> HIDE DEF new
<1>4. QED BY <1>1, <1>3, OneGoesOn, SnapshotSame

LEMMA PricesPlacing ==
  ASSUME SettingsInv, PriceInv, mix \in Mixes, NEW p \in Placements, Placing(p)
  PROVE  PlacementsTimely' /\ SnapshotTimely' /\ FeedOK'
<1> DEFINE r == placement[p]
<1>s. placement \in [Placements -> PlacementRecord]
  BY DEF PriceInv, PlacementsTimely
<1>1. ASSUME NEW request \in mix.bets, Begin(p, request)
      PROVE  PlacementsTimely' /\ SnapshotTimely' /\ FeedOK'
  <2>1. UNCHANGED <<snapshot, feed>> /\ request \in Requests
    BY <1>1, AcceptanceAssumption DEF Begin
  <2>2. CASE OnStoppedList(request)
    <3>1. placement' = [placement EXCEPT ![p] = Refused]
      BY <1>1, <2>2 DEF Begin
    <3>2. Refused \in PlacementRecord /\ Timely(Refused)
      BY DEF Refused, PlacementRecord, Done, Timely
    <3>3. QED BY <2>1, <3>1, <3>2, OneGoesOn, SnapshotSame
  <2>3. CASE ~OnStoppedList(request)
    <3> DEFINE isHeld == request.list \in Lists /\ request.event \in held[request.list]
               begins == CASE request.list # "matchodds" -> "sleep"
                           [] request.checked -> "override"
                           [] OTHER -> "delay"
               new == [request |-> request, ttl |-> NoDelay, left |-> 0, late |-> 0,
                       held |-> isHeld, pc |-> begins]
    <3>1. placement' = [placement EXCEPT ![p] = new]
      BY <1>1, <2>3 DEF Begin
    <3>2. begins \in {"override", "sleep", "delay"} /\ (begins # "override" => ~request.checked)
      BY <2>1, AcceptanceAssumption
    <3>3. isHeld \in BOOLEAN /\ NoDelay \in Delay
      BY DEF Delay
    <3> HIDE DEF isHeld, begins
    <3>4. new \in PlacementRecord
      BY <2>1, <3>2, <3>3 DEF PlacementRecord, Asked
    <3>5. Timely(new)
      BY <3>2 DEF Timely
    <3> HIDE DEF new
    <3>6. QED BY <2>1, <3>1, <3>4, <3>5, OneGoesOn, SnapshotSame
  <2>4. QED BY <2>2, <2>3
<1>2. CASE ReadOverride(p)
  <2> DEFINE ttl == Merged(r.request.event)
             new == [r EXCEPT !.pc = "ask", !.ttl = ttl]
  <2>1. placement' = [placement EXCEPT ![p] = new] /\ UNCHANGED <<snapshot, feed>>
    BY <1>2 DEF ReadOverride
  <2>2. r \in Asked
    BY <1>2, Shapes DEF ReadOverride
  <2>3. ttl \in Delay
    <3>1. r.request.event \in Events
      BY <2>2, AcceptanceAssumption DEF Asked
    <3>2. QED BY <3>1, MergedTyped DEF PriceInv
  <2> HIDE DEF ttl, r
  <2>4. new \in Asked /\ new.pc = "ask"
    BY <2>2, <2>3 DEF Asked
  <2>5. Timely(new) /\ new \in PlacementRecord
    BY <2>4 DEF Timely, PlacementRecord
  <2> HIDE DEF new
  <2>6. QED BY <2>1, <2>5, OneGoesOn, SnapshotSame
<1>3. CASE VendorQuotes(p)
  <2> DEFINE new == [pc |-> "flight", request |-> r.request, ttl |-> r.ttl, left |-> MaxFlight,
                     late |-> 0, held |-> r.held, quote |-> quote]
  <2>1. placement' = [placement EXCEPT ![p] = new] /\ UNCHANGED <<snapshot, feed>>
    BY <1>3 DEF VendorQuotes
  <2>2. r \in Asked
    BY <1>3, Shapes DEF VendorQuotes
  <2> HIDE DEF r
  <2>3. quote \in Quotes /\ offered[quote] = 0 /\ MaxFlight \in Nat
    BY AcceptanceAssumption DEF PriceInv, FeedOK
  <2>4. new \in Quoted
    BY <2>2, <2>3 DEF Asked, Quoted
  <2>5. Timely(new) /\ new \in PlacementRecord
    BY <2>3, <2>4 DEF Timely, PlacementRecord
  <2> HIDE DEF new
  <2>6. QED BY <2>1, <2>5, OneGoesOn, SnapshotSame
<1>4. CASE VendorFails(p)
  <2>1. r.held \in BOOLEAN
    BY <1>4, Shapes DEF VendorFails, Asked, Quoted
  <2>2. QED BY <1>4, <2>1, EndingTimely DEF VendorFails
<1>5. CASE Receive(p)
  <2>1. PICK pc \in {"keep", "check"} : Now(p, pc)
    BY <1>5 DEF Receive
  <2> DEFINE new == [r EXCEPT !.pc = pc]
  <2>2. placement' = [placement EXCEPT ![p] = new] /\ UNCHANGED <<snapshot, feed>>
    BY <1>5, <2>1 DEF Receive, Now
  <2>3. r \in Quoted /\ r.pc = "flight" /\ Timely(r)
    BY <1>5, Shapes DEF Receive
  <2> HIDE DEF r
  <2>4. new \in Quoted /\ new.pc = pc /\ new.quote = r.quote /\ new.late = r.late
    BY <2>3 DEF Quoted
  <2>5. offered[r.quote] <= MaxFlight /\ r.late = 0
    <3>1. offered[r.quote] \in Nat /\ r.left \in Nat /\ MaxFlight \in Nat
      BY <2>3, AcceptanceAssumption DEF Quoted, PriceInv, FeedOK
    <3>2. QED BY <2>3, <3>1 DEF Timely
  <2>6. Timely(new) /\ new \in PlacementRecord
    BY <2>4, <2>5 DEF Timely, PlacementRecord
  <2> HIDE DEF new
  <2>7. QED BY <2>2, <2>6, OneGoesOn, SnapshotSame
<1>6. CASE KeepSnapshot(p)
  <2> DEFINE new == [r EXCEPT !.pc = "check"]
             kept == [quote |-> r.quote, left |-> r.ttl]
  <2>1. placement' = [placement EXCEPT ![p] = new] /\ UNCHANGED feed /\ snapshot' \in {snapshot, kept}
    BY <1>6 DEF KeepSnapshot, Now, KeptFor
  <2>2. r \in Quoted /\ r.pc = "keep" /\ Timely(r)
    BY <1>6, Shapes DEF KeepSnapshot
  <2> HIDE DEF r
  <2>3. new \in Quoted /\ new.pc = "check" /\ new.quote = r.quote /\ new.late = r.late
    BY <2>2 DEF Quoted
  <2>4. offered[r.quote] <= MaxFlight /\ r.late = 0
    BY <2>2 DEF Timely
  <2>5. Timely(new) /\ new \in PlacementRecord
    BY <2>3, <2>4 DEF Timely, PlacementRecord
  <2>6. SnapshotTimely'
    <3>1. CASE snapshot' = snapshot
      BY <2>1, <3>1, SnapshotSame
    <3>2. CASE snapshot' = kept
      <4>1. r.quote \in Quotes /\ r.ttl \in Nat /\ r.ttl <= LongestDelay
        BY <2>2, LongestIsLongest DEF Quoted
      <4>2. offered[r.quote] \in Nat /\ MaxFlight \in Nat /\ LongestDelay \in Nat
        BY <4>1, LongestIsLongest, AcceptanceAssumption DEF PriceInv, FeedOK
      <4>3. offered[r.quote] + r.ttl <= MaxFlight + LongestDelay
        BY <2>4, <4>1, <4>2
      <4>4. offered' = offered
        BY <2>1 DEF feed
      <4>5. QED BY <3>2, <4>1, <4>3, <4>4 DEF SnapshotTimely
    <3>3. QED BY <2>1, <3>1, <3>2
  <2> HIDE DEF new
  <2>7. QED BY <2>1, <2>5, <2>6, OneGoesOn
<1>7. CASE Check(p)
  <2>1. r \in Quoted /\ r.pc = "check" /\ Timely(r) /\ UNCHANGED <<snapshot, feed>>
    BY <1>7, Shapes DEF Check
  <2>2. CASE End(p, "refused")
    <3>1. r.held \in BOOLEAN
      BY <2>1 DEF Quoted
    <3>2. QED BY <2>1, <2>2, <3>1, EndingTimely
  <2>3. CASE \/ Now(p, "delay") /\ Achievable(r.request, r.quote)
             \/ Now(p, "fallback")
    <3>1. PICK pc \in {"delay", "fallback"} : Now(p, pc) /\ (pc = "delay" => Achievable(r.request, r.quote))
      BY <2>3
    <3> DEFINE new == [r EXCEPT !.pc = pc]
    <3>2. placement' = [placement EXCEPT ![p] = new]
      BY <3>1 DEF Now
    <3> HIDE DEF r
    <3>3. /\ new \in Quoted /\ new.pc = pc /\ new.quote = r.quote /\ new.late = r.late
          /\ new.request = r.request
      BY <2>1 DEF Quoted
    <3>4. offered[r.quote] <= MaxFlight /\ r.late = 0 /\ MaxFlight \in Nat /\ r.quote \in Quotes
      BY <2>1, AcceptanceAssumption DEF Timely, Quoted
    <3>5. offered[r.quote] <= MaxFlight + new.late
      BY <3>3, <3>4
    <3> HIDE DEF new
    <3>6. Timely(new) /\ new \in PlacementRecord
      BY <3>1, <3>3, <3>4, <3>5 DEF Timely, PlacementRecord
    <3>7. QED BY <2>1, <3>2, <3>6, OneGoesOn, SnapshotSame
  <2>4. QED BY <1>7, <2>2, <2>3 DEF Check
<1>8. CASE FallBack(p)
  <2>1. r \in Quoted /\ UNCHANGED <<snapshot, feed>>
    BY <1>8, Shapes DEF FallBack
  <2>2. CASE End(p, "refused")
    <3>1. r.held \in BOOLEAN
      BY <2>1 DEF Quoted
    <3>2. QED BY <2>1, <2>2, <3>1, EndingTimely
  <2>3. CASE /\ snapshot.left > 0 /\ Achievable(r.request, snapshot.quote)
             /\ placement' = [placement EXCEPT ![p].pc = "delay", ![p].late = LongestDelay - 1]
    <3> DEFINE new == [r EXCEPT !.pc = "delay", !.late = LongestDelay - 1]
    <3>1. placement' = [placement EXCEPT ![p] = new]
      BY <2>3
    <3>2. /\ snapshot.quote \in Quotes /\ snapshot.left \in Nat
          /\ offered[snapshot.quote] + snapshot.left <= MaxFlight + LongestDelay
      BY <2>3 DEF PriceInv, SnapshotTimely, NoSnapshot
    <3>3. LongestDelay - 1 \in Nat /\ LongestDelay \in Nat /\ MaxFlight \in Nat
      BY LongestIsLongest, AcceptanceAssumption
    <3>4. offered[snapshot.quote] <= MaxFlight + (LongestDelay - 1)
      <4>1. offered[snapshot.quote] \in Nat
        BY <3>2 DEF PriceInv, FeedOK
      <4>2. QED BY <2>3, <3>2, <3>3, <4>1
    <3> HIDE DEF r
    <3>5. new \in Quoted /\ new.pc = "delay" /\ new.late = LongestDelay - 1 /\ new.request = r.request
      BY <2>1, <3>3 DEF Quoted
    <3> HIDE DEF new
    <3>6. Timely(new) /\ new \in PlacementRecord
      BY <2>3, <3>2, <3>4, <3>5 DEF Timely, PlacementRecord
    <3>7. QED BY <2>1, <3>1, <3>6, OneGoesOn, SnapshotSame
  <2>4. QED BY <1>8, <2>2, <2>3 DEF FallBack
<1>9. CASE ReadDelay(p)
  <2> DEFINE sleep == Min({Merged(r.request.event), MaxAcceptDelay})
             late == IF r.request.checked THEN r.late + MaxFlight + sleep ELSE Horizon
             new == [pc |-> "sleep", request |-> r.request, held |-> r.held, left |-> sleep, late |-> late]
  <2>1. placement' = [placement EXCEPT ![p] = new] /\ UNCHANGED <<snapshot, feed>>
    BY <1>9 DEF ReadDelay
  <2>2. r \in Asked \union Quoted /\ Timely(r) /\ r.pc = "delay"
    BY <1>9, Shapes DEF ReadDelay
  <2>3. r.request \in Requests /\ r.held \in BOOLEAN /\ r.late \in Nat
    BY <2>2 DEF Asked, Quoted
  <2>4. sleep \in Nat
    <3>1. Merged(r.request.event) \in Nat /\ MaxAcceptDelay \in Nat
      BY <2>3, MergedTyped, LongestIsLongest, AcceptanceAssumption DEF PriceInv
    <3>2. QED BY <3>1, MinNatural
  <2>5. MaxFlight \in Nat /\ Horizon \in Nat
    BY LongestIsLongest, AcceptanceAssumption DEF Horizon
  <2> HIDE DEF sleep, r
  <2>6. late \in Nat
    BY <2>3, <2>4, <2>5
  <2>7. r.request.checked => \E q \in Quotes : Achievable(r.request, q) /\ offered[q] + sleep <= late
    <3> SUFFICES ASSUME r.request.checked
                 PROVE  \E q \in Quotes : Achievable(r.request, q) /\ offered[q] + sleep <= late
      OBVIOUS
    <3>1. PICK q \in Quotes : Achievable(r.request, q) /\ offered[q] <= MaxFlight + r.late
      BY <2>2 DEF Timely
    <3>2. offered[q] \in Nat
      BY DEF PriceInv, FeedOK
    <3>3. QED BY <2>3, <2>4, <2>5, <3>1, <3>2
  <2> HIDE DEF late
  <2>8. new \in PlacementRecord
    BY <2>3, <2>4, <2>6 DEF PlacementRecord, Slept
  <2>9. Timely(new)
    BY <2>7 DEF Timely
  <2> HIDE DEF new
  <2>10. QED BY <2>1, <2>8, <2>9, OneGoesOn, SnapshotSame
<1>10. CASE Commit(p)
  <2>1. r.held \in BOOLEAN
    BY <1>10, Shapes DEF Commit, Asked, Slept
  <2>2. QED BY <1>10, <2>1, EndingTimely DEF Commit
<1>11. QED
  BY <1>1, <1>2, <1>3, <1>4, <1>5, <1>6, <1>7, <1>8, <1>9, <1>10 DEF Placing

\* With a tick every price is one tick older and whoever waits has one tick less to wait.
LEMMA PricesTick ==
  ASSUME PriceInv, Tick
  PROVE  PlacementsTimely' /\ SnapshotTimely' /\ FeedOK'
<1>1. Horizon \in Nat /\ MaxFlight \in Nat /\ LongestDelay \in Nat
  BY LongestIsLongest, AcceptanceAssumption DEF Horizon
<1>2. /\ offered \in [Quotes -> Nat]
      /\ quote' \in Quotes
      /\ offered' = [q \in Quotes |-> IF q = quote' THEN 0 ELSE Min({offered[q] + 1, Horizon})]
  BY DEF PriceInv, FeedOK, Tick
<1>3. ASSUME NEW q \in Quotes
      PROVE  offered[q] \in Nat /\ offered'[q] \in Nat /\ offered'[q] <= offered[q] + 1
  <2>1. offered[q] \in Nat
    BY <1>2
  <2> DEFINE older == Min({offered[q] + 1, Horizon})
  <2>2. older \in Nat /\ older <= offered[q] + 1
    <3>1. offered[q] + 1 \in Nat
      BY <2>1
    <3> QED BY <1>1, <3>1, MinNatural
  <2> HIDE DEF older
  <2>3. offered'[q] = IF q = quote' THEN 0 ELSE older
    BY <1>2 DEF older
  <2>4. QED BY <2>1, <2>2, <2>3
<1>4. FeedOK'
  <2>1. offered' \in [Quotes -> Nat]
    BY <1>2, <1>3
  <2>2. offered'[quote'] = 0
    BY <1>2
  <2>3. QED BY <1>2, <2>1, <2>2 DEF FeedOK
<1>5. SnapshotTimely'
  <2>1. CASE snapshot.left <= 1
    BY <2>1 DEF Tick, SnapshotTimely
  <2>2. CASE ~(snapshot.left <= 1)
    <3>1. /\ snapshot \in [quote : Quotes, left : Nat]
          /\ offered[snapshot.quote] + snapshot.left <= MaxFlight + LongestDelay
      BY <2>2 DEF PriceInv, SnapshotTimely, NoSnapshot
    <3>2. snapshot' = [snapshot EXCEPT !.left = snapshot.left - 1]
      BY <2>2 DEF Tick
    <3>3. /\ snapshot' \in [quote : Quotes, left : Nat]
          /\ snapshot'.quote = snapshot.quote /\ snapshot'.left = snapshot.left - 1
          /\ snapshot.left \in Nat /\ snapshot.quote \in Quotes
      BY <2>2, <3>1, <3>2
    <3>4. /\ offered[snapshot.quote] \in Nat /\ offered'[snapshot.quote] \in Nat
          /\ offered'[snapshot.quote] <= offered[snapshot.quote] + 1
      BY <1>3, <3>3
    <3>5. offered'[snapshot'.quote] + snapshot'.left <= MaxFlight + LongestDelay
      BY <1>1, <3>1, <3>3, <3>4
    <3>6. QED BY <3>3, <3>5 DEF SnapshotTimely
  <2>3. QED BY <2>1, <2>2
<1>6. ASSUME NEW p \in Placements
      PROVE  placement'[p] \in PlacementRecord /\ Timely(placement[p])'
  <2> DEFINE r == placement[p]
  <2>1. /\ Waits(p)
        /\ placement'[p] = IF r.pc \in {"flight", "sleep"} THEN [r EXCEPT !.left = r.left - 1] ELSE r
    BY DEF Tick
  <2>2. r \in PlacementRecord
    BY DEF PriceInv, PlacementsTimely
  <2>3. CASE r.pc \notin {"flight", "sleep"}
    <3>1. placement'[p] = r
      BY <2>1, <2>3
    <3>2. r.pc \in {"idle", "ask", "accepted", "refused"}
      BY <2>1, <2>3 DEF Waits, Ended
    <3> HIDE DEF r
    <3>3. QED BY <2>2, <3>1, <3>2 DEF Timely
  <2>4. CASE r.pc = "flight"
    <3>1. r \in Quoted /\ Timely(r)
      BY <2>4, Shapes
    <3>2. r.left > 0 /\ placement'[p] = [r EXCEPT !.left = r.left - 1]
      BY <2>1, <2>4 DEF Waits, Ended
    <3> HIDE DEF r
    <3>3. /\ placement'[p] \in Quoted
          /\ placement'[p].pc = "flight" /\ placement'[p].late = r.late
          /\ placement'[p].quote = r.quote /\ placement'[p].left = r.left - 1
          /\ r.quote \in Quotes /\ r.left \in Nat
      BY <2>4, <3>1, <3>2 DEF Quoted
    <3>4. offered[r.quote] + r.left <= MaxFlight /\ r.late = 0
      BY <2>4, <3>1 DEF Timely
    <3>5. /\ offered[r.quote] \in Nat /\ offered'[r.quote] \in Nat
          /\ offered'[r.quote] <= offered[r.quote] + 1
      BY <1>3, <3>3
    <3>6. offered'[r.quote] + (r.left - 1) <= MaxFlight
      BY <1>1, <3>3, <3>4, <3>5
    <3>7. QED BY <3>3, <3>4, <3>6 DEF Timely, PlacementRecord
  <2>5. CASE r.pc = "sleep"
    <3>1. r \in Asked \union Slept /\ Timely(r)
      BY <2>5, Shapes
    <3>2. r.left > 0 /\ placement'[p] = [r EXCEPT !.left = r.left - 1]
      BY <2>1, <2>5 DEF Waits, Ended
    <3> HIDE DEF r
    <3>3. /\ placement'[p] \in PlacementRecord
          /\ placement'[p].pc = "sleep" /\ placement'[p].late = r.late
          /\ placement'[p].request = r.request /\ placement'[p].left = r.left - 1
          /\ r.left \in Nat /\ r.late \in Nat
      BY <2>5, <3>1, <3>2 DEF Asked, Slept, PlacementRecord
    <3>4. r.request.checked =>
            \E q \in Quotes : Achievable(r.request, q) /\ offered'[q] + (r.left - 1) <= r.late
      <4> SUFFICES ASSUME r.request.checked
                   PROVE  \E q \in Quotes : Achievable(r.request, q) /\ offered'[q] + (r.left - 1) <= r.late
        OBVIOUS
      <4>1. PICK q \in Quotes : Achievable(r.request, q) /\ offered[q] + r.left <= r.late
        BY <2>5, <3>1 DEF Timely
      <4>2. QED BY <1>3, <3>3, <4>1
    <3>5. QED BY <3>3, <3>4 DEF Timely
  <2>6. QED BY <2>3, <2>4, <2>5
<1>7. placement' = [p \in Placements |-> placement'[p]]
  BY DEF Tick
<1>8. PlacementsTimely'
  <2>1. placement' \in [Placements -> PlacementRecord]
    BY <1>6, <1>7
  <2>2. QED BY <1>6, <2>1 DEF PlacementsTimely
<1>9. QED BY <1>4, <1>5, <1>8

LEMMA StepPrices ==
  ASSUME AcceptanceInv, PriceInv, [Next]_vars
  PROVE  PriceInv'
<1>1. LegacyOK'
  BY LegacyStep DEF AcceptanceInv, PriceInv
<1>2. CASE \E p \in Placements : Placing(p)
  BY <1>1, <1>2, PricesPlacing DEF AcceptanceInv, PriceInv
<1>3. CASE Tick
  BY <1>1, <1>3, PricesTick DEF PriceInv
<1>4. CASE UNCHANGED <<placement, snapshot, feed>>
  BY <1>1, <1>4 DEF PriceInv, PlacementsTimely, Timely, SnapshotTimely, FeedOK, feed
<1>5. CASE (\E a \in Admins : Settings(a)) \/ UNCHANGED vars
  <2>1. UNCHANGED <<placement, snapshot, feed>>
    BY <1>5 DEF Settings, SetBlocked, WriteBlocked, SetDelay, WriteCanonical, WriteLegacy,
       SettingFails, vars, feed
  <2>2. QED BY <1>4, <2>1
<1>6. QED BY <1>2, <1>3, <1>5 DEF Next

\* A placement is accepted by its own commit, when it has slept.
LEMMA AcceptedWhenSlept ==
  ASSUME PriceInv, [Next]_vars, NEW p \in Placements,
         placement[p].pc = "sleep", placement'[p].pc = "accepted"
  PROVE  placement[p].left = 0
<1>1. ASSUME NEW q \in Placements, q # p, Placing(q) PROVE FALSE
  <2>1. placement'[p] = placement[p]
    BY <1>1 DEF Placing, Begin, ReadOverride, VendorQuotes, VendorFails, Receive, KeepSnapshot, Check,
       FallBack, ReadDelay, Commit, Now, End, PriceInv, PlacementsTimely
  <2>2. QED BY <2>1
<1>2. CASE Placing(p)
  BY <1>2 DEF Placing, Begin, ReadOverride, VendorQuotes, VendorFails, Receive, KeepSnapshot, Check,
     FallBack, ReadDelay, Commit, Idle
<1>3. CASE Tick
  <2>1. placement'[p] = [placement[p] EXCEPT !.left = placement[p].left - 1]
    BY <1>3 DEF Tick
  <2>2. placement[p] \in Asked \union Slept
    BY Shapes
  <2>3. placement'[p].pc = "sleep"
    BY <2>1, <2>2 DEF Asked, Slept
  <2>4. QED BY <2>3
<1>4. CASE UNCHANGED placement
  BY <1>4
<1>5. QED
  BY <1>1, <1>2, <1>3, <1>4 DEF Next, Settings, SetBlocked, WriteBlocked, SetDelay, WriteCanonical,
     WriteLegacy, SettingFails, vars

\* A bet that is compared with the feed is accepted only at a price the vendor had within the
\* time its answer was under way, the bet slept and, if it came from Redis, the price was kept
\* (assertMatchOddsRateAgainstBetfair, placeBet).
THEOREM PricesOffered == Spec => PriceWasOffered
<1>1. ASSUME PriceInv, [Next]_vars, NEW p \in Placements,
             placement[p].pc = "sleep", placement'[p].pc = "accepted", placement[p].request.checked
      PROVE  \E q \in Quotes : Achievable(placement[p].request, q) /\ offered[q] <= placement[p].late
  <2>1. PICK q \in Quotes :
          Achievable(placement[p].request, q) /\ offered[q] + placement[p].left <= placement[p].late
    BY <1>1, Shapes DEF Timely
  <2>2. placement[p].left = 0 /\ offered[q] \in Nat
    BY <1>1, AcceptedWhenSlept DEF PriceInv, FeedOK
  <2>3. QED BY <2>1, <2>2
<1>2. PriceInv /\ [Next]_vars =>
        [\A p \in Placements :
           (placement[p].pc = "sleep" /\ placement'[p].pc = "accepted" /\ placement[p].request.checked) =>
             \E q \in Quotes : Achievable(placement[p].request, q) /\ offered[q] <= placement[p].late]_vars
  BY <1>1
<1>3. Spec => []PriceInv
  BY InitAcceptance, StepAcceptance, InitPrices, StepPrices, PTL DEF Spec
<1>4. QED BY <1>2, <1>3, PTL DEF Spec, PriceWasOffered
=============================================================================
