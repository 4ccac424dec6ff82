--------------------- MODULE SideMarketSettlementProofs ---------------------
(***************************************************************************)
(* Settlement of the markets beside match odds, for every set of markets,  *)
(* bets, clients and administrators: a settled bet can be rolled back,     *)
(* bookmaker and tied match bets are settled on the outcome on record, an  *)
(* exposure row covers the open bets of its selection until one of them is *)
(* settled, and, for plain bets, the money matches the results.            *)
(*                                                                         *)
(* None of these is inductive.  ControlInv adds what a request under way   *)
(* has established when it is where it is (Sound), and that requests keep  *)
(* to their own markets (Alone).  MoneyInv adds what every bet has moved   *)
(* (Paid, Held), and what a request knows of the wallets it has read       *)
(* (Knows).                                                                *)
(***************************************************************************)
EXTENDS SideMarketSettlement, MoneyTheorems

Places == {"idle", "read", "checked", "validated", "tagged", "recorded", "open"}

Requests ==
  [pc : Places, kind : {"none", "settle", "cancel", "rollback"}, market : Markets \union {"none"},
   outcome : Int, bets : SUBSET Bets, pairs : SUBSET Bets,
   balance : [Users -> Int], liability : [Users -> Int], taken : [Users -> Int]]

TypeInv == TypeOK /\ task \in [Admins -> Requests]

Active(a) == task[a].pc # "idle"

\* What a request has established: of its bets, of the record of its market,
\* and of the bets of the market that are settled already.
Sound(t) ==
  t.pc # "idle" =>
    /\ t.market \in Markets
    /\ \A b \in t.bets : b.market = t.market
    /\ t.pc = "read" => KindOf[t.market] = "bookmaker"
    /\ t.pc = "checked" => KindOf[t.market] = "tied"
    /\ t.pc \in {"tagged", "recorded", "open"} => t.bets \subseteq tagged
    /\ t.kind = "rollback" =>
         /\ t.pc \in {"recorded", "open"} /\ t.market \in Reopenable
         /\ \A b \in Bets : b.market = t.market /\ status[b] \in Settled => b \in t.bets
    /\ t.kind # "rollback" =>
         /\ KindOf[t.market] = "fancy" => t.bets # {}
         /\ t.pc \in {"recorded", "open"} =>
              record[t.market].state = "live" /\ record[t.market].winner = t.outcome
         /\ KindOf[t.market] \in Incremental /\ t.pc # "read" =>
              \A b \in Bets : b.market = t.market => status[b] \notin Settled

\* Requests under way at once are for different markets, and none is a rollback.
Alone ==
  \A a, c \in Admins :
    a # c /\ Active(a) /\ Active(c) =>
      task[a].market # task[c].market /\ task[a].kind # "rollback"

SettledInv ==
  \A b \in Bets : status[b] \in Settled =>
    /\ b \in tagged /\ record[b.market].state = "live"
    /\ KindOf[b.market] \in Incremental => pnl[b] = BetPnl(b, record[b.market].winner)

\* The open bets of a client on a market.
OpenOf(u, m) == Open(In(Of(Bets, u), m))

\* Until a bet on a selection is settled, the row is what placement wrote last.
RowInv ==
  \A u \in Users, m \in Markets :
    KindOf[m] = "fancy" /\ m \notin Reopenable
        /\ (\A b \in Bets : b.market = m => status[b] \notin Settled) =>
      row[u][m] = BookExposure(OpenOf(u, m), m)

ControlInv == (\A a \in Admins : Sound(task[a])) /\ Alone /\ SettledInv /\ RowInv

LEMMA BetFields ==
  ASSUME NEW b \in Bets
  PROVE  /\ b.user \in Users /\ b.market \in Markets /\ b.side \in {"BACK", "LAY"}
         /\ b.stake \in Nat /\ b.profit \in Nat /\ b.percent \in Nat
         /\ b.win \in Nat /\ b.loss \in Nat /\ b.line \in Nat /\ b.selection \in Nat
BY SideMarketAssumption DEF Bets

LEMMA Kinds == \A m \in Markets : KindOf[m] \in {"bookmaker", "tied", "fancy"}
BY SideMarketAssumption DEF Incremental

\* A step that leaves the rows, and the bets on selections that cannot be
\* reopened, as they are.
LEMMA RowsStay ==
  ASSUME RowInv, row' = row,
         \A b \in Bets : KindOf[b.market] = "fancy" /\ b.market \notin Reopenable => status'[b] = status[b]
  PROVE  RowInv'
<1> SUFFICES ASSUME NEW u \in Users, NEW m \in Markets, KindOf[m] = "fancy", m \notin Reopenable,
                    \A b \in Bets : b.market = m => status'[b] \notin Settled
             PROVE  row[u][m] = BookExposure(OpenOf(u, m)', m)
  BY DEF RowInv, BookExposure
<1>1. \A b \in Bets : b.market = m => status'[b] = status[b]
  OBVIOUS
<1>2. OpenOf(u, m)' = OpenOf(u, m)
  BY <1>1 DEF OpenOf, Open, In, Of
<1>3. QED BY <1>1, <1>2 DEF RowInv

-----------------------------------------------------------------------------
(* A request that goes on without moving money. *)

\* The request of `a` is `t` now, which is sound; nothing else changed.
LEMMA StepKeeps ==
  ASSUME TypeInv, ControlInv, NEW a \in Admins, NEW t, Step(a, t), Sound(t),
         t.pc # "idle" =>
           \A c \in Admins : c # a /\ Active(c) =>
             task[c].market # t.market /\ task[c].kind # "rollback" /\ t.kind # "rollback"
  PROVE  ControlInv'
<1>1. /\ status' = status /\ pnl' = pnl /\ row' = row /\ tagged' = tagged /\ record' = record
      /\ task' = [task EXCEPT ![a] = t]
  BY DEF Step, books
<1>2. task'[a] = t /\ \A c \in Admins : c # a => task'[c] = task[c]
  BY <1>1 DEF TypeInv
<1>3. ASSUME NEW c \in Admins PROVE Sound(task[c])'
  <2>1. Sound(task'[c])
    BY <1>2 DEF ControlInv
  <2>2. QED BY <1>1, <2>1 DEF Sound
<1>4. Alone'
  BY <1>2 DEF Alone, Active, ControlInv
<1>5. SettledInv' /\ RowInv'
  BY <1>1, RowsStay DEF ControlInv, SettledInv
<1>6. QED BY <1>3, <1>4, <1>5 DEF ControlInv

LEMMA BeginIsStep ==
  ASSUME NEW a, NEW t, Begin(a, t) PROVE Step(a, t) /\ ~Active(a)
BY DEF Begin, Step, Active

\* A request that may start is alone on its market.
LEMMA StartAlone ==
  ASSUME NEW m, NEW o, MayStart(m, o)
  PROVE  \A c \in Admins : Active(c) => task[c].market # m /\ task[c].kind # "rollback"
BY DEF MayStart, Active

\* A request of `a` that stays on its market stays alone.
LEMMA StaysAlone ==
  ASSUME ControlInv, NEW a \in Admins, Active(a)
  PROVE  \A c \in Admins : c # a /\ Active(c) =>
           task[c].market # task[a].market /\ task[c].kind # "rollback" /\ task[a].kind # "rollback"
BY DEF ControlInv, Alone

LEMMA TaskFields ==
  ASSUME NEW pc, NEW kind, NEW m, NEW o, NEW S
  PROVE  /\ Task(pc, kind, m, o, S).pc = pc /\ Task(pc, kind, m, o, S).kind = kind
         /\ Task(pc, kind, m, o, S).market = m /\ Task(pc, kind, m, o, S).outcome = o
         /\ Task(pc, kind, m, o, S).bets = S
BY DEF Task

LEMMA NotSettledBefore ==
  ASSUME ControlInv, NEW m \in Markets, ~SettledBefore(m)
  PROVE  \A b \in Bets : b.market = m => status[b] \notin Settled
BY DEF ControlInv, SettledInv, SettledBefore, SettledIn, In

LEMMA KindOfOutcome == \A o : Kind(o) \in {"settle", "cancel"}
BY DEF Kind

LEMMA FancyReadBets ==
  ASSUME NEW m, NEW filter \in Filters
  PROVE  FancyRead(m, filter) \subseteq {b \in Bets : b.market = m}
BY SideMarketAssumption DEF FancyRead, Open, In, Bets

LEMMA ReadFancyKeeps ==
  ASSUME TypeInv, ControlInv, NEW a \in Admins, NEW m \in Markets, NEW o, NEW filter \in Filters,
         ReadFancy(a, m, o, filter)
  PROVE  ControlInv'
<1>1. PICK t : t = Task("validated", Kind(o), m, o, FancyRead(m, filter))
  OBVIOUS
<1>2. t.pc = "validated" /\ t.kind # "rollback" /\ t.market = m /\ t.bets = FancyRead(m, filter)
  BY <1>1, TaskFields, KindOfOutcome
<1>3. Step(a, t)
  BY <1>1, BeginIsStep DEF ReadFancy
<1>4. Sound(t)
  BY <1>2, FancyReadBets DEF Sound, ReadFancy, Incremental
<1>5. QED BY <1>2, <1>3, <1>4, StartAlone, StepKeeps DEF ReadFancy

LEMMA ReadBookmakerKeeps ==
  ASSUME TypeInv, ControlInv, NEW a \in Admins, NEW m \in Markets, NEW o, NEW filter \in Filters,
         ReadBookmaker(a, m, o, filter)
  PROVE  ControlInv'
<1>1. PICK t : t = Task("read", "settle", m, o, Open(In(filter, m)))
  OBVIOUS
<1>2. t.pc = "read" /\ t.kind # "rollback" /\ t.market = m /\ t.bets = Open(In(filter, m))
  BY <1>1, TaskFields
<1>3. Step(a, t)
  BY <1>1, BeginIsStep DEF ReadBookmaker
<1>4. Sound(t)
  BY <1>2 DEF Sound, ReadBookmaker, Open, In
<1>5. QED BY <1>2, <1>3, <1>4, StartAlone, StepKeeps DEF ReadBookmaker

LEMMA CheckTiedKeeps ==
  ASSUME TypeInv, ControlInv, NEW a \in Admins, NEW m \in Markets, NEW o, NEW filter \in Filters,
         CheckTied(a, m, o, filter)
  PROVE  ControlInv'
<1>1. PICK t : t = Task("checked", Kind(o), m, o, In(filter, m))
  OBVIOUS
<1>2. t.pc = "checked" /\ t.kind # "rollback" /\ t.market = m /\ t.bets = In(filter, m)
  BY <1>1, TaskFields, KindOfOutcome
<1>3. Step(a, t)
  BY <1>1, BeginIsStep DEF CheckTied
<1>4. \A b \in Bets : b.market = m => status[b] \notin Settled
  BY NotSettledBefore DEF CheckTied
<1>5. Sound(t)
  BY <1>2, <1>4 DEF Sound, CheckTied, In
<1>6. QED BY <1>2, <1>3, <1>5, StartAlone, StepKeeps DEF CheckTied

LEMMA ReadToRollbackKeeps ==
  ASSUME TypeInv, ControlInv, NEW a \in Admins, NEW m \in Markets, ReadToRollback(a, m)
  PROVE  ControlInv'
<1>1. PICK t : t = [Task("recorded", "rollback", m, Unset, SettledIn(m)) EXCEPT
                      !.taken = [u \in Users |-> Sum([b \in Bets |-> TakenBack(b)], Of(SettledIn(m), u))]]
  OBVIOUS
<1>2. t.pc = "recorded" /\ t.kind = "rollback" /\ t.market = m /\ t.bets = SettledIn(m)
  BY <1>1 DEF Task
<1>3. Step(a, t)
  BY <1>1, BeginIsStep DEF ReadToRollback
<1>4. Sound(t)
  <2>1. t.bets \subseteq tagged /\ \A b \in t.bets : b.market = m
    BY <1>2 DEF SettledIn, In
  <2>2. \A b \in Bets : b.market = m /\ status[b] \in Settled => b \in t.bets
    BY <1>2 DEF SettledIn, In, ControlInv, SettledInv
  <2>3. QED BY <1>2, <2>1, <2>2 DEF Sound, ReadToRollback
<1>5. \A c \in Admins : ~Active(c)
  BY DEF ReadToRollback, Active
<1>6. QED BY <1>3, <1>4, <1>5, StepKeeps

LEMMA ValidateBookmakerKeeps ==
  ASSUME TypeInv, ControlInv, NEW a \in Admins, ValidateBookmaker(a)
  PROVE  ControlInv'
<1>1. PICK t : t = task[a]
  OBVIOUS
<1>2. t \in Requests /\ t.pc = "read" /\ Active(a) /\ Sound(t)
  BY <1>1 DEF TypeInv, ValidateBookmaker, Active, ControlInv
<1>3. CASE SettledBefore(t.market) \/ t.bets = {}
  <2>1. Step(a, Idle)
    BY <1>1, <1>3 DEF ValidateBookmaker
  <2>2. Idle.pc = "idle"
    BY TaskFields DEF Idle
  <2>3. QED BY <2>1, <2>2, StepKeeps DEF Sound
<1>4. CASE ~(SettledBefore(t.market) \/ t.bets = {})
  <2>1. PICK s : s = [t EXCEPT !.pc = "validated"]
    OBVIOUS
  <2>2. Step(a, s)
    BY <1>1, <1>4, <2>1 DEF ValidateBookmaker
  <2>3. s.pc = "validated" /\ s.kind = t.kind /\ s.market = t.market /\ s.bets = t.bets
    BY <1>2, <2>1 DEF Requests
  <2>4. t.market \in Markets /\ t.kind # "rollback"
    BY <1>2 DEF Sound
  <2>5. \A b \in Bets : b.market = t.market => status[b] \notin Settled
    BY <1>4, <2>4, NotSettledBefore
  <2>6. Sound(s)
    BY <1>2, <2>3, <2>4, <2>5 DEF Sound
  <2>7. QED BY <1>1, <1>2, <2>2, <2>3, <2>6, StaysAlone, StepKeeps
<1>5. QED BY <1>3, <1>4

LEMMA ReadTiedKeeps ==
  ASSUME TypeInv, ControlInv, NEW a \in Admins, ReadTied(a)
  PROVE  ControlInv'
<1>1. PICK t : t = task[a]
  OBVIOUS
<1>2. t \in Requests /\ t.pc = "checked" /\ Active(a) /\ Sound(t)
  BY <1>1 DEF TypeInv, ReadTied, Active, ControlInv
<1>3. CASE Open(t.bets) = {}
  <2>1. Step(a, Idle)
    BY <1>1, <1>3 DEF ReadTied
  <2>2. Idle.pc = "idle"
    BY TaskFields DEF Idle
  <2>3. QED BY <2>1, <2>2, StepKeeps DEF Sound
<1>4. CASE Open(t.bets) # {}
  <2>1. PICK s : s = [t EXCEPT !.pc = "validated", !.bets = Open(t.bets)]
    OBVIOUS
  <2>2. Step(a, s)
    BY <1>1, <1>4, <2>1 DEF ReadTied
  <2>3. s.pc = "validated" /\ s.kind = t.kind /\ s.market = t.market /\ s.bets \subseteq t.bets
    BY <1>2, <2>1 DEF Requests, Open
  <2>4. Sound(s)
    BY <1>2, <2>3 DEF Sound
  <2>5. QED BY <1>1, <1>2, <2>2, <2>3, <2>4, StaysAlone, StepKeeps
<1>5. QED BY <1>3, <1>4

LEMMA ReadWalletsKeeps ==
  ASSUME TypeInv, ControlInv, NEW a \in Admins, ReadWallets(a)
  PROVE  ControlInv'
<1>1. PICK t : t = task[a]
  OBVIOUS
<1>2. t \in Requests /\ t.pc = "recorded" /\ Active(a) /\ Sound(t)
  BY <1>1 DEF TypeInv, ReadWallets, Active, ControlInv
<1>3. PICK s : s = [t EXCEPT !.pc = "open", !.balance = balance, !.liability = liability]
  OBVIOUS
<1>4. Step(a, s)
  BY <1>1, <1>3 DEF ReadWallets
<1>5. /\ s.pc = "open" /\ s.kind = t.kind /\ s.market = t.market /\ s.bets = t.bets
      /\ s.outcome = t.outcome
  BY <1>2, <1>3 DEF Requests
<1>6. Sound(s)
  BY <1>2, <1>5 DEF Sound
<1>7. QED BY <1>1, <1>2, <1>4, <1>5, <1>6, StaysAlone, StepKeeps

LEMMA FailKeeps ==
  ASSUME TypeInv, ControlInv, NEW a \in Admins, Fail(a)
  PROVE  ControlInv'
<1>1. Idle.pc = "idle"
  BY TaskFields DEF Idle
<1>2. QED BY <1>1, StepKeeps DEF Fail, Sound

-----------------------------------------------------------------------------
(* Placement, the settlement id, and the record. *)

LEMMA PlaceKeeps ==
  ASSUME TypeInv, ControlInv, NEW b \in Bets, Place(b)
  PROVE  ControlInv'
<1>1. /\ status[b] = "none" /\ status' = [status EXCEPT ![b] = "PENDING"]
      /\ pnl' = pnl /\ tagged' = tagged /\ record' = record /\ task' = task
  BY DEF Place
<1>2. \A c \in Bets : status'[c] \in Settled <=> status[c] \in Settled
  BY <1>1 DEF TypeInv, TypeOK, Settled
<1>3. ASSUME NEW a \in Admins PROVE Sound(task[a])'
  <2>1. Sound(task[a])
    BY DEF ControlInv
  <2>2. QED BY <1>1, <1>2, <2>1 DEF Sound
<1>4. Alone'
  BY <1>1 DEF ControlInv, Alone, Active
<1>5. SettledInv'
  BY <1>1, <1>2 DEF ControlInv, SettledInv
<1>6. RowInv'
  <2> DEFINE peers == OpenOf(b.user, b.market)
  <2>1. row' = IF KindOf[b.market] = "fancy"
               THEN [row EXCEPT ![b.user][b.market] = BookExposure(peers \union {b}, b.market)] ELSE row
    <3>1. In(Of(Open(Bets), b.user), b.market) = peers
      BY DEF OpenOf, Open, In, Of
    <3>2. QED BY <3>1 DEF Place
  <2> SUFFICES ASSUME NEW u \in Users, NEW m \in Markets, KindOf[m] = "fancy", m \notin Reopenable,
                      \A c \in Bets : c.market = m => status'[c] \notin Settled
               PROVE  row'[u][m] = BookExposure(OpenOf(u, m)', m)
    BY DEF RowInv, BookExposure
  <2>2. row[u][m] = BookExposure(OpenOf(u, m), m)
    BY <1>2 DEF ControlInv, RowInv
  <2>3. CASE u = b.user /\ m = b.market
    <3>1. OpenOf(u, m)' = peers \union {b}
      BY <1>1, <2>3 DEF OpenOf, Open, In, Of, TypeInv, TypeOK
    <3>2. row'[u][m] = BookExposure(peers \union {b}, m)
      BY <2>1, <2>3 DEF TypeInv, TypeOK
    <3>3. QED BY <3>1, <3>2
  <2>4. CASE ~(u = b.user /\ m = b.market)
    <3>1. OpenOf(u, m)' = OpenOf(u, m)
      BY <1>1, <2>4 DEF OpenOf, Open, In, Of, TypeInv, TypeOK
    <3>2. row'[u][m] = row[u][m]
      BY <2>1, <2>4 DEF TypeInv, TypeOK
    <3>3. QED BY <2>2, <3>1, <3>2
  <2>5. QED BY <2>3, <2>4
<1>7. QED BY <1>3, <1>4, <1>5, <1>6 DEF ControlInv

\* Only the request's place changes.
LEMMA Moved ==
  ASSUME TypeInv, NEW a \in Admins, NEW pc, task' = [task EXCEPT ![a].pc = pc]
  PROVE  /\ \A c \in Admins : c # a => task'[c] = task[c]
         /\ task'[a].pc = pc /\ task'[a].kind = task[a].kind /\ task'[a].market = task[a].market
         /\ task'[a].outcome = task[a].outcome /\ task'[a].bets = task[a].bets
BY DEF TypeInv, Requests

LEMMA MovedAlone ==
  ASSUME TypeInv, ControlInv, NEW a \in Admins, Active(a), NEW pc, task' = [task EXCEPT ![a].pc = pc]
  PROVE  Alone'
BY Moved DEF ControlInv, Alone, Active

LEMMA TagBetsKeeps ==
  ASSUME TypeInv, ControlInv, NEW a \in Admins, TagBets(a)
  PROVE  ControlInv'
<1>1. /\ status' = status /\ pnl' = pnl /\ row' = row /\ record' = record
      /\ tagged' = tagged \union task[a].bets /\ task[a].pc = "validated"
      /\ task' = [task EXCEPT ![a].pc = "tagged"]
  BY DEF TagBets, books
<1>2. Active(a) /\ Sound(task[a])
  BY <1>1 DEF Active, ControlInv
<1>3. ASSUME NEW c \in Admins, c # a PROVE Sound(task[c])'
  <2>1. Sound(task[c]) /\ task'[c] = task[c]
    BY <1>1, <1>3, Moved DEF ControlInv
  <2>2. QED BY <1>1, <2>1 DEF Sound
<1>4. Sound(task[a])'
  <2>1. PICK t : t = task[a]
    OBVIOUS
  <2>2. PICK s : s = task'[a]
    OBVIOUS
  <2>3. /\ s.pc = "tagged" /\ s.kind = t.kind /\ s.market = t.market
        /\ s.outcome = t.outcome /\ s.bets = t.bets /\ t.pc = "validated" /\ Sound(t)
    BY <1>1, <1>2, <2>1, <2>2, Moved
  <2>4. QED BY <1>1, <2>1, <2>2, <2>3 DEF Sound
<1>5. Alone'
  BY <1>1, <1>2, MovedAlone
<1>6. SettledInv' /\ RowInv'
  BY <1>1, RowsStay DEF ControlInv, SettledInv
<1>7. QED BY <1>3, <1>4, <1>5, <1>6 DEF ControlInv

LEMMA RecordKeeps ==
  ASSUME TypeInv, ControlInv, NEW a \in Admins, Record(a)
  PROVE  ControlInv'
<1>1. PICK t : t = task[a]
  OBVIOUS
<1>2. /\ status' = status /\ pnl' = pnl /\ row' = row /\ tagged' = tagged /\ t.pc = "tagged"
      /\ record' = [record EXCEPT ![t.market] = [state |-> "live", winner |-> t.outcome]]
      /\ task' = [task EXCEPT ![a].pc = "recorded"]
  BY <1>1 DEF Record, books
<1>3. Active(a) /\ Sound(t) /\ t.market \in Markets /\ t.kind # "rollback"
  BY <1>1, <1>2 DEF Active, ControlInv, Sound
<1>4. /\ record'[t.market].state = "live" /\ record'[t.market].winner = t.outcome
      /\ \A m \in Markets : m # t.market => record'[m] = record[m]
  BY <1>2, <1>3 DEF TypeInv, TypeOK
<1>5. ASSUME NEW c \in Admins, c # a PROVE Sound(task[c])'
  <2>1. Sound(task[c]) /\ task'[c] = task[c]
    BY <1>2, <1>5, Moved DEF ControlInv
  <2>2. task[c].pc # "idle" => task[c].market # t.market
    BY <1>1, <1>3, <1>5 DEF ControlInv, Alone, Active
  <2>3. QED BY <1>2, <1>4, <2>1, <2>2 DEF Sound
<1>6. Sound(task[a])'
  <2>1. PICK s : s = task'[a]
    OBVIOUS
  <2>2. /\ s.pc = "recorded" /\ s.kind = t.kind /\ s.market = t.market
        /\ s.outcome = t.outcome /\ s.bets = t.bets
    BY <1>1, <1>2, <2>1, Moved
  <2>3. QED BY <1>2, <1>3, <1>4, <2>1, <2>2 DEF Sound
<1>7. Alone'
  BY <1>2, <1>3, MovedAlone
<1>8. SettledInv'
  <2> SUFFICES ASSUME NEW b \in Bets, status[b] \in Settled
               PROVE  /\ b \in tagged /\ record'[b.market].state = "live"
                      /\ KindOf[b.market] \in Incremental => pnl[b] = BetPnl(b, record'[b.market].winner)
    BY <1>2 DEF SettledInv
  <2>1. b.market \in Markets
    BY BetFields
  <2>2. /\ b \in tagged /\ record[b.market].state = "live"
        /\ KindOf[b.market] \in Incremental => pnl[b] = BetPnl(b, record[b.market].winner)
    BY DEF ControlInv, SettledInv
  <2>3. CASE b.market # t.market
    BY <1>4, <2>1, <2>2, <2>3
  <2>4. CASE b.market = t.market
    <3>1. KindOf[b.market] \notin Incremental
      BY <1>2, <1>3, <2>4 DEF Sound
    <3>2. QED BY <1>4, <2>2, <2>4, <3>1
  <2>5. QED BY <2>3, <2>4
<1>9. RowInv'
  BY <1>2, RowsStay DEF ControlInv
<1>10. QED BY <1>5, <1>6, <1>7, <1>8, <1>9 DEF ControlInv

-----------------------------------------------------------------------------
(* The transactions. *)

\* A transaction ends the request.
LEMMA Ended ==
  ASSUME TypeInv, ControlInv, NEW a \in Admins, task' = [task EXCEPT ![a] = Idle]
  PROVE  /\ \A c \in Admins : c # a => task'[c] = task[c]
         /\ task'[a].pc = "idle"
         /\ Alone'
<1>1. Idle.pc = "idle"
  BY TaskFields DEF Idle
<1>2. QED BY <1>1 DEF TypeInv, ControlInv, Alone, Active

\* The bets of a settlement or cancellation under way are settled, all of them
\* on the outcome that is on record.
LEMMA DecideKeeps ==
  ASSUME TypeInv, ControlInv, NEW a \in Admins, task[a].pc \in {"recorded", "open"},
         task[a].kind # "rollback", Decide(task[a]), task' = [task EXCEPT ![a] = Idle],
         record' = record
  PROVE  /\ \A c \in Admins : Sound(task[c])'
         /\ Alone' /\ SettledInv' /\ tagged' = tagged
         /\ \A b \in Bets : b.market # task[a].market => status'[b] = status[b]
<1>1. PICK t : t = task[a]
  OBVIOUS
<1>2. /\ Sound(t) /\ t.pc \in {"recorded", "open"} /\ t.kind # "rollback" /\ Active(a)
      /\ t.market \in Markets /\ \A b \in t.bets : b.market = t.market
      /\ t.bets \subseteq tagged
      /\ record[t.market].state = "live" /\ record[t.market].winner = t.outcome
  BY <1>1 DEF ControlInv, Sound, Active
<1>0. tagged' = tagged
  BY <1>1, <1>2 DEF Decide
<1>3. \A b \in Bets : /\ b \notin t.bets => status'[b] = status[b] /\ pnl'[b] = pnl[b]
                      /\ b \in t.bets => status'[b] \in Settled /\ pnl'[b] = BetPnl(b, t.outcome)
  BY <1>1 DEF Decide, Settled
<1>4. \A b \in Bets : b.market # t.market => status'[b] = status[b]
  BY <1>2, <1>3
<1>5. ASSUME NEW c \in Admins PROVE Sound(task[c])'
  <2>1. CASE c = a
    BY <2>1, Ended DEF Sound
  <2>2. CASE c # a
    <3>1. Sound(task[c]) /\ task'[c] = task[c]
      BY <2>2, Ended DEF ControlInv
    <3>2. task[c].pc # "idle" => task[c].market # t.market
      BY <1>1, <1>2, <2>2 DEF ControlInv, Alone, Active
    <3>3. \A b \in Bets : task[c].pc # "idle" /\ b.market = task[c].market => status'[b] = status[b]
      BY <1>4, <3>2
    <3>4. QED BY <1>0, <3>1, <3>3 DEF Sound
  <2>3. QED BY <2>1, <2>2
<1>6. Alone'
  BY Ended
<1>7. SettledInv'
  <2> SUFFICES ASSUME NEW b \in Bets, status'[b] \in Settled
               PROVE  /\ b \in tagged /\ record[b.market].state = "live"
                      /\ KindOf[b.market] \in Incremental => pnl'[b] = BetPnl(b, record[b.market].winner)
    BY <1>0 DEF SettledInv
  <2>1. CASE b \in t.bets
    BY <1>2, <1>3, <2>1
  <2>2. CASE b \notin t.bets
    BY <1>3, <2>2 DEF ControlInv, SettledInv
  <2>3. QED BY <2>1, <2>2
<1>8. QED BY <1>0, <1>1, <1>4, <1>5, <1>6, <1>7

\* On a market without exposure rows.
LEMMA RowsOfOthers ==
  ASSUME ControlInv, NEW m \in Markets, KindOf[m] # "fancy", row' = row,
         \A b \in Bets : b.market # m => status'[b] = status[b]
  PROVE  RowInv'
BY RowsStay DEF ControlInv

LEMMA CommitFancyKeeps ==
  ASSUME TypeInv, ControlInv, NEW a \in Admins, CommitFancy(a)
  PROVE  ControlInv'
<1>1. PICK t : t = task[a]
  OBVIOUS
<1>2. /\ t.pc = "open" /\ t.kind # "rollback" /\ KindOf[t.market] = "fancy"
      /\ Decide(t) /\ DeleteRows(t.market) /\ task' = [task EXCEPT ![a] = Idle]
      /\ record' = record
  BY <1>1 DEF CommitFancy
<1>3. /\ \A c \in Admins : Sound(task[c])'
      /\ Alone' /\ SettledInv'
      /\ \A b \in Bets : b.market # t.market => status'[b] = status[b]
  BY <1>1, <1>2, DecideKeeps
<1>4. RowInv'
  <2> SUFFICES ASSUME NEW u \in Users, NEW m \in Markets, KindOf[m] = "fancy", m \notin Reopenable,
                      \A b \in Bets : b.market = m => status'[b] \notin Settled
               PROVE  row'[u][m] = BookExposure(OpenOf(u, m)', m)
    BY DEF RowInv, BookExposure
  <2>1. m # t.market
    <3>1. PICK b \in t.bets : b.market = t.market
      BY <1>1, <1>2 DEF ControlInv, Sound
    <3>2. b \in Bets
      BY <1>1 DEF TypeInv, Requests
    <3>3. status'[b] \in Settled
      BY <1>2, <3>2 DEF Decide, Settled
    <3>4. QED BY <3>1, <3>2, <3>3
  <2>2. row'[u][m] = row[u][m]
    <3>1. row[u] \in [Markets -> Nat] /\ row'[u] = [row[u] EXCEPT ![t.market] = 0]
      BY <1>2 DEF TypeInv, TypeOK, DeleteRows
    <3>2. QED BY <2>1, <3>1
  <2>3. \A b \in Bets : b.market = m => status'[b] = status[b]
    BY <1>3, <2>1
  <2>4. OpenOf(u, m)' = OpenOf(u, m)
    BY <2>3 DEF OpenOf, Open, In, Of
  <2>5. row[u][m] = BookExposure(OpenOf(u, m), m)
    BY <2>3 DEF ControlInv, RowInv
  <2>6. QED BY <2>2, <2>4, <2>5
<1>5. QED BY <1>3, <1>4 DEF ControlInv

LEMMA IncrementKeeps ==
  ASSUME TypeInv, ControlInv, NEW a \in Admins, NEW credit, NEW release, Increment(a, credit, release),
         task[a].pc = "recorded", KindOf[task[a].market] # "fancy"
  PROVE  ControlInv'
<1>1. PICK t : t = task[a]
  OBVIOUS
<1>2. /\ t.pc = "recorded" /\ t.kind # "rollback" /\ KindOf[t.market] # "fancy" /\ t.market \in Markets
      /\ Decide(t) /\ task' = [task EXCEPT ![a] = Idle]
      /\ record' = record /\ row' = row
  BY <1>1 DEF Increment, Overwrites, ControlInv, Sound
<1>3. /\ \A c \in Admins : Sound(task[c])'
      /\ Alone' /\ SettledInv'
      /\ \A b \in Bets : b.market # t.market => status'[b] = status[b]
  BY <1>1, <1>2, DecideKeeps
<1>4. RowInv'
  BY <1>2, <1>3, RowsOfOthers
<1>5. QED BY <1>3, <1>4 DEF ControlInv

LEMMA CancelTiedKeeps ==
  ASSUME TypeInv, ControlInv, NEW a \in Admins, CancelTied(a)
  PROVE  ControlInv'
<1>1. PICK t : t = task[a]
  OBVIOUS
<1>2. /\ t.pc = "open" /\ t.kind # "rollback" /\ KindOf[t.market] # "fancy" /\ t.market \in Markets
      /\ Decide(t) /\ task' = [task EXCEPT ![a] = Idle]
      /\ record' = record /\ row' = row
  BY <1>1 DEF CancelTied, ControlInv, Sound
<1>3. /\ \A c \in Admins : Sound(task[c])'
      /\ Alone' /\ SettledInv'
      /\ \A b \in Bets : b.market # t.market => status'[b] = status[b]
  BY <1>1, <1>2, DecideKeeps
<1>4. RowInv'
  BY <1>2, <1>3, RowsOfOthers
<1>5. QED BY <1>3, <1>4 DEF ControlInv

\* A rollback reopens every settled bet of its market, and nobody else is
\* under way.
LEMMA CommitRollbackKeeps ==
  ASSUME TypeInv, ControlInv, NEW a \in Admins, CommitRollback(a)
  PROVE  ControlInv'
<1>1. PICK t : t = task[a]
  OBVIOUS
<1>2. /\ t.pc = "open" /\ t.kind = "rollback"
      /\ status' = [b \in Bets |-> IF b \in t.bets THEN "PENDING" ELSE status[b]]
      /\ pnl' = [b \in Bets |-> IF b \in t.bets THEN 0 ELSE pnl[b]]
      /\ record' = [record EXCEPT ![t.market].state = "rolled back"]
      /\ task' = [task EXCEPT ![a] = Idle] /\ tagged' = tagged /\ row' = row
  BY <1>1 DEF CommitRollback
<1>3. /\ Sound(t) /\ t.market \in Markets /\ t.market \in Reopenable
      /\ \A b \in t.bets : b.market = t.market
      /\ \A b \in Bets : b.market = t.market /\ status[b] \in Settled => b \in t.bets
  BY <1>1, <1>2 DEF ControlInv, Sound
<1>4. ASSUME NEW c \in Admins PROVE Sound(task[c])'
  <2>1. task'[c].pc = "idle"
    <3>1. c # a => task[c].pc = "idle"
      BY <1>1, <1>2 DEF ControlInv, Alone, Active
    <3>2. QED BY <1>2, <3>1, Ended
  <2>2. QED BY <2>1 DEF Sound
<1>5. Alone'
  BY <1>2, Ended
<1>6. SettledInv'
  <2> SUFFICES ASSUME NEW b \in Bets, status'[b] \in Settled
               PROVE  /\ b \in tagged /\ record'[b.market].state = "live"
                      /\ KindOf[b.market] \in Incremental => pnl'[b] = BetPnl(b, record'[b.market].winner)
    BY <1>2 DEF SettledInv
  <2>1. b \notin t.bets /\ status[b] \in Settled
    BY <1>2 DEF Settled
  <2>2. b.market # t.market /\ b.market \in Markets
    BY <1>3, <2>1, BetFields
  <2>3. record'[b.market] = record[b.market] /\ pnl'[b] = pnl[b]
    BY <1>2, <2>1, <2>2 DEF TypeInv, TypeOK
  <2>4. QED BY <2>1, <2>3 DEF ControlInv, SettledInv
<1>7. RowInv'
  <2>1. \A b \in Bets : b.market \notin Reopenable => status'[b] = status[b]
    BY <1>2, <1>3
  <2>2. QED BY <1>2, <2>1, RowsStay DEF ControlInv
<1>8. QED BY <1>4, <1>5, <1>6, <1>7 DEF ControlInv

LEMMA ControlKept ==
  ASSUME TypeInv, ControlInv, [Next]_vars
  PROVE  ControlInv'
<1>1. ASSUME NEW b \in Bets, Place(b) PROVE ControlInv'
  BY <1>1, PlaceKeeps
<1>2. ASSUME NEW a \in Admins, Ask(a) PROVE ControlInv'
  BY <1>2, ReadFancyKeeps, ReadBookmakerKeeps, CheckTiedKeeps, ReadToRollbackKeeps DEF Ask
<1>3. ASSUME NEW a \in Admins, GoOn(a) PROVE ControlInv'
  <2>1. CASE ValidateBookmaker(a) \/ ReadTied(a) \/ TagBets(a) \/ Record(a) \/ ReadWallets(a)
    BY <2>1, ValidateBookmakerKeeps, ReadTiedKeeps, TagBetsKeeps, RecordKeeps, ReadWalletsKeeps
  <2>2. CASE CommitFancy(a) \/ CancelTied(a) \/ CommitRollback(a)
    BY <2>2, CommitFancyKeeps, CancelTiedKeeps, CommitRollbackKeeps
  <2>3. CASE CommitBookmaker(a) \/ CommitTied(a)
    <3>1. /\ \E credit, release : Increment(a, credit, release)
          /\ task[a].pc = "recorded" /\ KindOf[task[a].market] # "fancy"
      BY <2>3 DEF CommitBookmaker, CommitTied
    <3>2. QED BY <3>1, IncrementKeeps
  <2>4. QED BY <1>3, <2>1, <2>2, <2>3 DEF GoOn
<1>4. ASSUME NEW a \in Admins, Fail(a) PROVE ControlInv'
  BY <1>4, FailKeeps
<1>5. CASE UNCHANGED vars
  <2>1. /\ status' = status /\ pnl' = pnl /\ row' = row /\ tagged' = tagged /\ record' = record
        /\ task' = task
    BY <1>5 DEF vars
  <2>2. ASSUME NEW a \in Admins PROVE Sound(task[a])'
    <3>1. Sound(task[a])
      BY DEF ControlInv
    <3>2. QED BY <2>1, <3>1 DEF Sound
  <2>3. Alone' /\ SettledInv' /\ RowInv'
    BY <2>1, RowsStay DEF ControlInv, Alone, Active, SettledInv
  <2>4. QED BY <2>2, <2>3 DEF ControlInv
<1>6. QED BY <1>1, <1>2, <1>3, <1>4, <1>5 DEF Next

-----------------------------------------------------------------------------
(* Type correctness. *)

LEMMA BetsFinite == \A S \in SUBSET Bets : IsFiniteSet(S)
BY FS_Subset, SideMarketAssumption DEF Bets

LEMMA BetSum ==
  ASSUME NEW S \in SUBSET Bets, NEW f, \A b \in S : f[b] \in Int
  PROVE  Sum(f, S) \in Int
BY BetsFinite, SumType

LEMMA BookExposureNatural ==
  ASSUME NEW S \in SUBSET Bets, NEW m
  PROVE  BookExposure(S, m) \in Nat
<1>1. Book(S) /\ LineBook(S)
  BY BetFields, BetsFinite DEF Book, LineBook
<1>2. QED BY <1>1, FancyExposureNatural, BookmakerExposureNatural DEF BookExposure

LEMMA ExposureOfNatural ==
  ASSUME NEW S \in SUBSET Bets
  PROVE  ExposureOf(S) \in Nat
<1> DEFINE f == [m \in Markets |-> BookExposure(In(S, m), m)]
<1>1. \A m \in Markets : f[m] \in Nat
  <2> SUFFICES ASSUME NEW m \in Markets PROVE BookExposure(In(S, m), m) \in Nat
    OBVIOUS
  <2>1. In(S, m) \in SUBSET Bets
    BY DEF In
  <2>2. QED BY <2>1, BookExposureNatural
<1> HIDE DEF f
<1>2. Sum(f, Markets) \in Nat
  BY <1>1, SumNatural, SideMarketAssumption
<1>3. QED BY <1>2 DEF f, ExposureOf

LEMMA BetPnlInteger ==
  ASSUME NEW b \in Bets, NEW o
  PROVE  BetPnl(b, o) \in Int /\ FancyBetPnl(b, o) \in Int
BY BetFields DEF BetPnl, FancyBetPnl

LEMMA FancyCreditInteger ==
  ASSUME NEW S \in SUBSET Bets, NEW pairs, NEW runs, NEW exposure \in Nat
  PROVE  FancyCredit(S, pairs, runs, exposure) \in Int
<1> DEFINE won == {b \in S : FancyWins(b, runs)}
           paid == [b \in won |-> b.stake + b.win]
           wins == [b \in won |-> b.win]
<1>1. won \in SUBSET Bets /\ won \intersect pairs \in SUBSET Bets /\ won \ pairs \in SUBSET Bets
  OBVIOUS
<1>2. (\A b \in won : paid[b] \in Int) /\ (\A b \in won : wins[b] \in Int)
  BY BetFields
<1>3. Sum(paid, won \ pairs) \in Int /\ Sum(wins, won \intersect pairs) \in Int
  <2> HIDE DEF won, paid, wins
  <2>1. QED BY <1>1, <1>2, BetSum
<1>4. FancyPnl(S, runs) \in Int
  <2>1. LineBook(S)
    BY BetFields, BetsFinite DEF LineBook
  <2>2. QED BY <2>1, FancyPnlInteger
<1> DEFINE total == FancyPnl(S, runs)
           forPairs == IF exposure > 0 THEN exposure + total ELSE Sum(wins, won \intersect pairs)
<1>5. FancyCredit(S, pairs, runs, exposure)
        = Sum(paid, won \ pairs) + (IF won \intersect pairs # {} /\ total > 0 THEN forPairs ELSE 0)
  BY DEF FancyCredit
<1> HIDE DEF won, paid, wins, total
<1>6. total \in Int
  BY <1>4 DEF total
<1>7. QED BY <1>3, <1>5, <1>6

LEMMA LockInteger ==
  ASSUME NEW S \in SUBSET Bets PROVE FancyRefund(S) \in Int
<1> DEFINE f == [b \in S |-> LockOf(b)]
<1>1. \A b \in S : f[b] \in Int
  BY BetFields DEF LockOf
<1> HIDE DEF f
<1>2. Sum(f, S) \in Int
  BY <1>1, BetSum
<1>3. QED BY <1>2 DEF f, FancyRefund

LEMMA TaskType ==
  ASSUME NEW pc \in Places, NEW kind \in {"none", "settle", "cancel", "rollback"},
         NEW m \in Markets \union {"none"}, NEW o \in Int, NEW S \in SUBSET Bets
  PROVE  Task(pc, kind, m, o, S) \in Requests
<1>1. FancyPairs(S) \in SUBSET Bets
  BY DEF FancyPairs
<1>2. QED BY <1>1 DEF Task, Requests

LEMMA IdleType == Idle \in Requests
BY TaskType DEF Idle, Places, Unset

LEMMA InitType == Init => TypeInv
<1> SUFFICES ASSUME Init PROVE TypeInv
  OBVIOUS
<1>1. task \in [Admins -> Requests]
  BY IdleType DEF Init
<1>2. balance \in [Users -> Int]
  BY SideMarketAssumption DEF Init
<1>3. TypeOK
  BY <1>1, <1>2 DEF Init, TypeOK, Unset, Requests, Idle, Task
<1>4. QED BY <1>1, <1>3 DEF TypeInv

LEMMA PlaceType ==
  ASSUME TypeInv, NEW b \in Bets, Place(b)
  PROVE  TypeInv'
<1>1. PICK u : u = b.user
  OBVIOUS
<1>2. PICK m : m = b.market
  OBVIOUS
<1>3. u \in Users /\ m \in Markets
  BY <1>1, <1>2, BetFields
<1>4. PICK peers : peers = In(Of(Open(Bets), u), m)
  OBVIOUS
<1>5. PICK before : before = BookExposure(peers, m)
  OBVIOUS
<1>6. PICK after : after = BookExposure(peers \union {b}, m)
  OBVIOUS
<1>7. before \in Nat /\ after \in Nat
  <2>1. peers \in SUBSET Bets /\ peers \union {b} \in SUBSET Bets
    BY <1>4 DEF In, Of, Open
  <2>2. QED BY <1>5, <1>6, <2>1, BookExposureNatural
<1>8. /\ status' = [status EXCEPT ![b] = "PENDING"]
      /\ balance' = [balance EXCEPT ![u] = @ - (after - before)]
      /\ liability' = [liability EXCEPT ![u] = @ + (after - before)]
      /\ pairedWith' = [c \in Bets |-> IF after < before /\ c \in peers /\ c.selection = b.selection
                                       THEN {b} ELSE pairedWith[c]]
      /\ row' = IF KindOf[m] = "fancy" THEN [row EXCEPT ![u][m] = after] ELSE row
      /\ UNCHANGED <<offer, pnl, tagged, record, task>>
  BY <1>1, <1>2, <1>4, <1>5, <1>6 DEF Place
<1>9. balance' \in [Users -> Int] /\ liability' \in [Users -> Int]
  <2>1. balance \in [Users -> Int] /\ liability \in [Users -> Int]
    BY DEF TypeInv, TypeOK
  <2>2. after - before \in Int
    BY <1>7
  <2>3. balance' = [balance EXCEPT ![u] = @ - (after - before)]
    BY <1>8
  <2>4. liability' = [liability EXCEPT ![u] = @ + (after - before)]
    BY <1>8
  <2>5. QED BY <1>3, <2>1, <2>2, <2>3, <2>4
<1>10. pairedWith' \in [Bets -> SUBSET Bets]
  BY <1>8 DEF TypeInv, TypeOK
<1>11. row' \in [Users -> [Markets -> Nat]]
  BY <1>3, <1>7, <1>8 DEF TypeInv, TypeOK
<1>12. status' \in [Bets -> {"none", "PENDING"} \union Settled]
  BY <1>8 DEF TypeInv, TypeOK
<1>13. QED BY <1>8, <1>9, <1>10, <1>11, <1>12 DEF TypeInv, TypeOK

LEMMA StepType ==
  ASSUME TypeInv, NEW a \in Admins, NEW t \in Requests, Step(a, t)
  PROVE  TypeInv'
<1>1. /\ task' = [task EXCEPT ![a] = t]
      /\ UNCHANGED <<offer, balance, liability, status, pnl, pairedWith, tagged, row, record>>
  BY DEF Step, books
<1>2. task' \in [Admins -> Requests]
  BY <1>1 DEF TypeInv
<1>3. QED BY <1>1, <1>2 DEF TypeInv, TypeOK, Requests, Places

LEMMA AskType ==
  ASSUME TypeInv, NEW a \in Admins, Ask(a)
  PROVE  TypeInv'
<1>1. ASSUME NEW m \in Markets, NEW o \in OutcomesOf[m], NEW filter \in Filters,
             ReadFancy(a, m, o, filter) \/ ReadBookmaker(a, m, o, filter) \/ CheckTied(a, m, o, filter)
      PROVE  TypeInv'
  <2>1. o \in Int
    BY SideMarketAssumption DEF Void
  <2>2. filter \in SUBSET Bets
    BY SideMarketAssumption DEF Bets
  <2>3. Kind(o) \in {"none", "settle", "cancel", "rollback"}
    BY KindOfOutcome
  <2>4. CASE ReadFancy(a, m, o, filter)
    <3>1. FancyRead(m, filter) \in SUBSET Bets
      BY FancyReadBets
    <3>2. Task("validated", Kind(o), m, o, FancyRead(m, filter)) \in Requests
      BY <2>1, <2>3, <3>1, TaskType DEF Places
    <3>3. QED BY <2>4, <3>2, BeginIsStep, StepType DEF ReadFancy
  <2>5. CASE ReadBookmaker(a, m, o, filter)
    <3>1. Open(In(filter, m)) \in SUBSET Bets
      BY <2>2 DEF Open, In
    <3>2. Task("read", "settle", m, o, Open(In(filter, m))) \in Requests
      BY <2>1, <3>1, TaskType DEF Places
    <3>3. QED BY <2>5, <3>2, BeginIsStep, StepType DEF ReadBookmaker
  <2>6. CASE CheckTied(a, m, o, filter)
    <3>1. In(filter, m) \in SUBSET Bets
      BY <2>2 DEF In
    <3>2. Task("checked", Kind(o), m, o, In(filter, m)) \in Requests
      BY <2>1, <2>3, <3>1, TaskType DEF Places
    <3>3. QED BY <2>6, <3>2, BeginIsStep, StepType DEF CheckTied
  <2>7. QED BY <1>1, <2>4, <2>5, <2>6
<1>2. ASSUME NEW m \in Markets, ReadToRollback(a, m) PROVE TypeInv'
  <2> DEFINE back == [b \in Bets |-> TakenBack(b)]
  <2>1. PICK S : S = SettledIn(m)
    OBVIOUS
  <2>2. S \in SUBSET Bets
    BY <2>1 DEF SettledIn, In, TypeInv, TypeOK
  <2>3. PICK r : r = Task("recorded", "rollback", m, Unset, S)
    OBVIOUS
  <2>4. r \in Requests
    BY <2>2, <2>3, TaskType DEF Places, Unset
  <2>5. PICK taken : taken = [u \in Users |-> Sum(back, Of(S, u))]
    OBVIOUS
  <2>6. taken \in [Users -> Int]
    <3>1. \A b \in Bets : back[b] \in Int
      BY BetFields DEF TakenBack, LockOf
    <3> HIDE DEF back
    <3>2. \A u \in Users : Of(S, u) \in SUBSET Bets
      BY <2>2 DEF Of
    <3>3. \A u \in Users : Sum(back, Of(S, u)) \in Int
      BY <3>1, <3>2, BetSum
    <3>4. QED BY <2>5, <3>3
  <2>7. [r EXCEPT !.taken = taken] \in Requests
    BY <2>4, <2>6 DEF Requests
  <2>8. Begin(a, [r EXCEPT !.taken = taken])
    BY <1>2, <2>1, <2>3, <2>5 DEF ReadToRollback
  <2>9. QED BY <2>7, <2>8, BeginIsStep, StepType
<1>3. QED BY <1>1, <1>2 DEF Ask

LEMMA MovedType ==
  ASSUME TypeInv, NEW a \in Admins, NEW pc \in Places, task' = [task EXCEPT ![a].pc = pc]
  PROVE  task' \in [Admins -> Requests]
<1>1. PICK t : t = [task[a] EXCEPT !.pc = pc]
  OBVIOUS
<1>2. t \in Requests
  BY <1>1 DEF TypeInv, Requests
<1>3. task' = [task EXCEPT ![a] = t]
  BY <1>1
<1>4. QED BY <1>2, <1>3 DEF TypeInv

LEMMA MoveType ==
  ASSUME TypeInv, NEW a \in Admins,
         ValidateBookmaker(a) \/ ReadTied(a) \/ TagBets(a) \/ Record(a) \/ ReadWallets(a) \/ Fail(a)
  PROVE  TypeInv'
<1>1. PICK t : t = task[a]
  OBVIOUS
<1>2. t \in Requests
  BY <1>1 DEF TypeInv
<1>3. CASE ValidateBookmaker(a)
  <2>1. [t EXCEPT !.pc = "validated"] \in Requests
    BY <1>2 DEF Requests, Places
  <2>2. QED BY <1>1, <1>3, <2>1, IdleType, StepType DEF ValidateBookmaker
<1>4. CASE ReadTied(a)
  <2>1. Open(t.bets) \in SUBSET Bets
    BY <1>2 DEF Open, Requests
  <2>2. [t EXCEPT !.pc = "validated", !.bets = Open(t.bets)] \in Requests
    BY <1>2, <2>1 DEF Requests, Places
  <2>3. QED BY <1>1, <1>4, <2>2, IdleType, StepType DEF ReadTied
<1>5. CASE ReadWallets(a)
  <2>1. [t EXCEPT !.pc = "open", !.balance = balance, !.liability = liability] \in Requests
    BY <1>2 DEF Requests, Places, TypeInv, TypeOK
  <2>2. QED BY <1>1, <1>5, <2>1, StepType DEF ReadWallets
<1>6. CASE Fail(a)
  BY <1>6, IdleType, StepType DEF Fail
<1>7. CASE TagBets(a)
  <2>1. /\ tagged' = tagged \union t.bets /\ task' = [task EXCEPT ![a].pc = "tagged"]
        /\ UNCHANGED <<offer, balance, liability, status, pnl, pairedWith, row, record>>
    BY <1>1, <1>7 DEF TagBets, books
  <2>2. tagged' \subseteq Bets
    BY <1>2, <2>1 DEF TypeInv, TypeOK, Requests
  <2>3. task' \in [Admins -> Requests]
    BY <2>1, MovedType DEF Places
  <2>4. QED BY <2>1, <2>2, <2>3 DEF TypeInv, TypeOK, Requests, Places
<1>8. CASE Record(a)
  <2>1. /\ record' = [record EXCEPT ![t.market] = [state |-> "live", winner |-> t.outcome]]
        /\ task' = [task EXCEPT ![a].pc = "recorded"]
        /\ UNCHANGED <<offer, balance, liability, status, pnl, pairedWith, tagged, row>>
    BY <1>1, <1>8 DEF Record, books
  <2>2. record' \in [Markets -> [state : {"none", "live", "rolled back"}, winner : Int]]
    BY <1>2, <2>1 DEF TypeInv, TypeOK, Requests
  <2>3. task' \in [Admins -> Requests]
    BY <2>1, MovedType DEF Places
  <2>4. QED BY <2>1, <2>2, <2>3 DEF TypeInv, TypeOK, Requests, Places
<1>9. QED BY <1>3, <1>4, <1>5, <1>6, <1>7, <1>8

LEMMA DecideType ==
  ASSUME TypeInv, NEW t, Decide(t)
  PROVE  /\ status' \in [Bets -> {"none", "PENDING"} \union Settled] /\ pnl' \in [Bets -> Int]
         /\ t.bets \subseteq Bets => tagged' \subseteq Bets
<1>1. \A b \in Bets : BetPnl(b, t.outcome) \in Int
  BY BetPnlInteger
<1>2. QED BY <1>1 DEF Decide, TypeInv, TypeOK, Settled

LEMMA EndedType ==
  ASSUME TypeInv, NEW a \in Admins, task' = [task EXCEPT ![a] = Idle]
  PROVE  task' \in [Admins -> Requests]
BY IdleType DEF TypeInv

LEMMA CommitFancyType ==
  ASSUME TypeInv, ControlInv, NEW a \in Admins, CommitFancy(a)
  PROVE  TypeInv'
<1>1. PICK t : t = task[a]
  OBVIOUS
<1>2. t \in Requests
  BY <1>1 DEF TypeInv
<1>3. PICK credit : credit = [u \in Users |->
          IF t.kind = "cancel" THEN FancyRefund(Of(t.bets, u))
          ELSE FancyCredit(Of(t.bets, u), t.pairs, t.outcome, row[u][t.market])]
  OBVIOUS
<1>4. PICK locks : locks = [u \in Users |-> FancyRefund(Of(t.bets, u))]
  OBVIOUS
<1>5. /\ Decide(t) /\ DeleteRows(t.market) /\ task' = [task EXCEPT ![a] = Idle]
      /\ balance' = [u \in Users |-> IF u \in Concerned(a) THEN t.balance[u] + credit[u] ELSE balance[u]]
      /\ liability' = [u \in Users |-> IF u \in Concerned(a) THEN Max({0, t.liability[u] - locks[u]})
                                       ELSE liability[u]]
      /\ UNCHANGED <<offer, pairedWith, record>>
  BY <1>1, <1>3, <1>4 DEF CommitFancy
<1>6. t.market \in Markets
  BY <1>1 DEF CommitFancy, ControlInv, Sound
<1>7. \A u \in Users : Of(t.bets, u) \in SUBSET Bets
  BY <1>2 DEF Of, Requests
<1>8. \A u \in Users : credit[u] \in Int /\ locks[u] \in Int
  <2> SUFFICES ASSUME NEW u \in Users PROVE credit[u] \in Int /\ locks[u] \in Int
    OBVIOUS
  <2>1. FancyRefund(Of(t.bets, u)) \in Int
    BY <1>7, LockInteger
  <2>2. FancyCredit(Of(t.bets, u), t.pairs, t.outcome, row[u][t.market]) \in Int
    <3>1. row[u][t.market] \in Nat
      BY <1>6 DEF TypeInv, TypeOK
    <3>2. QED BY <1>7, <3>1, FancyCreditInteger
  <2>3. QED BY <1>3, <1>4, <2>1, <2>2
<1>9. balance' \in [Users -> Int]
  <2>1. t.balance \in [Users -> Int] /\ balance \in [Users -> Int]
    BY <1>2 DEF Requests, TypeInv, TypeOK
  <2>2. balance' = [u \in Users |-> IF u \in Concerned(a) THEN t.balance[u] + credit[u] ELSE balance[u]]
    BY <1>5
  <2>3. QED BY <1>8, <2>1, <2>2
<1>10. liability' \in [Users -> Int]
  <2>1. t.liability \in [Users -> Int]
    BY <1>2 DEF Requests
  <2>2. \A u \in Users : Max({0, t.liability[u] - locks[u]}) \in Int
    <3> SUFFICES ASSUME NEW u \in Users PROVE Max({0, t.liability[u] - locks[u]}) \in Int
      OBVIOUS
    <3>1. t.liability[u] - locks[u] \in Int
      BY <1>8, <2>1
    <3>2. QED BY <3>1, MaxWithZero
  <2>3. QED BY <1>5, <2>2 DEF TypeInv, TypeOK
<1>11. row' \in [Users -> [Markets -> Nat]]
  <2>1. \A u \in Users : [row[u] EXCEPT ![t.market] = 0] \in [Markets -> Nat]
    BY DEF TypeInv, TypeOK
  <2>2. QED BY <1>5, <2>1 DEF DeleteRows
<1>12. task' \in [Admins -> Requests]
  BY <1>5, EndedType
<1>13. /\ status' \in [Bets -> {"none", "PENDING"} \union Settled] /\ pnl' \in [Bets -> Int]
       /\ tagged' \subseteq Bets
  BY <1>2, <1>5, DecideType DEF Requests
<1>14. QED BY <1>5, <1>9, <1>10, <1>11, <1>12, <1>13 DEF TypeInv, TypeOK, Requests, Places

LEMMA IncrementType ==
  ASSUME TypeInv, NEW a \in Admins, NEW credit, NEW release, Increment(a, credit, release),
         \A u \in Users : credit[u] \in Int /\ release[u] \in Int
  PROVE  TypeInv'
<1>1. /\ Decide(task[a]) /\ task' = [task EXCEPT ![a] = Idle]
      /\ balance' = [u \in Users |-> balance[u] + credit[u]]
      /\ liability' = [u \in Users |-> liability[u] - release[u]]
      /\ UNCHANGED <<offer, pairedWith, row, record>>
  BY DEF Increment
<1>2. balance' \in [Users -> Int] /\ liability' \in [Users -> Int]
  <2>1. balance \in [Users -> Int] /\ liability \in [Users -> Int]
    BY DEF TypeInv, TypeOK
  <2>2. balance' = [u \in Users |-> balance[u] + credit[u]]
    BY <1>1
  <2>3. liability' = [u \in Users |-> liability[u] - release[u]]
    BY <1>1
  <2>4. QED BY <2>1, <2>2, <2>3
<1>3. task' \in [Admins -> Requests]
  BY <1>1, EndedType
<1>4. /\ status' \in [Bets -> {"none", "PENDING"} \union Settled] /\ pnl' \in [Bets -> Int]
      /\ tagged' \subseteq Bets
  BY <1>1, DecideType DEF TypeInv, Requests
<1>5. QED BY <1>1, <1>2, <1>3, <1>4 DEF TypeInv, TypeOK, Requests, Places

\* What the bets of a request add up to, client by client.
LEMMA SumsOfBets ==
  ASSUME TypeInv, NEW a \in Admins, NEW f, \A b \in Bets : f[b] \in Int
  PROVE  \A u \in Users : Sum(f, Of(task[a].bets, u)) \in Int
<1>1. \A u \in Users : Of(task[a].bets, u) \in SUBSET Bets
  BY DEF Of, TypeInv, Requests
<1>2. QED BY <1>1, BetSum

LEMMA CommitBookmakerType ==
  ASSUME TypeInv, NEW a \in Admins, CommitBookmaker(a)
  PROVE  TypeInv'
<1> DEFINE f == [b \in Bets |-> BookmakerCredit(b, task[a].outcome)]
           g == [b \in Bets |-> BookmakerRelease(b)]
<1>1. PICK credit : credit = [u \in Users |-> Sum(f, Of(task[a].bets, u))]
  OBVIOUS
<1>2. PICK release : release = [u \in Users |-> Sum(g, Of(task[a].bets, u))]
  OBVIOUS
<1>3. Increment(a, credit, release)
  BY <1>1, <1>2 DEF CommitBookmaker
<1>4. (\A b \in Bets : f[b] \in Int) /\ (\A b \in Bets : g[b] \in Int)
  BY BetFields DEF BookmakerCredit, BookmakerRelease
<1> HIDE DEF f, g
<1>5. \A u \in Users : Sum(f, Of(task[a].bets, u)) \in Int /\ Sum(g, Of(task[a].bets, u)) \in Int
  BY <1>4, SumsOfBets
<1>6. QED BY <1>1, <1>2, <1>3, <1>5, IncrementType

LEMMA CommitTiedType ==
  ASSUME TypeInv, NEW a \in Admins, CommitTied(a)
  PROVE  TypeInv'
<1> DEFINE f == [b \in Bets |-> TiedCredit(b, task[a].outcome)]
           g == [b \in Bets |-> TiedRelease(b)]
<1>1. PICK credit : credit = [u \in Users |-> Sum(f, Of(task[a].bets, u))]
  OBVIOUS
<1>2. PICK release : release = [u \in Users |-> Sum(g, Of(task[a].bets, u))]
  OBVIOUS
<1>3. Increment(a, credit, release)
  BY <1>1, <1>2 DEF CommitTied
<1>4. (\A b \in Bets : f[b] \in Int) /\ (\A b \in Bets : g[b] \in Int)
  BY BetFields DEF TiedCredit, TiedRelease
<1> HIDE DEF f, g
<1>5. \A u \in Users : Sum(f, Of(task[a].bets, u)) \in Int /\ Sum(g, Of(task[a].bets, u)) \in Int
  BY <1>4, SumsOfBets
<1>6. QED BY <1>1, <1>2, <1>3, <1>5, IncrementType

LEMMA CancelTiedType ==
  ASSUME TypeInv, NEW a \in Admins, CancelTied(a)
  PROVE  TypeInv'
<1> DEFINE f == [b \in Bets |-> TiedRefund(b)]
<1>1. PICK refund : refund = [u \in Users |-> Sum(f, Of(task[a].bets, u))]
  OBVIOUS
<1>2. /\ Decide(task[a]) /\ task' = [task EXCEPT ![a] = Idle]
      /\ balance' = [u \in Users |-> IF u \in Concerned(a)
                                     THEN task[a].balance[u] + refund[u] ELSE balance[u]]
      /\ UNCHANGED <<offer, liability, pairedWith, row, record>>
  BY <1>1 DEF CancelTied
<1>3. \A b \in Bets : f[b] \in Int
  BY BetFields DEF TiedRefund
<1> HIDE DEF f
<1>4. \A u \in Users : refund[u] \in Int
  BY <1>1, <1>3, SumsOfBets
<1>5. balance' \in [Users -> Int]
  <2>1. task[a].balance \in [Users -> Int] /\ balance \in [Users -> Int]
    BY DEF TypeInv, TypeOK, Requests
  <2>2. balance' = [u \in Users |-> IF u \in Concerned(a)
                                   THEN task[a].balance[u] + refund[u] ELSE balance[u]]
    BY <1>2
  <2>3. QED BY <1>4, <2>1, <2>2
<1>6. task' \in [Admins -> Requests]
  BY <1>2, EndedType
<1>7. /\ status' \in [Bets -> {"none", "PENDING"} \union Settled] /\ pnl' \in [Bets -> Int]
      /\ tagged' \subseteq Bets
  BY <1>2, DecideType DEF TypeInv, Requests
<1>8. QED BY <1>2, <1>5, <1>6, <1>7 DEF TypeInv, TypeOK, Requests, Places

LEMMA CommitRollbackType ==
  ASSUME TypeInv, NEW a \in Admins, CommitRollback(a)
  PROVE  TypeInv'
<1>1. PICK t : t = task[a]
  OBVIOUS
<1>2. t \in Requests
  BY <1>1 DEF TypeInv
<1>3. PICK exposure : exposure = [u \in Users |-> Recalculated(t, u)]
  OBVIOUS
<1>4. /\ status' = [b \in Bets |-> IF b \in t.bets THEN "PENDING" ELSE status[b]]
      /\ pnl' = [b \in Bets |-> IF b \in t.bets THEN 0 ELSE pnl[b]]
      /\ balance' = [u \in Users |-> IF u \in Concerned(a) /\ t.taken[u] # 0
                                     THEN t.balance[u] - t.taken[u] ELSE balance[u]]
      /\ liability' = [u \in Users |-> IF u \in Concerned(a) THEN exposure[u] ELSE liability[u]]
      /\ record' = [record EXCEPT ![t.market].state = "rolled back"]
      /\ task' = [task EXCEPT ![a] = Idle]
      /\ UNCHANGED <<offer, pairedWith, tagged, row>>
  BY <1>1, <1>3 DEF CommitRollback
<1>5. \A u \in Users : exposure[u] \in Int
  <2> SUFFICES ASSUME NEW u \in Users PROVE Recalculated(t, u) \in Int
    BY <1>3
  <2>1. Open(Of(Bets, u)) \union Of(t.bets, u) \in SUBSET Bets
    BY <1>2 DEF Open, Of, Requests
  <2>2. QED BY <2>1, ExposureOfNatural DEF Recalculated
<1>6. balance' \in [Users -> Int] /\ liability' \in [Users -> Int]
  <2>1. /\ t.balance \in [Users -> Int] /\ t.taken \in [Users -> Int]
        /\ balance \in [Users -> Int] /\ liability \in [Users -> Int]
    BY <1>2 DEF Requests, TypeInv, TypeOK
  <2>2. balance' = [u \in Users |-> IF u \in Concerned(a) /\ t.taken[u] # 0
                                   THEN t.balance[u] - t.taken[u] ELSE balance[u]]
    BY <1>4
  <2>3. liability' = [u \in Users |-> IF u \in Concerned(a) THEN exposure[u] ELSE liability[u]]
    BY <1>4
  <2>4. balance' \in [Users -> Int]
    BY <2>1, <2>2
  <2>5. liability' \in [Users -> Int]
    BY <1>5, <2>1, <2>3
  <2>6. QED BY <2>4, <2>5
<1>7. task' \in [Admins -> Requests]
  BY <1>4, EndedType
<1>8. status' \in [Bets -> {"none", "PENDING"} \union Settled] /\ pnl' \in [Bets -> Int]
  <2>1. /\ status' = [b \in Bets |-> IF b \in t.bets THEN "PENDING" ELSE status[b]]
        /\ pnl' = [b \in Bets |-> IF b \in t.bets THEN 0 ELSE pnl[b]]
    BY <1>4
  <2>2. status \in [Bets -> {"none", "PENDING"} \union Settled] /\ pnl \in [Bets -> Int]
    BY DEF TypeInv, TypeOK
  <2> HIDE DEF Settled
  <2>3. QED BY <2>1, <2>2
<1>9. record' \in [Markets -> [state : {"none", "live", "rolled back"}, winner : Int]]
  BY <1>4 DEF TypeInv, TypeOK
<1>10. QED BY <1>4, <1>6, <1>7, <1>8, <1>9 DEF TypeInv, TypeOK, Requests, Places

LEMMA TypeKept ==
  ASSUME TypeInv, ControlInv, [Next]_vars
  PROVE  TypeInv'
<1>1. ASSUME NEW b \in Bets, Place(b) PROVE TypeInv'
  BY <1>1, PlaceType
<1>2. ASSUME NEW a \in Admins, Ask(a) PROVE TypeInv'
  BY <1>2, AskType
<1>3. ASSUME NEW a \in Admins, GoOn(a) \/ Fail(a) PROVE TypeInv'
  <2>1. CASE \/ ValidateBookmaker(a) \/ ReadTied(a) \/ TagBets(a) \/ Record(a) \/ ReadWallets(a)
             \/ Fail(a)
    BY <2>1, MoveType
  <2>2. CASE CommitFancy(a) \/ CommitBookmaker(a) \/ CommitTied(a)
    BY <2>2, CommitFancyType, CommitBookmakerType, CommitTiedType
  <2>3. CASE CancelTied(a) \/ CommitRollback(a)
    BY <2>3, CancelTiedType, CommitRollbackType
  <2>4. QED BY <1>3, <2>1, <2>2, <2>3 DEF GoOn
<1>4. CASE UNCHANGED vars
  BY <1>4 DEF vars, TypeInv, TypeOK
<1>5. QED BY <1>1, <1>2, <1>3, <1>4 DEF Next

LEMMA InitControl == Init => ControlInv
<1> SUFFICES ASSUME Init PROVE ControlInv
  OBVIOUS
<1>1. \A a \in Admins : task[a].pc = "idle"
  BY TaskFields DEF Init, Idle
<1>2. \A a \in Admins : Sound(task[a])
  BY <1>1 DEF Sound
<1>3. Alone
  BY <1>1 DEF Alone, Active
<1>4. SettledInv
  BY DEF Init, SettledInv, Settled
<1>5. RowInv
  <2> SUFFICES ASSUME NEW u \in Users, NEW m \in Markets, KindOf[m] = "fancy"
               PROVE  row[u][m] = BookExposure(OpenOf(u, m), m)
    BY DEF RowInv
  <2>1. row[u][m] = 0 /\ OpenOf(u, m) = {}
    BY DEF Init, OpenOf, Open, In, Of
  <2>2. BookExposure({}, m) = 0
    BY NoFancyExposure DEF BookExposure
  <2>3. QED BY <2>1, <2>2
<1>6. QED BY <1>2, <1>3, <1>4, <1>5 DEF ControlInv

-----------------------------------------------------------------------------
(* The theorems. *)

THEOREM Invariants == Spec => [](TypeInv /\ ControlInv)
<1>1. Init => TypeInv /\ ControlInv
  BY InitType, InitControl
<1>2. TypeInv /\ ControlInv /\ [Next]_vars => TypeInv' /\ ControlInv'
  BY TypeKept, ControlKept
<1>3. QED BY <1>1, <1>2, PTL DEF Spec

\* The shape of the state.
THEOREM TypeCorrect == Spec => []TypeOK
<1>1. TypeInv => TypeOK
  BY DEF TypeInv
<1>2. QED BY <1>1, Invariants, PTL

\* A settled bet can be rolled back: settleFancyManual, settleBookmakerManualV2
\* and settleTiedMatchManual leave it under a live record, which finds it by
\* its settlement id, whatever failed or was rolled back on the way
\* (Reversible).
THEOREM SettledCanBeRolledBack == Spec => []Reversible
<1>1. TypeInv /\ ControlInv => Reversible
  BY BetFields DEF TypeInv, TypeOK, ControlInv, SettledInv, Reversible, SettledIn, In
<1>2. QED BY <1>1, Invariants, PTL

\* The settled bets of a bookmaker or tied match market are settled on the
\* outcome its record states, however often the market was settled and rolled
\* back (OneWinner).
THEOREM WinnerOnRecord == Spec => []OneWinner
<1>1. ControlInv => OneWinner
  BY DEF ControlInv, SettledInv, OneWinner
<1>2. QED BY <1>1, Invariants, PTL

\* The row that decides what settleFancyManual pays a hedged book covers the
\* client's open bets on the selection until a bet on it is settled: nothing
\* that is placed, settled, cancelled, rolled back or failed on other markets,
\* and no failed request on this one, takes from it (RowCoversOpenBets).
THEOREM RowsCoverOpenBets == Spec => []RowCoversOpenBets
<1>1. TypeInv /\ ControlInv => RowCoversOpenBets
  <2> SUFFICES ASSUME TypeInv, ControlInv, NEW u \in Users, NEW m \in Markets,
                      KindOf[m] = "fancy", m \notin Reopenable, SettledIn(m) = {}
               PROVE  row[u][m] >= BookExposure(OpenOf(u, m), m)
    BY DEF RowCoversOpenBets, OpenOf
  <2>1. \A b \in Bets : b.market = m => status[b] \notin Settled
    BY DEF ControlInv, SettledInv, SettledIn, In
  <2>2. row[u][m] = BookExposure(OpenOf(u, m), m)
    BY <2>1 DEF ControlInv, RowInv
  <2>3. row[u][m] >= row[u][m]
    <3>1. row[u][m] \in Nat
      <4>1. row \in [Users -> [Markets -> Nat]]
        BY DEF TypeInv, TypeOK
      <4>2. row[u] \in [Markets -> Nat]
        BY <4>1
      <4>3. QED BY <4>2
    <3>2. \A n \in Nat : n >= n
      OBVIOUS
    <3>3. QED BY <3>1, <3>2, Zenon
  <2>4. QED BY <2>2, <2>3, Zenon
<1>2. QED BY <1>1, Invariants, PTL
-----------------------------------------------------------------------------
(* Money.  What every bet has moved adds up to the wallet (WalletInv), and  *)
(* a transaction that overwrites a wallet knows it as it is (Knows).        *)

Stakes == [b \in Bets |-> b.stake]

\* What a bet of status s has done to the balance of its client,
PaidAs(b, s) ==
  CASE s = "WON" -> IF KindOf[b.market] = "bookmaker" THEN b.percent - b.stake ELSE b.win
    [] s \in {"PENDING", "LOST"} -> -b.stake
    [] OTHER -> 0

\* what it locks,
HeldAs(b, s) ==
  IF s = "PENDING" \/ (s = "CANCELLED" /\ KindOf[b.market] = "tied") THEN b.stake ELSE 0

\* and its result.
EarnedAs(b, s) ==
  CASE s = "WON" -> IF KindOf[b.market] = "bookmaker" THEN b.percent ELSE b.win
    [] s = "LOST" -> -b.stake
    [] OTHER -> 0

Paid(s) == [b \in Bets |-> PaidAs(b, s[b])]
Held(s) == [b \in Bets |-> HeldAs(b, s[b])]

BetInv(b) ==
  /\ status[b] # "none" => b \in offer
  /\ pnl[b] = EarnedAs(b, status[b])
  /\ pairedWith[b] = {}

BalanceInv(u) == balance[u] = Funds[u] + Sum(Paid(status), Of(Bets, u))
LockedInv(u) == liability[u] = Sum(Held(status), Of(Bets, u))

\* What a request knows of its bets and of the wallets it has read.
Knows(t) ==
  /\ t.pairs = {}
  /\ t.pc # "idle" =>
       \/ t.kind = "settle" /\ t.outcome # Void
       \/ t.kind = "cancel" /\ t.outcome = Void
       \/ t.kind = "rollback" /\ t.market \in Reopenable
  /\ t.kind # "rollback" /\ t.pc \notin {"idle", "checked"} =>
       \A b \in t.bets : status[b] = "PENDING"
  /\ t.kind = "rollback" /\ t.pc # "idle" =>
       /\ \A b \in t.bets : status[b] \in Settled
       /\ \A u \in Users : t.taken[u] = Sum([b \in Bets |-> TakenBack(b)], Of(t.bets, u))
  /\ t.pc = "open" =>
       /\ Overwrites(t)
       /\ \A b \in t.bets : t.balance[b.user] = balance[b.user] /\ t.liability[b.user] = liability[b.user]

\* A request that will overwrite wallets is the only one.
OverwritesAlone ==
  \A a, c \in Admins : a # c /\ Active(a) /\ Active(c) => ~Overwrites(task[a])

MoneyInv ==
  /\ PlainOffer(offer)
  /\ \A b \in Bets : BetInv(b)
  /\ \A u \in Users : BalanceInv(u) /\ LockedInv(u)
  /\ \A a \in Admins : Knows(task[a])
  /\ OverwritesAlone

LEMMA Amounts ==
  ASSUME NEW b \in Bets, NEW s
  PROVE  PaidAs(b, s) \in Int /\ HeldAs(b, s) \in Nat /\ EarnedAs(b, s) \in Int
BY BetFields DEF PaidAs, HeldAs, EarnedAs

LEMMA SumsOverBets ==
  ASSUME NEW S \in SUBSET Bets, NEW s
  PROVE  /\ IsFiniteSet(S)
         /\ \A b \in S : Paid(s)[b] = PaidAs(b, s[b]) /\ Paid(s)[b] \in Int
         /\ \A b \in S : Held(s)[b] = HeldAs(b, s[b]) /\ Held(s)[b] \in Nat
         /\ \A b \in S : Stakes[b] = b.stake /\ Stakes[b] \in Nat
         /\ Sum(Paid(s), S) \in Int /\ Sum(Held(s), S) \in Nat /\ Sum(Stakes, S) \in Nat
<1>1. IsFiniteSet(S)
  BY BetsFinite
<1>2. \A b \in S : Paid(s)[b] = PaidAs(b, s[b]) /\ Paid(s)[b] \in Int
  BY Amounts DEF Paid
<1>3. \A b \in S : Held(s)[b] = HeldAs(b, s[b]) /\ Held(s)[b] \in Nat
  BY Amounts DEF Held
<1>4. \A b \in S : Stakes[b] = b.stake /\ Stakes[b] \in Nat
  BY BetFields DEF Stakes
<1>5. Sum(Paid(s), S) \in Int
  BY <1>1, <1>2, SumType
<1>6. Sum(Held(s), S) \in Nat
  BY <1>1, <1>3, SumNatural
<1>7. Sum(Stakes, S) \in Nat
  BY <1>1, <1>4, SumNatural
<1>8. QED BY <1>1, <1>2, <1>3, <1>4, <1>5, <1>6, <1>7

LEMMA PlainBet ==
  ASSUME NEW b \in Bets, NEW S, PlainOffer(S), b \in S
  PROVE  /\ KindOf[b.market] \in {"bookmaker", "tied", "fancy"}
         /\ KindOf[b.market] = "bookmaker" => b.side = "BACK" /\ b.market \notin Reopenable
         /\ KindOf[b.market] = "tied" => b.side = "BACK" /\ b.loss = b.stake
         /\ KindOf[b.market] = "fancy" =>
              /\ b.loss = b.stake /\ b.win > 0
              /\ b.side = "BACK" => b.line > 0
              /\ b.side = "LAY" => b.line <= 2 * MaxOutcome
BY BetFields, Kinds DEF PlainOffer

\* What a client's plain bets on one market lock is what they stake.
LEMMA PlainBook ==
  ASSUME NEW S, PlainOffer(S), NEW m \in Markets, NEW T \in SUBSET Bets, T \subseteq S,
         \A b \in T : b.market = m, \A b, c \in T : b.user = c.user
  PROVE  BookExposure(T, m) = Sum(Stakes, T)
<1>1. IsFiniteSet(T) /\ Sum(Stakes, T) \in Nat /\ \A b \in T : Stakes[b] = b.stake /\ b.stake \in Nat
  BY SumsOverBets
<1>2. CASE KindOf[m] = "fancy"
  <2> DEFINE R == {FancyPnl(T, runs) : runs \in 0 .. MaxOutcome}
             owed == [b \in T |-> -b.stake]
  <2>1. LineBook(T)
    BY <1>1, BetFields DEF LineBook
  <2>2. IsFiniteSet(R) /\ \A r \in R : r \in Int
    BY <2>1, FancyResults
  <2>3. Sum(owed, T) = -Sum(Stakes, T)
    <3>1. \A b \in T : Stakes[b] \in Int /\ owed[b] = -Stakes[b]
      BY <1>1
    <3> HIDE DEF owed
    <3>2. QED BY <1>1, <3>1, SumOpposite
  <2>4. \E o \in 0 .. MaxOutcome : \A b \in T : FancyBetPnl(b, o) = -b.stake
    <3>1. 0 \in 0 .. MaxOutcome /\ MaxOutcome \in 0 .. MaxOutcome
      BY MaxOutcomeAssumption
    <3>2. \A b \in T : /\ b.side \in {"BACK", "LAY"} /\ b.line \in Nat /\ b.loss = b.stake
                       /\ b.side = "BACK" => b.line > 0
                       /\ b.side = "LAY" => b.line <= 2 * MaxOutcome
      BY <1>2, BetFields, PlainBet
    <3>3. CASE \A b \in T : b.side = "BACK"
      <4>1. \A b \in T : FancyBetPnl(b, 0) = -b.stake
        BY <3>2, <3>3 DEF FancyBetPnl
      <4>2. QED BY <3>1, <4>1
    <3>4. CASE \A b \in T : b.side = "LAY"
      <4>1. \A b \in T : FancyBetPnl(b, MaxOutcome) = -b.stake
        BY <3>2, <3>4, MaxOutcomeAssumption DEF FancyBetPnl
      <4>2. QED BY <3>1, <4>1
    <3>5. \A b, c \in T : b.side = c.side
      BY <1>2 DEF PlainOffer
    <3>6. QED BY <3>2, <3>3, <3>4, <3>5
  <2>5. ASSUME NEW runs \in 0 .. MaxOutcome
        PROVE  /\ -Sum(Stakes, T) <= FancyPnl(T, runs)
               /\ (\A b \in T : FancyBetPnl(b, runs) = -b.stake) => FancyPnl(T, runs) = -Sum(Stakes, T)
    <3> DEFINE f == [b \in T |-> FancyBetPnl(b, runs)]
    <3>1. \A b \in T : f[b] \in Int /\ owed[b] \in Int /\ owed[b] <= f[b]
      <4>1. \A b \in T : b.win \in Nat /\ b.loss \in Nat /\ b.loss = b.stake
        BY <1>2, BetFields, PlainBet
      <4>2. QED BY <4>1 DEF FancyBetPnl
    <3>2. FancyPnl(T, runs) = Sum(f, T)
      BY DEF FancyPnl
    <3>3. (\A b \in T : FancyBetPnl(b, runs) = -b.stake) => \A b \in T : owed[b] = f[b]
      OBVIOUS
    <3> HIDE DEF f, owed
    <3>4. Sum(owed, T) <= Sum(f, T)
      BY <1>1, <3>1, SumAtMost
    <3>5. (\A b \in T : owed[b] = f[b]) => Sum(owed, T) = Sum(f, T)
      BY <1>1, <3>1, SumEqual
    <3>6. QED BY <2>3, <3>2, <3>3, <3>4, <3>5
  <2>6. -Sum(Stakes, T) \in R /\ \A r \in R : -Sum(Stakes, T) <= r
    BY <2>4, <2>5
  <2>7. FancyExposure(T) = WorstLoss(R)
    BY <2>1, FancyExposureIsWorstLoss
  <2> HIDE DEF R
  <2>8. WorstLoss(R) \in Nat /\ (\A r \in R : -r <= WorstLoss(R))
        /\ (WorstLoss(R) = 0 \/ \E r \in R : WorstLoss(R) = -r)
    BY <2>2, WorstLossOfResults
  <2>9. Sum(Stakes, T) <= WorstLoss(R)
    BY <1>1, <2>6, <2>8
  <2>10. WorstLoss(R) <= Sum(Stakes, T)
    BY <1>1, <2>2, <2>6, <2>8
  <2>11. QED BY <1>1, <1>2, <2>7, <2>8, <2>9, <2>10 DEF BookExposure
<1>3. CASE KindOf[m] # "fancy"
  <2> DEFINE backs == {b \in T : b.side = "BACK"}
             lays == {b \in T : b.side = "LAY"}
             staked == [b \in backs |-> b.stake]
             layed == [b \in lays |-> b.profit]
  <2>1. backs = T /\ lays = {}
    BY <1>3, PlainBet
  <2>2. \A b \in T : Stakes[b] \in Int /\ Stakes[b] = staked[b]
    BY <1>1, <2>1
  <2>3. BookmakerExposure(T) = Abs(Sum(staked, backs) - Sum(layed, lays))
    BY DEF BookmakerExposure
  <2> HIDE DEF staked, layed, backs, lays
  <2>4. Sum(staked, backs) = Sum(Stakes, T)
    BY <1>1, <2>1, <2>2, SumEqual
  <2>5. Sum(layed, lays) = 0
    BY <2>1, SumEmpty
  <2>6. QED BY <1>1, <1>3, <2>3, <2>4, <2>5 DEF BookExposure, Abs
<1>4. QED BY <1>2, <1>3

LEMMA PlainExposure ==
  ASSUME NEW S, PlainOffer(S), NEW T \in SUBSET Bets, T \subseteq S, \A b, c \in T : b.user = c.user
  PROVE  ExposureOf(T) = Sum(Stakes, T)
<1> DEFINE k == [b \in T |-> b.market]
           f == [m \in Markets |-> BookExposure(In(T, m), m)]
           g == [m \in Markets |-> Sum(Stakes, {b \in T : k[b] = m})]
<1>1. IsFiniteSet(T) /\ (\A b \in T : Stakes[b] \in Int) /\ IsFiniteSet(Markets)
  BY SumsOverBets, SideMarketAssumption
<1>2. \A b \in T : k[b] \in Markets
  BY BetFields
<1>3. \A m \in Markets : f[m] \in Int /\ f[m] = g[m]
  <2> SUFFICES ASSUME NEW m \in Markets PROVE f[m] \in Int /\ f[m] = g[m]
    OBVIOUS
  <2>1. In(T, m) = {b \in T : k[b] = m} /\ In(T, m) \in SUBSET Bets /\ In(T, m) \subseteq S
    BY DEF In
  <2>2. \A b \in In(T, m) : b.market = m
    BY DEF In
  <2>3. \A b, c \in In(T, m) : b.user = c.user
    BY DEF In
  <2>4. BookExposure(In(T, m), m) = Sum(Stakes, In(T, m))
    BY <2>1, <2>2, <2>3, PlainBook
  <2>5. Sum(Stakes, In(T, m)) \in Nat
    BY <2>1, SumsOverBets
  <2>6. f[m] = BookExposure(In(T, m), m) /\ g[m] = Sum(Stakes, {b \in T : k[b] = m})
    OBVIOUS
  <2>7. g[m] = Sum(Stakes, In(T, m))
    BY <2>1, <2>6
  <2> HIDE DEF f, g, k
  <2>8. QED BY <2>4, <2>5, <2>6, <2>7
<1>4. ExposureOf(T) = Sum(f, Markets)
  BY DEF ExposureOf
<1>5. Sum(g, Markets) = Sum(Stakes, T)
  <2> HIDE DEF k
  <2>1. QED BY <1>1, <1>2, SumPartition
<1> HIDE DEF f, g
<1>6. Sum(f, Markets) = Sum(g, Markets)
  BY <1>1, <1>3, SumEqual
<1>7. QED BY <1>4, <1>5, <1>6

\* A request goes on, and only that.
LEMMA StepMoney ==
  ASSUME TypeInv, MoneyInv, NEW a \in Admins, NEW t, Knows(t),
         task' = [task EXCEPT ![a] = t], UNCHANGED books,
         t.pc # "idle" => \A c \in Admins : c # a /\ Active(c) => ~Overwrites(t) /\ ~Overwrites(task[c])
  PROVE  MoneyInv'
<1>1. /\ offer' = offer /\ balance' = balance /\ liability' = liability /\ status' = status
      /\ pnl' = pnl /\ pairedWith' = pairedWith /\ task' = [task EXCEPT ![a] = t]
  BY DEF books
<1>2. task'[a] = t /\ \A c \in Admins : c # a => task'[c] = task[c]
  BY <1>1 DEF TypeInv
<1>3. PlainOffer(offer)' /\ (\A b \in Bets : BetInv(b)') /\ \A u \in Users : BalanceInv(u)' /\ LockedInv(u)'
  BY <1>1 DEF MoneyInv, BetInv, BalanceInv, LockedInv
<1>4. ASSUME NEW c \in Admins PROVE Knows(task[c])'
  <2>1. Knows(task'[c])
    BY <1>2 DEF MoneyInv
  <2>2. QED BY <1>1, <2>1 DEF Knows, TakenBack
<1>5. OverwritesAlone'
  BY <1>2 DEF MoneyInv, OverwritesAlone, Active
<1>6. QED BY <1>3, <1>4, <1>5 DEF MoneyInv

LEMMA IdleKnows == Knows(Idle) /\ Idle.pc = "idle"
BY DEF Idle, Task, FancyPairs, Knows

\* No bet was refunded by another.
LEMMA NoPairs ==
  ASSUME MoneyInv, NEW S \in SUBSET Bets
  PROVE  FancyPairs(S) = {}
BY DEF FancyPairs, MoneyInv, BetInv

\* Requests that may start meet none that overwrites wallets, and overwrite
\* none if they meet another.
LEMMA StartsAlone ==
  ASSUME MoneyInv, NEW m, NEW o, MayStart(m, o), NEW t, t.market = m, t.kind = Kind(o)
  PROVE  \A c \in Admins : Active(c) => ~Overwrites(t) /\ ~Overwrites(task[c])
<1> SUFFICES ASSUME NEW c \in Admins, Active(c) PROVE ~Overwrites(t) /\ ~Overwrites(task[c])
  OBVIOUS
<1>1. /\ KindOf[m] # "fancy" /\ KindOf[task[c].market] # "fancy"
      /\ o # Void /\ task[c].outcome # Void /\ task[c].kind # "rollback"
  BY DEF MayStart, Active, Incremental
<1>2. task[c].kind = "settle"
  BY <1>1 DEF MoneyInv, Knows, Active
<1>3. t.kind = "settle"
  BY <1>1 DEF Kind
<1>4. QED BY <1>1, <1>2, <1>3 DEF Overwrites

LEMMA ReadFancyMoney ==
  ASSUME TypeInv, MoneyInv, NEW a \in Admins, NEW m \in Markets, NEW o, NEW filter \in Filters,
         ReadFancy(a, m, o, filter)
  PROVE  MoneyInv'
<1>1. PICK t : t = Task("validated", Kind(o), m, o, FancyRead(m, filter))
  OBVIOUS
<1>2. /\ t.pc = "validated" /\ t.kind = Kind(o) /\ t.market = m /\ t.outcome = o
      /\ t.bets = FancyRead(m, filter) /\ t.pairs = FancyPairs(FancyRead(m, filter))
  BY <1>1 DEF Task
<1>3. Step(a, t)
  BY <1>1, BeginIsStep DEF ReadFancy
<1>4. Knows(t)
  <2>1. \A b \in FancyRead(m, filter) : status[b] = "PENDING"
    BY DEF FancyRead, Open
  <2>2. t.pairs = {}
    BY <1>2, FancyReadBets, NoPairs
  <2>3. QED BY <1>2, <2>1, <2>2 DEF Knows, Kind
<1>5. QED BY <1>2, <1>3, <1>4, StartsAlone, StepMoney DEF Step, ReadFancy

LEMMA ReadBookmakerMoney ==
  ASSUME TypeInv, MoneyInv, NEW a \in Admins, NEW m \in Markets, NEW o \in OutcomesOf[m],
         NEW filter \in Filters, ReadBookmaker(a, m, o, filter)
  PROVE  MoneyInv'
<1>1. PICK t : t = Task("read", "settle", m, o, Open(In(filter, m)))
  OBVIOUS
<1>2. /\ t.pc = "read" /\ t.kind = "settle" /\ t.market = m /\ t.outcome = o
      /\ t.bets = Open(In(filter, m)) /\ t.pairs = FancyPairs(Open(In(filter, m)))
  BY <1>1 DEF Task
<1>3. Step(a, t)
  BY <1>1, BeginIsStep DEF ReadBookmaker
<1>4. o # Void
  BY SideMarketAssumption DEF ReadBookmaker
<1>5. Knows(t)
  <2>1. Open(In(filter, m)) \in SUBSET Bets /\ \A b \in Open(In(filter, m)) : status[b] = "PENDING"
    BY SideMarketAssumption DEF Open, In, Bets
  <2>2. t.pairs = {}
    BY <1>2, <2>1, NoPairs
  <2>3. QED BY <1>2, <1>4, <2>1, <2>2 DEF Knows
<1>6. QED BY <1>2, <1>3, <1>4, <1>5, StartsAlone, StepMoney DEF Step, ReadBookmaker, Kind

LEMMA CheckTiedMoney ==
  ASSUME TypeInv, MoneyInv, NEW a \in Admins, NEW m \in Markets, NEW o, NEW filter \in Filters,
         CheckTied(a, m, o, filter)
  PROVE  MoneyInv'
<1>1. PICK t : t = Task("checked", Kind(o), m, o, In(filter, m))
  OBVIOUS
<1>2. /\ t.pc = "checked" /\ t.kind = Kind(o) /\ t.market = m /\ t.outcome = o
      /\ t.bets = In(filter, m) /\ t.pairs = FancyPairs(In(filter, m))
  BY <1>1 DEF Task
<1>3. Step(a, t)
  BY <1>1, BeginIsStep DEF CheckTied
<1>4. Knows(t)
  <2>1. In(filter, m) \in SUBSET Bets
    BY SideMarketAssumption DEF In, Bets
  <2>2. t.pairs = {}
    BY <1>2, <2>1, NoPairs
  <2>3. QED BY <1>2, <2>2 DEF Knows, Kind
<1>5. QED BY <1>2, <1>3, <1>4, StartsAlone, StepMoney DEF Step, CheckTied

LEMMA ReadToRollbackMoney ==
  ASSUME TypeInv, MoneyInv, NEW a \in Admins, NEW m \in Markets, ReadToRollback(a, m)
  PROVE  MoneyInv'
<1>1. PICK taken : taken = [u \in Users |-> Sum([b \in Bets |-> TakenBack(b)], Of(SettledIn(m), u))]
  OBVIOUS
<1>2. PICK t : t = [Task("recorded", "rollback", m, Unset, SettledIn(m)) EXCEPT !.taken = taken]
  OBVIOUS
<1>3. /\ t.pc = "recorded" /\ t.kind = "rollback" /\ t.market = m /\ t.bets = SettledIn(m)
      /\ t.pairs = FancyPairs(SettledIn(m)) /\ t.taken = taken
  BY <1>2 DEF Task
<1>4. Step(a, t) /\ m \in Reopenable /\ \A c \in Admins : ~Active(c)
  BY <1>1, <1>2, BeginIsStep DEF ReadToRollback, Active
<1>5. SettledIn(m) \in SUBSET Bets /\ \A b \in SettledIn(m) : status[b] \in Settled
  BY DEF SettledIn, In, TypeInv, TypeOK
<1>6. t.pairs = {}
  BY <1>3, <1>5, NoPairs
<1>7. \A u \in Users : t.taken[u] = Sum([b \in Bets |-> TakenBack(b)], Of(t.bets, u))
  BY <1>1, <1>3
<1>8. Knows(t)
  BY <1>3, <1>4, <1>5, <1>6, <1>7 DEF Knows
<1>9. QED BY <1>4, <1>8, StepMoney DEF Step

\* A request that stays what it is, at another place, overwrites what it would.
LEMMA StillAlone ==
  ASSUME MoneyInv, NEW a \in Admins, Active(a), NEW t, t.market = task[a].market, t.kind = task[a].kind
  PROVE  \A c \in Admins : c # a /\ Active(c) => ~Overwrites(t) /\ ~Overwrites(task[c])
BY DEF MoneyInv, OverwritesAlone, Overwrites


LEMMA MovesMoney ==
  ASSUME TypeInv, ControlInv, MoneyInv, NEW a \in Admins,
         ValidateBookmaker(a) \/ ReadTied(a) \/ TagBets(a) \/ Record(a) \/ ReadWallets(a) \/ Fail(a)
  PROVE  MoneyInv'
<1>1. PICK t : t = task[a]
  OBVIOUS
<1>2. t \in Requests /\ Knows(t)
  BY <1>1 DEF TypeInv, MoneyInv
<1>3. CASE Step(a, Idle)
  BY <1>3, IdleKnows, StepMoney DEF Step
<1>4. ASSUME NEW s, s.market = t.market, s.kind = t.kind, Knows(s), Active(a),
             task' = [task EXCEPT ![a] = s], UNCHANGED books
      PROVE  MoneyInv'
  BY <1>1, <1>4, StillAlone, StepMoney
<1>5. CASE ValidateBookmaker(a) /\ ~Step(a, Idle)
  <2>1. PICK s : s = [t EXCEPT !.pc = "validated"]
    OBVIOUS
  <2>2. Step(a, s) /\ t.pc = "read"
    BY <1>1, <1>5, <2>1 DEF ValidateBookmaker
  <2>3. Knows(s)
    BY <1>2, <2>1, <2>2 DEF Knows, Requests
  <2>4. s.market = t.market /\ s.kind = t.kind /\ Active(a)
    BY <1>1, <1>2, <2>1, <2>2 DEF Requests, Active
  <2>5. QED BY <1>4, <2>2, <2>3, <2>4 DEF Step
<1>6. CASE ReadTied(a) /\ ~Step(a, Idle)
  <2>1. PICK s : s = [t EXCEPT !.pc = "validated", !.bets = Open(t.bets)]
    OBVIOUS
  <2>2. Step(a, s) /\ t.pc = "checked"
    BY <1>1, <1>6, <2>1 DEF ReadTied
  <2>3. \A b \in Open(t.bets) : status[b] = "PENDING"
    BY DEF Open
  <2>4. /\ s.pc = "validated" /\ s.kind = t.kind /\ s.market = t.market /\ s.bets = Open(t.bets)
        /\ s.outcome = t.outcome /\ s.pairs = t.pairs /\ s.taken = t.taken
    BY <1>2, <2>1 DEF Requests
  <2>5. Knows(s)
    <3>1. t.kind # "rollback"
      BY <1>1, <2>2 DEF ControlInv, Sound
    <3>2. QED BY <1>2, <2>2, <2>3, <2>4, <3>1 DEF Knows
  <2>6. QED BY <1>1, <1>4, <2>2, <2>4, <2>5 DEF Step, Active
<1>7. CASE TagBets(a) \/ Record(a)
  <2>1. PICK pc \in {"tagged", "recorded"} : task' = [task EXCEPT ![a].pc = pc]
    BY <1>7 DEF TagBets, Record
  <2>2. PICK s : s = [t EXCEPT !.pc = pc]
    OBVIOUS
  <2>3. task' = [task EXCEPT ![a] = s] /\ UNCHANGED books /\ t.pc \in {"validated", "tagged"}
    BY <1>1, <1>7, <2>1, <2>2 DEF TagBets, Record
  <2>4. /\ s.pc = pc /\ s.kind = t.kind /\ s.market = t.market /\ s.bets = t.bets
        /\ s.outcome = t.outcome /\ s.pairs = t.pairs /\ s.taken = t.taken
    BY <1>2, <2>2 DEF Requests
  <2>5. Knows(s)
    BY <1>2, <2>1, <2>3, <2>4 DEF Knows
  <2>6. QED BY <1>1, <1>4, <2>3, <2>4, <2>5 DEF Active
<1>8. CASE ReadWallets(a)
  <2>1. PICK s : s = [t EXCEPT !.pc = "open", !.balance = balance, !.liability = liability]
    OBVIOUS
  <2>2. Step(a, s) /\ t.pc = "recorded" /\ Overwrites(t)
    BY <1>1, <1>8, <2>1 DEF ReadWallets
  <2>3. /\ s.pc = "open" /\ s.kind = t.kind /\ s.market = t.market /\ s.bets = t.bets
        /\ s.outcome = t.outcome /\ s.pairs = t.pairs /\ s.taken = t.taken
        /\ s.balance = balance /\ s.liability = liability
    BY <1>2, <2>1 DEF Requests
  <2>4. Knows(s)
    BY <1>2, <2>2, <2>3 DEF Knows, Overwrites
  <2>5. QED BY <1>1, <1>4, <2>2, <2>3, <2>4 DEF Step, Active
<1>9. CASE Fail(a)
  BY <1>3, <1>9 DEF Fail
<1>10. QED BY <1>3, <1>5, <1>6, <1>7, <1>8, <1>9

\* Placement: the bet locks its stake, and marks no other.
LEMMA PlaceMoney ==
  ASSUME TypeInv, TypeInv', MoneyInv, NEW b \in Bets, Place(b)
  PROVE  MoneyInv'
<1> DEFINE u == b.user
           peers == In(Of(Open(Bets), b.user), b.market)
<1>1. PICK before, after : before = BookExposure(peers, b.market)
                           /\ after = BookExposure(peers \union {b}, b.market)
  OBVIOUS
<1>2. /\ b \in offer /\ status[b] = "none" /\ ~Overwriting(u)
      /\ status' = [status EXCEPT ![b] = "PENDING"]
      /\ balance' = [balance EXCEPT ![u] = @ - (after - before)]
      /\ liability' = [liability EXCEPT ![u] = @ + (after - before)]
      /\ pairedWith' = [c \in Bets |-> IF after < before /\ c \in peers /\ c.selection = b.selection
                                       THEN {b} ELSE pairedWith[c]]
      /\ offer' = offer /\ pnl' = pnl /\ task' = task
  BY <1>1 DEF Place
<1>3. peers \in SUBSET Bets /\ peers \union {b} \in SUBSET Bets /\ b \notin peers
      /\ (\A c \in peers \union {b} : c.market = b.market /\ c.user = b.user /\ c \in offer)
  BY <1>2 DEF In, Of, Open, MoneyInv, BetInv
<1>4. b.stake \in Nat /\ u \in Users /\ b.market \in Markets
  BY BetFields
<1>5. after - before = b.stake /\ ~(after < before)
  <2> HIDE DEF peers
  <2>1. before = Sum(Stakes, peers)
    <3>1. (\A c \in peers : c.market = b.market) /\ (\A c, d \in peers : c.user = d.user) /\ peers \subseteq offer
      BY <1>3
    <3>2. QED BY <1>1, <1>3, <1>4, <3>1, PlainBook DEF MoneyInv
  <2>2. PICK P : P = peers \union {b}
    OBVIOUS
  <2>3. after = Sum(Stakes, P)
    <3>1. (\A c \in P : c.market = b.market) /\ (\A c, d \in P : c.user = d.user) /\ P \subseteq offer
      BY <1>3, <2>2
    <3>2. QED BY <1>1, <1>3, <1>4, <2>2, <3>1, PlainBook DEF MoneyInv
  <2>4. IsFiniteSet(peers) /\ Sum(Stakes, peers) \in Nat /\ \A c \in peers : Stakes[c] \in Int
    BY <1>3, SumsOverBets
  <2>5. Stakes[b] = b.stake
    BY DEF Stakes
  <2>6. Sum(Stakes, P) = Stakes[b] + Sum(Stakes, peers)
    BY <1>3, <1>4, <2>2, <2>4, <2>5, SumAdd
  <2>7. QED BY <1>4, <2>1, <2>3, <2>4, <2>5, <2>6
<1>6. /\ \A c \in Bets : c # b => status'[c] = status[c]
      /\ status'[b] = "PENDING"
      /\ balance'[u] = balance[u] - b.stake /\ liability'[u] = liability[u] + b.stake
      /\ \A v \in Users : v # u => balance'[v] = balance[v] /\ liability'[v] = liability[v]
      /\ \A c \in Bets : pairedWith'[c] = pairedWith[c]
  BY <1>2, <1>4, <1>5 DEF TypeInv, TypeOK
<1>7. ASSUME NEW c \in Bets PROVE BetInv(c)'
  <2>1. BetInv(c) /\ BetInv(b)
    BY DEF MoneyInv
  <2>2. QED BY <1>2, <1>6, <2>1 DEF BetInv, EarnedAs
<1>8. ASSUME NEW v \in Users PROVE BalanceInv(v)' /\ LockedInv(v)'
  <2> DEFINE mine == Of(Bets, v)
  <2>0. PICK old, new : old = status /\ new = status'
    OBVIOUS
  <2>1. /\ balance[v] = Funds[v] + Sum(Paid(old), mine) /\ liability[v] = Sum(Held(old), mine)
        /\ mine \in SUBSET Bets
    BY <2>0 DEF MoneyInv, BalanceInv, LockedInv, Of
  <2>2. /\ \A c \in mine : Paid(old)[c] \in Int /\ Paid(new)[c] \in Int
        /\ \A c \in mine : Held(old)[c] \in Int /\ Held(new)[c] \in Int
        /\ IsFiniteSet(mine)
    BY <2>1, SumsOverBets
  <2>3. \A c \in mine : c # b => Paid(old)[c] = Paid(new)[c] /\ Held(old)[c] = Held(new)[c]
    BY <1>6, <2>0, <2>1 DEF Paid, Held
  <2>4. CASE v = u
    <3>1. b \in mine
      BY <2>4 DEF Of
    <3>2. /\ Paid(old)[b] = 0 /\ Paid(new)[b] = -b.stake
          /\ Held(old)[b] = 0 /\ Held(new)[b] = b.stake
      BY <1>2, <1>6, <2>0 DEF Paid, Held, PaidAs, HeldAs
    <3> HIDE DEF mine
    <3>3. Sum(Paid(new), mine) = Sum(Paid(old), mine) - Paid(old)[b] + Paid(new)[b]
      BY <2>2, <2>3, <3>1, SumChanged
    <3>4. Sum(Held(new), mine) = Sum(Held(old), mine) - Held(old)[b] + Held(new)[b]
      BY <2>2, <2>3, <3>1, SumChanged
    <3>5. Sum(Paid(old), mine) \in Int /\ Sum(Held(old), mine) \in Int /\ Funds[v] \in Int
      <4>1. Sum(Paid(old), mine) \in Int /\ Sum(Held(old), mine) \in Nat
        BY <2>1, SumsOverBets
      <4>2. Funds[v] \in Int
        BY SideMarketAssumption
      <4>3. QED BY <4>1, <4>2
    <3>6. balance'[v] = Funds[v] + Sum(Paid(new), mine)
      BY <1>4, <1>6, <2>1, <2>4, <3>2, <3>3, <3>5
    <3>7. liability'[v] = Sum(Held(new), mine)
      BY <1>4, <1>6, <2>1, <2>4, <3>2, <3>4, <3>5
    <3>8. QED BY <2>0, <3>6, <3>7 DEF BalanceInv, LockedInv, mine
  <2>5. CASE v # u
    <3>1. b \notin mine
      BY <2>5 DEF Of
    <3>2. \A c \in mine : Paid(old)[c] = Paid(new)[c] /\ Held(old)[c] = Held(new)[c]
      BY <2>3, <3>1
    <3> HIDE DEF mine
    <3>3. Sum(Paid(old), mine) = Sum(Paid(new), mine)
      BY <2>2, <3>2, SumEqual
    <3>4. Sum(Held(old), mine) = Sum(Held(new), mine)
      BY <2>2, <3>2, SumEqual
    <3>5. QED BY <1>6, <2>0, <2>1, <2>5, <3>3, <3>4 DEF BalanceInv, LockedInv, mine
  <2>6. QED BY <2>4, <2>5
<1>9. ASSUME NEW a \in Admins PROVE Knows(task[a])'
  <2>1. PICK t : t = task[a]
    OBVIOUS
  <2>2. Knows(t) /\ t \in Requests
    BY <2>1 DEF MoneyInv, TypeInv
  <2>3. t.kind # "rollback" /\ t.pc \notin {"idle", "checked"} => \A c \in t.bets : status'[c] = "PENDING"
    BY <1>6, <2>2 DEF Knows, Requests
  <2>4. t.kind = "rollback" /\ t.pc # "idle" =>
          /\ \A c \in t.bets : status'[c] \in Settled
          /\ \A v \in Users : t.taken[v] = Sum([c \in Bets |-> TakenBack(c)'], Of(t.bets, v))
    <3> SUFFICES ASSUME t.kind = "rollback", t.pc # "idle"
                 PROVE  /\ \A c \in t.bets : status'[c] \in Settled
                        /\ \A v \in Users : t.taken[v] = Sum([c \in Bets |-> TakenBack(c)'], Of(t.bets, v))
      OBVIOUS
    <3>1. \A c \in t.bets : c # b /\ c \in Bets /\ status'[c] = status[c] /\ status'[c] \in Settled
      BY <1>2, <1>6, <2>2 DEF Knows, Requests, Settled
    <3>2. ASSUME NEW v \in Users PROVE t.taken[v] = Sum([c \in Bets |-> TakenBack(c)'], Of(t.bets, v))
      <4> DEFINE f == [c \in Bets |-> TakenBack(c)]
                 g == [c \in Bets |-> TakenBack(c)']
      <4>1. Of(t.bets, v) \in SUBSET Bets /\ Of(t.bets, v) \subseteq t.bets
        BY <2>2 DEF Of, Requests
      <4>2. \A c \in Of(t.bets, v) : f[c] \in Int /\ f[c] = g[c]
        BY <3>1, <4>1, BetFields DEF TakenBack, LockOf
      <4>3. t.taken[v] = Sum(f, Of(t.bets, v))
        BY <2>2 DEF Knows
      <4> HIDE DEF f, g
      <4>4. Sum(f, Of(t.bets, v)) = Sum(g, Of(t.bets, v))
        BY <4>1, <4>2, BetsFinite, SumEqual
      <4>5. QED BY <4>3, <4>4 DEF g
    <3>3. QED BY <3>1, <3>2
  <2>5. t.pc = "open" => \A c \in t.bets : balance'[c.user] = balance[c.user]
                                          /\ liability'[c.user] = liability[c.user]
    <3> SUFFICES ASSUME t.pc = "open", NEW c \in t.bets
                 PROVE  balance'[c.user] = balance[c.user] /\ liability'[c.user] = liability[c.user]
      OBVIOUS
    <3>1. c.user # u
      BY <1>2, <2>1 DEF Overwriting, Concerned
    <3>2. c.user \in Users
      BY <2>2, BetFields DEF Requests
    <3>3. QED BY <1>6, <3>1, <3>2
  <2>6. task'[a] = t
    BY <1>2, <2>1
  <2>7. QED BY <2>2, <2>3, <2>4, <2>5, <2>6 DEF Knows, Overwrites
<1>10. OverwritesAlone'
  BY <1>2 DEF MoneyInv, OverwritesAlone, Active, Overwrites
<1>11. PlainOffer(offer)'
  BY <1>2 DEF MoneyInv
<1>12. QED BY <1>7, <1>8, <1>9, <1>10, <1>11 DEF MoneyInv

\* A transaction ends; the bets of other requests are on other markets.
LEMMA EndMoney ==
  ASSUME TypeInv, ControlInv, MoneyInv, NEW a \in Admins, Active(a),
         task' = [task EXCEPT ![a] = Idle], offer' = offer,
         \A b \in Bets : b \notin task[a].bets => status'[b] = status[b],
         \A b \in Bets : BetInv(b)',
         \A u \in Users : BalanceInv(u)' /\ LockedInv(u)'
  PROVE  MoneyInv'
<1>1. task'[a] = Idle /\ \A c \in Admins : c # a => task'[c] = task[c]
  BY DEF TypeInv
<1>2. ASSUME NEW c \in Admins PROVE Knows(task[c])'
  <2>1. CASE c = a
    BY <1>1, <2>1, IdleKnows DEF Knows
  <2>2. CASE c # a
    <3>1. PICK t : t = task[c]
      OBVIOUS
    <3>2. Knows(t) /\ t \in Requests /\ task'[c] = t
      BY <1>1, <2>2, <3>1 DEF MoneyInv, TypeInv
    <3>3. CASE t.pc = "idle"
      BY <3>2, <3>3 DEF Knows
    <3>4. CASE t.pc # "idle"
      <4>1. ~Overwrites(t)
        BY <2>2, <3>1, <3>4 DEF MoneyInv, OverwritesAlone, Active
      <4>2. t.kind # "rollback" /\ t.pc # "open"
        BY <3>2, <4>1 DEF Knows, Overwrites
      <4>3. \A b \in t.bets : b \in Bets /\ b \notin task[a].bets
        <5>1. \A b \in t.bets : b \in Bets /\ b.market = t.market
          BY <3>1, <3>2, <3>4 DEF ControlInv, Sound, Requests
        <5>2. \A b \in task[a].bets : b.market = task[a].market
          BY DEF ControlInv, Sound, Active
        <5>3. t.market # task[a].market
          BY <2>2, <3>1, <3>4 DEF ControlInv, Alone, Active
        <5>4. QED BY <5>1, <5>2, <5>3
      <4>4. \A b \in t.bets : status'[b] = status[b]
        BY <4>3
      <4>5. QED BY <3>2, <4>2, <4>4 DEF Knows
    <3>5. QED BY <3>3, <3>4
  <2>3. QED BY <2>1, <2>2
<1>3. OverwritesAlone'
  BY <1>1, IdleKnows DEF MoneyInv, OverwritesAlone, Active, Overwrites
<1>4. PlainOffer(offer)'
  BY DEF MoneyInv
<1>5. QED BY <1>2, <1>3, <1>4 DEF MoneyInv

\* A wallet moves by what the bets that change move.
LEMMA BalanceShifts ==
  ASSUME NEW u \in Users, NEW old, NEW new, NEW T \in SUBSET Of(Bets, u), NEW h,
         \A b \in T : h[b] \in Int /\ PaidAs(b, new[b]) = PaidAs(b, old[b]) + h[b],
         \A b \in Of(Bets, u) \ T : PaidAs(b, new[b]) = PaidAs(b, old[b])
  PROVE  Sum(Paid(new), Of(Bets, u)) = Sum(Paid(old), Of(Bets, u)) + Sum(h, T)
<1>1. PICK S : S = Of(Bets, u)
  OBVIOUS
<1>2. S \in SUBSET Bets /\ IsFiniteSet(S) /\ T \in SUBSET S
  BY <1>1, BetsFinite DEF Of
<1>3. PICK f, g : f = Paid(old) /\ g = Paid(new)
  OBVIOUS
<1>4. \A b \in S : f[b] = PaidAs(b, old[b]) /\ g[b] = PaidAs(b, new[b]) /\ f[b] \in Int /\ g[b] \in Int
  BY <1>2, <1>3, Amounts DEF Paid
<1>5. \A b \in T : h[b] \in Int /\ g[b] = f[b] + h[b]
  BY <1>2, <1>4
<1>6. \A b \in S \ T : g[b] = f[b]
  BY <1>1, <1>4
<1>7. Sum(g, S) = Sum(f, S) + Sum(h, T)
  BY <1>2, <1>4, <1>5, <1>6, SumShift
<1>8. QED BY <1>1, <1>3, <1>7

LEMMA LiabilityShifts ==
  ASSUME NEW u \in Users, NEW old, NEW new, NEW T \in SUBSET Of(Bets, u), NEW h,
         \A b \in T : h[b] \in Int /\ HeldAs(b, new[b]) = HeldAs(b, old[b]) + h[b],
         \A b \in Of(Bets, u) \ T : HeldAs(b, new[b]) = HeldAs(b, old[b])
  PROVE  Sum(Held(new), Of(Bets, u)) = Sum(Held(old), Of(Bets, u)) + Sum(h, T)
<1>1. PICK S : S = Of(Bets, u)
  OBVIOUS
<1>2. S \in SUBSET Bets /\ IsFiniteSet(S) /\ T \in SUBSET S
  BY <1>1, BetsFinite DEF Of
<1>3. PICK f, g : f = Held(old) /\ g = Held(new)
  OBVIOUS
<1>4. \A b \in S : f[b] = HeldAs(b, old[b]) /\ g[b] = HeldAs(b, new[b]) /\ f[b] \in Int /\ g[b] \in Int
  BY <1>2, <1>3, Amounts DEF Held
<1>5. \A b \in T : h[b] \in Int /\ g[b] = f[b] + h[b]
  BY <1>2, <1>4
<1>6. \A b \in S \ T : g[b] = f[b]
  BY <1>1, <1>4
<1>7. Sum(g, S) = Sum(f, S) + Sum(h, T)
  BY <1>2, <1>4, <1>5, <1>6, SumShift
<1>8. QED BY <1>1, <1>3, <1>7

LEMMA Balanced ==
  ASSUME MoneyInv, NEW u \in Users, NEW T \in SUBSET Of(Bets, u), NEW h,
         \A b \in T : h[b] \in Int /\ PaidAs(b, status'[b]) = PaidAs(b, status[b]) + h[b],
         \A b \in Of(Bets, u) \ T : PaidAs(b, status'[b]) = PaidAs(b, status[b]),
         balance'[u] = balance[u] + Sum(h, T)
  PROVE  BalanceInv(u)'
<1>1. PICK old, new : old = status /\ new = status'
  OBVIOUS
<1>2. PICK S : S = Of(Bets, u)
  OBVIOUS
<1>3. balance[u] = Funds[u] + Sum(Paid(old), S)
  BY <1>1, <1>2 DEF MoneyInv, BalanceInv
<1>4. Sum(Paid(new), S) = Sum(Paid(old), S) + Sum(h, T)
  BY <1>1, <1>2, BalanceShifts
<1>5. Sum(Paid(old), S) \in Int
  BY <1>2, SumsOverBets DEF Of
<1>6. Funds[u] \in Int
  BY SideMarketAssumption
<1>7. Sum(h, T) \in Int
  <2>1. T \in SUBSET Bets
    BY DEF Of
  <2>2. QED BY <2>1, BetSum
<1>8. balance'[u] = Funds[u] + Sum(Paid(new), S)
  BY <1>3, <1>4, <1>5, <1>6, <1>7
<1>9. QED BY <1>1, <1>2, <1>8 DEF BalanceInv

LEMMA StillLocked ==
  ASSUME MoneyInv, NEW u \in Users, NEW T \in SUBSET Of(Bets, u), NEW h,
         \A b \in T : h[b] \in Int /\ HeldAs(b, status'[b]) = HeldAs(b, status[b]) + h[b],
         \A b \in Of(Bets, u) \ T : HeldAs(b, status'[b]) = HeldAs(b, status[b])
  PROVE  /\ liability[u] + Sum(h, T) \in Nat
         /\ liability'[u] = liability[u] + Sum(h, T) => LockedInv(u)'
<1>1. PICK old, new : old = status /\ new = status'
  OBVIOUS
<1>2. PICK S : S = Of(Bets, u)
  OBVIOUS
<1>3. liability[u] = Sum(Held(old), S)
  BY <1>1, <1>2 DEF MoneyInv, LockedInv
<1>4. Sum(Held(new), S) = Sum(Held(old), S) + Sum(h, T)
  BY <1>1, <1>2, LiabilityShifts
<1>5. Sum(Held(new), S) \in Nat
  BY <1>2, SumsOverBets DEF Of
<1>6. liability[u] + Sum(h, T) = Sum(Held(new), S)
  BY <1>3, <1>4
<1>7. QED BY <1>1, <1>2, <1>5, <1>6 DEF LockedInv

\* What becomes of a bet whose market ends with outcome o.
Verdict(b, o) == IF o = Void THEN "CANCELLED" ELSE IF Wins(b, o) THEN "WON" ELSE "LOST"

\* Every kind of settlement pays and releases a plain bet according to what it
\* has locked.
LEMMA VerdictPays ==
  ASSUME NEW b \in Bets, NEW S, PlainOffer(S), b \in S, NEW o \in Int
  PROVE  /\ BetPnl(b, o) = EarnedAs(b, Verdict(b, o))
         /\ HeldAs(b, Verdict(b, o)) = IF o = Void /\ KindOf[b.market] = "tied" THEN b.stake ELSE 0
         /\ KindOf[b.market] = "fancy" =>
              /\ LockOf(b) = b.stake
              /\ PaidAs(b, Verdict(b, o)) =
                   -b.stake + (IF o = Void THEN b.stake
                               ELSE IF FancyWins(b, o) THEN b.stake + b.win ELSE 0)
         /\ KindOf[b.market] = "bookmaker" /\ o # Void =>
              /\ BookmakerRelease(b) = b.stake
              /\ PaidAs(b, Verdict(b, o)) = -b.stake + BookmakerCredit(b, o)
         /\ KindOf[b.market] = "tied" =>
              /\ TiedRelease(b) = b.stake
              /\ PaidAs(b, Verdict(b, o)) =
                   -b.stake + (IF o = Void THEN TiedRefund(b) ELSE TiedCredit(b, o))
<1>1. /\ b.stake \in Nat /\ b.percent \in Nat /\ b.win \in Nat /\ b.loss \in Nat /\ b.line \in Nat
      /\ b.side \in {"BACK", "LAY"}
  BY BetFields
<1>2. CASE KindOf[b.market] = "fancy"
  <2>1. b.loss = b.stake /\ b.win > 0
    BY <1>2, PlainBet
  <2>2. FancyBetPnl(b, o) \in {b.win, -b.stake}
    BY <2>1 DEF FancyBetPnl
  <2>3. (Wins(b, o) <=> FancyBetPnl(b, o) > 0) /\ (FancyWins(b, o) <=> FancyBetPnl(b, o) > 0)
    BY <1>2 DEF Wins, FancyWins
  <2>4. LockOf(b) = b.stake
    BY <2>1 DEF LockOf
  <2>5. CASE o = Void
    BY <1>1, <1>2, <2>4, <2>5 DEF Verdict, BetPnl, EarnedAs, HeldAs, PaidAs
  <2>6. CASE o # Void /\ FancyBetPnl(b, o) > 0
    <3>1. FancyBetPnl(b, o) = b.win /\ Verdict(b, o) = "WON" /\ FancyWins(b, o)
      BY <1>1, <2>1, <2>2, <2>3, <2>6 DEF Verdict
    <3>2. BetPnl(b, o) = b.win /\ EarnedAs(b, "WON") = b.win /\ HeldAs(b, "WON") = 0 /\ PaidAs(b, "WON") = b.win
      BY <1>2, <2>6, <3>1 DEF BetPnl, EarnedAs, HeldAs, PaidAs
    <3>3. b.win = -b.stake + (b.stake + b.win)
      BY <1>1
    <3>4. QED BY <1>2, <2>4, <2>6, <3>1, <3>2, <3>3
  <2>7. CASE o # Void /\ ~(FancyBetPnl(b, o) > 0)
    <3>1. FancyBetPnl(b, o) = -b.stake /\ Verdict(b, o) = "LOST" /\ ~FancyWins(b, o)
      BY <1>1, <2>1, <2>2, <2>3, <2>7 DEF Verdict
    <3>2. QED BY <1>1, <1>2, <2>4, <2>7, <3>1 DEF BetPnl, EarnedAs, HeldAs, PaidAs
  <2>8. QED BY <2>5, <2>6, <2>7
<1>3. CASE KindOf[b.market] = "bookmaker"
  <2>1. b.side = "BACK"
    BY <1>3, PlainBet
  <2>2. QED BY <1>1, <1>3, <2>1
        DEF Verdict, Wins, BetPnl, EarnedAs, HeldAs, PaidAs, BookmakerRelease, BookmakerCredit
<1>4. CASE KindOf[b.market] = "tied"
  <2>1. b.side = "BACK" /\ b.loss = b.stake
    BY <1>4, PlainBet
  <2>2. QED BY <1>1, <1>4, <2>1
        DEF Verdict, Wins, BetPnl, EarnedAs, HeldAs, PaidAs, TiedRelease, TiedCredit, TiedRefund
<1>5. KindOf[b.market] \in {"bookmaker", "tied", "fancy"}
  BY PlainBet
<1>6. QED BY <1>2, <1>3, <1>4, <1>5

\* What Decide does to the bets.
LEMMA DecideMoney ==
  ASSUME TypeInv, MoneyInv, NEW t \in Requests, Decide(t), \A b \in t.bets : status[b] = "PENDING",
         offer' = offer, pairedWith' = pairedWith
  PROVE  /\ \A b \in t.bets : b \in Bets /\ b \in offer /\ status'[b] = Verdict(b, t.outcome)
         /\ \A b \in Bets : b \notin t.bets => status'[b] = status[b]
         /\ \A b \in Bets : BetInv(b)'
<1>1. \A b \in t.bets : b \in Bets /\ b \in offer
  BY DEF MoneyInv, BetInv, Requests
<1>2. \A b \in Bets : /\ status'[b] = IF b \in t.bets THEN Verdict(b, t.outcome) ELSE status[b]
                      /\ pnl'[b] = IF b \in t.bets THEN BetPnl(b, t.outcome) ELSE pnl[b]
  BY DEF Decide, Verdict
<1>3. \A b \in t.bets : BetPnl(b, t.outcome) = EarnedAs(b, Verdict(b, t.outcome))
  BY <1>1, VerdictPays DEF MoneyInv, Requests
<1>4. ASSUME NEW b \in Bets PROVE BetInv(b)'
  <2>1. BetInv(b)
    BY DEF MoneyInv
  <2>2. QED BY <1>1, <1>2, <1>3, <2>1 DEF BetInv
<1>5. QED BY <1>1, <1>2, <1>4

\* settleFancyManual.
LEMMA CommitFancyMoney ==
  ASSUME TypeInv, ControlInv, MoneyInv, NEW a \in Admins, CommitFancy(a)
  PROVE  MoneyInv'
<1>1. PICK t : t = task[a]
  OBVIOUS
<1>2. PICK credit : credit = [u \in Users |-> IF t.kind = "cancel" THEN FancyRefund(Of(t.bets, u))
                     ELSE FancyCredit(Of(t.bets, u), t.pairs, t.outcome, row[u][t.market])]
  OBVIOUS
<1>3. /\ t.pc = "open" /\ KindOf[t.market] = "fancy" /\ t.kind # "rollback" /\ Decide(t)
      /\ balance' = [u \in Users |-> IF u \in Concerned(a) THEN t.balance[u] + credit[u] ELSE balance[u]]
      /\ liability' = [u \in Users |-> IF u \in Concerned(a)
                                       THEN Max({0, t.liability[u] - FancyRefund(Of(t.bets, u))})
                                       ELSE liability[u]]
      /\ task' = [task EXCEPT ![a] = Idle] /\ offer' = offer /\ pairedWith' = pairedWith
  BY <1>1, <1>2 DEF CommitFancy
<1>4. t \in Requests /\ Knows(t) /\ Sound(t) /\ Active(a)
  BY <1>1, <1>3 DEF TypeInv, MoneyInv, ControlInv, Active
<1>5. PICK o : o = t.outcome
  OBVIOUS
<1>6. /\ \A b \in t.bets : status[b] = "PENDING" /\ b \in Bets /\ KindOf[b.market] = "fancy"
      /\ \A b \in t.bets : t.balance[b.user] = balance[b.user] /\ t.liability[b.user] = liability[b.user]
      /\ t.pairs = {} /\ o \in Int /\ (t.kind = "cancel" <=> o = Void)
  BY <1>3, <1>4, <1>5 DEF Knows, Sound, Requests
<1>7. /\ \A b \in t.bets : b \in Bets /\ b \in offer /\ status'[b] = Verdict(b, o)
      /\ \A b \in Bets : b \notin t.bets => status'[b] = status[b]
      /\ \A b \in Bets : BetInv(b)'
  BY <1>3, <1>4, <1>5, <1>6, DecideMoney
<1>8. \A b \in t.bets :
        /\ b.stake \in Nat /\ b.win \in Nat /\ LockOf(b) = b.stake
        /\ PaidAs(b, status[b]) = -b.stake /\ HeldAs(b, status[b]) = b.stake /\ HeldAs(b, status'[b]) = 0
        /\ PaidAs(b, status'[b]) = -b.stake + (IF o = Void THEN b.stake
                                               ELSE IF FancyWins(b, o) THEN b.stake + b.win ELSE 0)
  <2> SUFFICES ASSUME NEW b \in t.bets
               PROVE  /\ b.stake \in Nat /\ b.win \in Nat /\ LockOf(b) = b.stake
                      /\ PaidAs(b, status[b]) = -b.stake /\ HeldAs(b, status[b]) = b.stake
                      /\ HeldAs(b, status'[b]) = 0
                      /\ PaidAs(b, status'[b]) = -b.stake + (IF o = Void THEN b.stake
                                               ELSE IF FancyWins(b, o) THEN b.stake + b.win ELSE 0)
    OBVIOUS
  <2>1. PaidAs(b, status[b]) = -b.stake /\ HeldAs(b, status[b]) = b.stake
    BY <1>6 DEF PaidAs, HeldAs
  <2>2. /\ HeldAs(b, Verdict(b, o)) = 0 /\ LockOf(b) = b.stake
        /\ PaidAs(b, Verdict(b, o)) = -b.stake + (IF o = Void THEN b.stake
                                               ELSE IF FancyWins(b, o) THEN b.stake + b.win ELSE 0)
    BY <1>6, <1>7, VerdictPays DEF MoneyInv
  <2>3. QED BY <1>6, <1>7, <2>1, <2>2, BetFields
<1>9. ASSUME NEW u \in Users PROVE BalanceInv(u)' /\ LockedInv(u)'
  <2> DEFINE mine == Of(t.bets, u)
             won == {b \in mine : FancyWins(b, o)}
             paid == [b \in won |-> b.stake + b.win]
             locks == [b \in mine |-> LockOf(b)]
             frees == [b \in mine |-> -LockOf(b)]
  <2>1. mine \subseteq t.bets /\ mine \in SUBSET Of(Bets, u) /\ won \in SUBSET Of(Bets, u)
        /\ mine \in SUBSET Bets
    BY <1>6 DEF Of
  <2>2. \A b \in Of(Bets, u) \ mine : status'[b] = status[b]
    BY <1>7 DEF Of
  <2>3. u \in Concerned(a) => t.balance[u] = balance[u] /\ t.liability[u] = liability[u]
    BY <1>1, <1>6 DEF Concerned
  <2>4. u \notin Concerned(a) => mine = {} /\ won = {}
    BY <1>1 DEF Concerned, Of
  <2>5. FancyRefund(mine) = Sum(locks, mine)
    BY DEF FancyRefund
  <2>6. o # Void => credit[u] = Sum(paid, won)
    <3> SUFFICES ASSUME o # Void PROVE credit[u] = Sum(paid, won)
      OBVIOUS
    <3>1. credit[u] = FancyCredit(mine, {}, o, row[u][t.market])
      BY <1>2, <1>5, <1>6
    <3>2. won \ {} = won /\ won \intersect {} = {}
      OBVIOUS
    <3>3. \A b \in won : paid[b] \in Int
      BY <1>8, <2>1
    <3>4. FancyCredit(mine, {}, o, row[u][t.market]) = Sum(paid, won \ {}) + 0
      BY DEF FancyCredit
    <3>5. Sum(paid, won) \in Int
      <4>1. won \in SUBSET Bets
        BY <2>1
      <4> HIDE DEF won, paid
      <4>2. QED BY <3>3, <4>1, BetSum
    <3> HIDE DEF won, paid
    <3>6. QED BY <3>1, <3>2, <3>4, <3>5
  <2>7. o = Void => credit[u] = Sum(locks, mine)
    BY <1>2, <1>6, <2>5
  <2>8. BalanceInv(u)'
    <3>1. CASE o # Void
      <4>1. \A b \in won : paid[b] \in Int /\ PaidAs(b, status'[b]) = PaidAs(b, status[b]) + paid[b]
        BY <1>8, <2>1, <3>1
      <4>2. \A b \in Of(Bets, u) \ won : PaidAs(b, status'[b]) = PaidAs(b, status[b])
        BY <1>8, <2>1, <2>2, <3>1
      <4>3. balance'[u] = balance[u] + Sum(paid, won)
        <5>1. balance[u] \in Int
          BY DEF TypeInv, TypeOK
        <5>2. u \in Concerned(a) => balance'[u] = balance[u] + credit[u]
          BY <1>3, <2>3
        <5>3. u \notin Concerned(a) => balance'[u] = balance[u]
          BY <1>3
        <5> HIDE DEF won, paid
        <5>4. u \notin Concerned(a) => Sum(paid, won) = 0
          BY <2>4, SumEmpty
        <5>5. QED BY <2>6, <3>1, <5>1, <5>2, <5>3, <5>4
      <4> HIDE DEF won, paid
      <4>4. QED BY <2>1, <4>1, <4>2, <4>3, Balanced
    <3>2. CASE o = Void
      <4>1. \A b \in mine : locks[b] \in Int /\ PaidAs(b, status'[b]) = PaidAs(b, status[b]) + locks[b]
        BY <1>8, <2>1, <3>2
      <4>2. \A b \in Of(Bets, u) \ mine : PaidAs(b, status'[b]) = PaidAs(b, status[b])
        BY <2>2
      <4>3. balance'[u] = balance[u] + Sum(locks, mine)
        <5>1. balance[u] \in Int
          BY DEF TypeInv, TypeOK
        <5>2. u \in Concerned(a) => balance'[u] = balance[u] + credit[u]
          BY <1>3, <2>3
        <5>3. u \notin Concerned(a) => balance'[u] = balance[u]
          BY <1>3
        <5> HIDE DEF mine, locks
        <5>4. u \notin Concerned(a) => Sum(locks, mine) = 0
          BY <2>4, SumEmpty
        <5>5. QED BY <2>7, <3>2, <5>1, <5>2, <5>3, <5>4
      <4> HIDE DEF mine, locks
      <4>4. QED BY <2>1, <4>1, <4>2, <4>3, Balanced
    <3>3. QED BY <3>1, <3>2
  <2>9. LockedInv(u)'
    <3>1. \A b \in mine : locks[b] \in Int /\ frees[b] = -locks[b] /\ frees[b] \in Int
                          /\ HeldAs(b, status'[b]) = HeldAs(b, status[b]) + frees[b]
      BY <1>8, <2>1
    <3>2. \A b \in Of(Bets, u) \ mine : HeldAs(b, status'[b]) = HeldAs(b, status[b])
      BY <2>2
    <3> HIDE DEF mine, locks, frees
    <3>3. Sum(frees, mine) = -Sum(locks, mine)
      BY <2>1, <3>1, BetsFinite, SumOpposite
    <3>4. Sum(locks, mine) \in Int
      BY <2>1, <3>1, BetSum
    <3>5. /\ liability[u] + Sum(frees, mine) \in Nat
          /\ liability'[u] = liability[u] + Sum(frees, mine) => LockedInv(u)'
      BY <2>1, <3>1, <3>2, StillLocked
    <3>6. liability[u] \in Int
      BY DEF TypeInv, TypeOK
    <3>7. CASE u \in Concerned(a)
      <4>1. liability'[u] = Max({0, liability[u] - Sum(locks, mine)})
        BY <1>3, <2>3, <2>5, <3>7 DEF mine
      <4>2. PICK x : x = liability[u] - Sum(locks, mine)
        OBVIOUS
      <4>3. x \in Nat /\ x = liability[u] + Sum(frees, mine)
        BY <3>3, <3>4, <3>5, <3>6, <4>2
      <4>4. Max({0, x}) = x
        BY <4>3, MaxWithZero
      <4>5. QED BY <3>5, <4>1, <4>2, <4>3, <4>4
    <3>8. CASE u \notin Concerned(a)
      <4>1. Sum(frees, mine) = 0
        BY <2>4, <3>8, SumEmpty
      <4>2. liability'[u] = liability[u]
        BY <1>3, <3>8
      <4>3. QED BY <3>5, <3>6, <4>1, <4>2
    <3>9. QED BY <3>7, <3>8
  <2>10. QED BY <2>8, <2>9
<1>10. QED BY <1>1, <1>3, <1>4, <1>7, <1>9, EndMoney

\* A settlement that increments the wallets pays f for every bet, and frees g.
LEMMA IncrementMoney ==
  ASSUME TypeInv, ControlInv, MoneyInv, NEW a \in Admins, NEW credit, NEW release,
         Increment(a, credit, release), task[a].pc = "recorded", NEW f, NEW g,
         \A u \in Users : /\ credit[u] = Sum(f, Of(task[a].bets, u))
                          /\ release[u] = Sum(g, Of(task[a].bets, u)),
         \A b \in Bets : f[b] \in Int /\ g[b] \in Int,
         \A b \in task[a].bets : b \in offer =>
            /\ g[b] = b.stake /\ HeldAs(b, Verdict(b, task[a].outcome)) = 0
            /\ PaidAs(b, Verdict(b, task[a].outcome)) = -b.stake + f[b]
  PROVE  MoneyInv'
<1>1. PICK t : t = task[a]
  OBVIOUS
<1>2. /\ Decide(t) /\ ~Overwrites(t) /\ t.pc = "recorded"
      /\ \A u \in Users : /\ balance'[u] = balance[u] + Sum(f, Of(t.bets, u))
                          /\ liability'[u] = liability[u] - Sum(g, Of(t.bets, u))
      /\ task' = [task EXCEPT ![a] = Idle] /\ offer' = offer /\ pairedWith' = pairedWith
  BY <1>1 DEF Increment
<1>3. t \in Requests /\ Knows(t) /\ Active(a)
  BY <1>1, <1>2 DEF TypeInv, MoneyInv, Active
<1>4. \A b \in t.bets : status[b] = "PENDING" /\ b \in Bets
  BY <1>2, <1>3 DEF Knows, Overwrites, Requests
<1>5. /\ \A b \in t.bets : b \in Bets /\ b \in offer /\ status'[b] = Verdict(b, t.outcome)
      /\ \A b \in Bets : b \notin t.bets => status'[b] = status[b]
      /\ \A b \in Bets : BetInv(b)'
  BY <1>2, <1>3, <1>4, DecideMoney
<1>6. ASSUME NEW b \in t.bets
      PROVE  /\ PaidAs(b, status'[b]) = PaidAs(b, status[b]) + f[b]
             /\ HeldAs(b, status'[b]) = HeldAs(b, status[b]) - g[b]
  <2>1. PaidAs(b, status[b]) = -b.stake /\ HeldAs(b, status[b]) = b.stake /\ b.stake \in Nat
    BY <1>4, BetFields DEF PaidAs, HeldAs
  <2>2. g[b] = b.stake /\ HeldAs(b, status'[b]) = 0 /\ PaidAs(b, status'[b]) = -b.stake + f[b]
    BY <1>1, <1>5
  <2>3. QED BY <2>1, <2>2
<1>7. ASSUME NEW u \in Users PROVE BalanceInv(u)' /\ LockedInv(u)'
  <2>1. PICK mine : mine = Of(t.bets, u)
    OBVIOUS
  <2>2. PICK frees : frees = [b \in Bets |-> -g[b]]
    OBVIOUS
  <2>3. mine \subseteq t.bets /\ mine \in SUBSET Of(Bets, u) /\ mine \in SUBSET Bets
    BY <1>4, <2>1 DEF Of
  <2>4. \A b \in Of(Bets, u) \ mine : status'[b] = status[b]
    BY <1>5, <2>1 DEF Of
  <2>5. \A b \in mine : /\ f[b] \in Int /\ PaidAs(b, status'[b]) = PaidAs(b, status[b]) + f[b]
                        /\ g[b] \in Int /\ frees[b] \in Int /\ frees[b] = -g[b]
                        /\ HeldAs(b, status'[b]) = HeldAs(b, status[b]) - g[b]
                        /\ HeldAs(b, status[b]) \in Int
    BY <1>6, <2>2, <2>3, Amounts
  <2>6. BalanceInv(u)'
    <3>1. balance'[u] = balance[u] + Sum(f, mine)
      BY <1>2, <2>1
    <3>2. QED BY <2>3, <2>4, <2>5, <3>1, Balanced
  <2>7. Sum(frees, mine) = -Sum(g, mine)
    BY <2>3, <2>5, BetsFinite, SumOpposite
  <2>8. Sum(g, mine) \in Int
    BY <2>3, <2>5, BetSum
  <2>9. \A b \in mine : frees[b] \in Int /\ HeldAs(b, status'[b]) = HeldAs(b, status[b]) + frees[b]
    BY <2>5
  <2>10. liability'[u] = liability[u] + Sum(frees, mine)
    <3>1. liability'[u] = liability[u] - Sum(g, mine) /\ liability[u] \in Int
      BY <1>2, <2>1 DEF TypeInv, TypeOK
    <3>2. QED BY <2>7, <2>8, <3>1
  <2>11. LockedInv(u)'
    BY <2>3, <2>4, <2>9, <2>10, StillLocked
  <2>12. QED BY <2>6, <2>11
<1>8. QED BY <1>1, <1>2, <1>3, <1>5, <1>7, EndMoney

\* settleBookmakerBetsStrict.
LEMMA CommitBookmakerMoney ==
  ASSUME TypeInv, ControlInv, MoneyInv, NEW a \in Admins, CommitBookmaker(a)
  PROVE  MoneyInv'
<1> DEFINE f == [b \in Bets |-> BookmakerCredit(b, task[a].outcome)]
           g == [b \in Bets |-> BookmakerRelease(b)]
<1>1. PICK credit : credit = [u \in Users |-> Sum(f, Of(task[a].bets, u))]
  OBVIOUS
<1>2. PICK release : release = [u \in Users |-> Sum(g, Of(task[a].bets, u))]
  OBVIOUS
<1>3. Increment(a, credit, release) /\ task[a].pc = "recorded" /\ KindOf[task[a].market] = "bookmaker"
  BY <1>1, <1>2 DEF CommitBookmaker
<1>4. \A b \in Bets : f[b] \in Int /\ g[b] \in Int
  BY BetFields DEF BookmakerCredit, BookmakerRelease
<1>5. /\ task[a].outcome \in Int /\ task[a].outcome # Void
      /\ \A b \in task[a].bets : b \in Bets /\ KindOf[b.market] = "bookmaker"
  <2>1. ~Overwrites(task[a]) /\ Knows(task[a]) /\ Sound(task[a]) /\ task[a] \in Requests
    BY <1>3 DEF Increment, MoneyInv, ControlInv, TypeInv
  <2>2. QED BY <1>3, <2>1 DEF Overwrites, Knows, Sound, Requests
<1>6. \A b \in task[a].bets : b \in offer =>
        /\ g[b] = b.stake /\ HeldAs(b, Verdict(b, task[a].outcome)) = 0
        /\ PaidAs(b, Verdict(b, task[a].outcome)) = -b.stake + f[b]
  BY <1>5, VerdictPays DEF MoneyInv
<1>7. \A u \in Users : credit[u] = Sum(f, Of(task[a].bets, u)) /\ release[u] = Sum(g, Of(task[a].bets, u))
  BY <1>1, <1>2
<1> HIDE DEF f, g
<1>8. QED BY <1>3, <1>4, <1>6, <1>7, IncrementMoney

\* settleTiedMatchBetsIsolated.
LEMMA CommitTiedMoney ==
  ASSUME TypeInv, ControlInv, MoneyInv, NEW a \in Admins, CommitTied(a)
  PROVE  MoneyInv'
<1> DEFINE f == [b \in Bets |-> TiedCredit(b, task[a].outcome)]
           g == [b \in Bets |-> TiedRelease(b)]
<1>1. PICK credit : credit = [u \in Users |-> Sum(f, Of(task[a].bets, u))]
  OBVIOUS
<1>2. PICK release : release = [u \in Users |-> Sum(g, Of(task[a].bets, u))]
  OBVIOUS
<1>3. Increment(a, credit, release) /\ task[a].pc = "recorded" /\ KindOf[task[a].market] = "tied"
  BY <1>1, <1>2 DEF CommitTied
<1>4. \A b \in Bets : f[b] \in Int /\ g[b] \in Int
  BY BetFields DEF TiedCredit, TiedRelease
<1>5. /\ task[a].outcome \in Int /\ task[a].outcome # Void
      /\ \A b \in task[a].bets : b \in Bets /\ KindOf[b.market] = "tied"
  <2>1. ~Overwrites(task[a]) /\ Knows(task[a]) /\ Sound(task[a]) /\ task[a] \in Requests
    BY <1>3 DEF Increment, MoneyInv, ControlInv, TypeInv
  <2>2. QED BY <1>3, <2>1 DEF Overwrites, Knows, Sound, Requests
<1>6. \A b \in task[a].bets : b \in offer =>
        /\ g[b] = b.stake /\ HeldAs(b, Verdict(b, task[a].outcome)) = 0
        /\ PaidAs(b, Verdict(b, task[a].outcome)) = -b.stake + f[b]
  BY <1>5, VerdictPays DEF MoneyInv
<1>7. \A u \in Users : credit[u] = Sum(f, Of(task[a].bets, u)) /\ release[u] = Sum(g, Of(task[a].bets, u))
  BY <1>1, <1>2
<1> HIDE DEF f, g
<1>8. QED BY <1>3, <1>4, <1>6, <1>7, IncrementMoney

\* cancelTiedMatchBets: the stake comes back, and stays locked.
LEMMA CancelTiedMoney ==
  ASSUME TypeInv, ControlInv, MoneyInv, NEW a \in Admins, CancelTied(a)
  PROVE  MoneyInv'
<1>1. PICK t : t = task[a]
  OBVIOUS
<1>2. PICK f : f = [b \in Bets |-> TiedRefund(b)]
  OBVIOUS
<1>3. /\ t.pc = "open" /\ KindOf[t.market] = "tied" /\ t.kind = "cancel" /\ Decide(t)
      /\ \A u \in Users : balance'[u] = IF u \in Concerned(a) THEN t.balance[u] + Sum(f, Of(t.bets, u))
                                        ELSE balance[u]
      /\ liability' = liability
      /\ task' = [task EXCEPT ![a] = Idle] /\ offer' = offer /\ pairedWith' = pairedWith
  BY <1>1, <1>2 DEF CancelTied
<1>4. t \in Requests /\ Knows(t) /\ Sound(t) /\ Active(a)
  BY <1>1, <1>3 DEF TypeInv, MoneyInv, ControlInv, Active
<1>5. /\ \A b \in t.bets : status[b] = "PENDING" /\ b \in Bets /\ KindOf[b.market] = "tied"
      /\ \A b \in t.bets : t.balance[b.user] = balance[b.user]
      /\ t.outcome = Void /\ t.outcome \in Int
  BY <1>3, <1>4 DEF Knows, Sound, Requests
<1>6. /\ \A b \in t.bets : b \in Bets /\ b \in offer /\ status'[b] = Verdict(b, t.outcome)
      /\ \A b \in Bets : b \notin t.bets => status'[b] = status[b]
      /\ \A b \in Bets : BetInv(b)'
  BY <1>3, <1>4, <1>5, DecideMoney
<1>7. ASSUME NEW b \in t.bets
      PROVE  /\ f[b] \in Int /\ PaidAs(b, status'[b]) = PaidAs(b, status[b]) + f[b]
             /\ HeldAs(b, status'[b]) = HeldAs(b, status[b])
  <2>1. PaidAs(b, status[b]) = -b.stake /\ HeldAs(b, status[b]) = b.stake /\ b.stake \in Nat
    BY <1>5, BetFields DEF PaidAs, HeldAs
  <2>2. HeldAs(b, status'[b]) = b.stake /\ PaidAs(b, status'[b]) = -b.stake + TiedRefund(b)
    BY <1>5, <1>6, VerdictPays DEF MoneyInv
  <2>3. f[b] = TiedRefund(b) /\ TiedRefund(b) = b.stake
    BY <1>2, <1>5 DEF TiedRefund
  <2>4. QED BY <2>1, <2>2, <2>3
<1>8. ASSUME NEW u \in Users PROVE BalanceInv(u)' /\ LockedInv(u)'
  <2>1. PICK mine : mine = Of(t.bets, u)
    OBVIOUS
  <2>2. mine \subseteq t.bets /\ mine \in SUBSET Of(Bets, u) /\ mine \in SUBSET Bets
    BY <1>5, <2>1 DEF Of
  <2>3. \A b \in Of(Bets, u) \ mine : status'[b] = status[b]
    BY <1>6, <2>1 DEF Of
  <2>4. balance'[u] = balance[u] + Sum(f, mine)
    <3>1. balance[u] \in Int
      BY DEF TypeInv, TypeOK
    <3>2. CASE u \in Concerned(a)
      <4>1. t.balance[u] = balance[u]
        BY <1>1, <1>5, <3>2 DEF Concerned
      <4>2. QED BY <1>3, <2>1, <3>2, <4>1
    <3>3. CASE u \notin Concerned(a)
      <4>1. mine = {}
        BY <1>1, <2>1, <3>3 DEF Concerned, Of
      <4>2. Sum(f, mine) = 0
        BY <4>1, SumEmpty
      <4>3. QED BY <1>3, <3>1, <3>3, <4>2
    <3>4. QED BY <3>2, <3>3
  <2>5. BalanceInv(u)'
    BY <1>7, <2>2, <2>3, <2>4, Balanced
  <2>6. LockedInv(u)'
    <3>1. PICK old, new : old = status /\ new = status'
      OBVIOUS
    <3>2. PICK S : S = Of(Bets, u)
      OBVIOUS
    <3>3. S \in SUBSET Bets /\ IsFiniteSet(S)
      BY <3>2, BetsFinite DEF Of
    <3>4. \A b \in S : HeldAs(b, new[b]) = HeldAs(b, old[b])
      BY <1>7, <2>2, <2>3, <3>1, <3>2
    <3>5. \A b \in S : Held(old)[b] \in Int /\ Held(old)[b] = Held(new)[b]
      BY <3>3, <3>4, Amounts DEF Held
    <3>6. Sum(Held(old), S) = Sum(Held(new), S)
      BY <3>3, <3>5, SumEqual
    <3>7. liability[u] = Sum(Held(old), S)
      BY <3>1, <3>2 DEF MoneyInv, LockedInv
    <3>8. QED BY <1>3, <3>1, <3>2, <3>6, <3>7 DEF LockedInv
  <2>7. QED BY <2>5, <2>6
<1>9. QED BY <1>1, <1>3, <1>4, <1>6, <1>8, EndMoney

\* rollbackSettlement takes back what each bet was paid, and recalculates the
\* liability from the bets that are open then.
LEMMA CommitRollbackMoney ==
  ASSUME TypeInv, ControlInv, MoneyInv, NEW a \in Admins, CommitRollback(a)
  PROVE  MoneyInv'
<1>1. PICK t : t = task[a]
  OBVIOUS
<1>2. /\ t.pc = "open" /\ t.kind = "rollback"
      /\ \A b \in Bets : /\ status'[b] = IF b \in t.bets THEN "PENDING" ELSE status[b]
                         /\ pnl'[b] = IF b \in t.bets THEN 0 ELSE pnl[b]
      /\ \A u \in Users : /\ balance'[u] = IF u \in Concerned(a) /\ t.taken[u] # 0
                                           THEN t.balance[u] - t.taken[u] ELSE balance[u]
                          /\ liability'[u] = IF u \in Concerned(a) THEN Recalculated(t, u) ELSE liability[u]
      /\ task' = [task EXCEPT ![a] = Idle] /\ offer' = offer /\ pairedWith' = pairedWith
  BY <1>1 DEF CommitRollback
<1>3. t \in Requests /\ Knows(t) /\ Sound(t) /\ Active(a)
  BY <1>1, <1>2 DEF TypeInv, MoneyInv, ControlInv, Active
<1>4. /\ \A b \in t.bets : /\ status[b] \in Settled /\ b \in Bets /\ b.market = t.market
                           /\ t.balance[b.user] = balance[b.user] /\ b \in offer
      /\ \A b \in Bets : b.market = t.market /\ status[b] \in Settled => b \in t.bets
      /\ t.market \in Reopenable
  <2>1. \A b \in t.bets : status[b] \in Settled /\ b \in Bets
    BY <1>2, <1>3 DEF Knows, Requests
  <2>2. \A b \in t.bets : b \in offer
    BY <2>1 DEF MoneyInv, BetInv, Settled
  <2>3. \A b \in t.bets : b.market = t.market /\ t.balance[b.user] = balance[b.user]
    BY <1>2, <1>3 DEF Knows, Sound
  <2>4. \A b \in Bets : b.market = t.market /\ status[b] \in Settled => b \in t.bets
    BY <1>2, <1>3 DEF Sound
  <2>5. t.market \in Reopenable
    BY <1>2, <1>3 DEF Knows
  <2>6. QED BY <2>1, <2>2, <2>3, <2>4, <2>5
<1>5. ASSUME NEW b \in Bets PROVE BetInv(b)'
  <2>1. BetInv(b)
    BY DEF MoneyInv
  <2>2. CASE b \in t.bets
    BY <1>2, <1>4, <2>1, <2>2 DEF BetInv, EarnedAs
  <2>3. CASE b \notin t.bets
    BY <1>2, <2>1, <2>3 DEF BetInv
  <2>4. QED BY <2>2, <2>3
<1>6. PICK taken, back : taken = [b \in Bets |-> TakenBack(b)] /\ back = [b \in Bets |-> -TakenBack(b)]
  OBVIOUS
<1>7. ASSUME NEW b \in t.bets
      PROVE  /\ taken[b] \in Int /\ back[b] = -taken[b] /\ back[b] \in Int
             /\ PaidAs(b, status'[b]) = PaidAs(b, status[b]) + back[b]
  <2>1. /\ b \in Bets /\ status'[b] = "PENDING" /\ status[b] \in {"WON", "LOST", "CANCELLED"}
        /\ b.stake \in Nat /\ b.win \in Nat
    BY <1>2, <1>4, BetFields DEF Settled
  <2>2. KindOf[b.market] # "bookmaker" /\ b.loss = b.stake
    BY <1>4, PlainBet DEF MoneyInv
  <2>3. TakenBack(b) = IF status[b] = "WON" THEN b.stake + b.win
                       ELSE IF status[b] = "CANCELLED" THEN b.stake ELSE 0
    BY <2>1, <2>2 DEF TakenBack, LockOf
  <2>4. PaidAs(b, status'[b]) = -b.stake
        /\ PaidAs(b, status[b]) = IF status[b] = "WON" THEN b.win
                                  ELSE IF status[b] = "LOST" THEN -b.stake ELSE 0
    BY <2>1, <2>2 DEF PaidAs
  <2>5. taken[b] = TakenBack(b) /\ back[b] = -TakenBack(b)
    BY <1>6, <2>1
  <2>6. QED BY <2>1, <2>3, <2>4, <2>5
<1>8. ASSUME NEW u \in Users PROVE BalanceInv(u)' /\ LockedInv(u)'
  <2>1. PICK mine : mine = Of(t.bets, u)
    OBVIOUS
  <2>2. mine \subseteq t.bets /\ mine \in SUBSET Of(Bets, u) /\ mine \in SUBSET Bets
    BY <1>4, <2>1 DEF Of
  <2>3. \A b \in Of(Bets, u) \ mine : status'[b] = status[b]
    BY <1>2, <2>1 DEF Of
  <2>4. Sum(back, mine) = -Sum(taken, mine) /\ Sum(taken, mine) \in Int
    <3>1. Sum(back, mine) = -Sum(taken, mine)
      BY <1>7, <2>2, BetsFinite, SumOpposite
    <3>2. QED BY <1>7, <2>2, <3>1, BetSum
  <2>5. t.taken[u] = Sum(taken, mine)
    BY <1>2, <1>3, <1>6, <2>1 DEF Knows
  <2>6. balance'[u] = balance[u] + Sum(back, mine)
    <3>1. balance[u] \in Int
      BY DEF TypeInv, TypeOK
    <3>2. CASE u \in Concerned(a) /\ t.taken[u] # 0
      <4>1. t.balance[u] = balance[u]
        BY <1>1, <1>4, <3>2 DEF Concerned
      <4>2. QED BY <1>2, <2>4, <2>5, <3>1, <3>2, <4>1
    <3>3. CASE ~(u \in Concerned(a) /\ t.taken[u] # 0)
      <4>1. u \notin Concerned(a) => mine = {}
        BY <1>1, <2>1 DEF Concerned, Of
      <4>2. Sum(taken, mine) = 0
        BY <2>5, <3>3, <4>1, SumEmpty
      <4>3. QED BY <1>2, <2>4, <3>1, <3>3, <4>2
    <3>4. QED BY <3>2, <3>3
  <2>7. BalanceInv(u)'
    BY <1>7, <2>2, <2>3, <2>6, Balanced
  <2>8. PICK old, new : old = status /\ new = status'
    OBVIOUS
  <2>9. PICK S : S = Of(Bets, u)
    OBVIOUS
  <2>10. S \in SUBSET Bets /\ IsFiniteSet(S)
    BY <2>9, BetsFinite DEF Of
  <2>11. LockedInv(u)'
    <3>1. CASE u \in Concerned(a)
      <4>1. PICK P : P = {b \in S : new[b] = "PENDING"}
        OBVIOUS
      <4>2. P = Open(Of(Bets, u)) \union Of(t.bets, u)
        BY <1>2, <1>4, <2>8, <2>9, <4>1 DEF Open, Of
      <4>3. P \in SUBSET S /\ P \in SUBSET Bets /\ P \subseteq offer /\ \A b, c \in P : b.user = c.user
        <5>1. P \in SUBSET S /\ P \in SUBSET Bets
          BY <2>10, <4>1
        <5>2. P \subseteq offer
          BY <1>4, <4>2 DEF Open, Of, MoneyInv, BetInv
        <5>3. QED BY <2>9, <5>1, <5>2 DEF Of
      <4>4. Recalculated(t, u) = Sum(Stakes, P)
        <5>1. ExposureOf(P) = Sum(Stakes, P)
          BY <4>3, PlainExposure DEF MoneyInv
        <5>2. QED BY <4>2, <5>1 DEF Recalculated
      <4>5. ASSUME NEW b \in S PROVE Held(new)[b] = IF b \in P THEN Stakes[b] ELSE 0
        <5>1. b \in Bets /\ Held(new)[b] = HeldAs(b, new[b]) /\ Stakes[b] = b.stake
          BY <2>10, SumsOverBets
        <5>2. CASE b \in P
          BY <4>1, <5>1, <5>2 DEF HeldAs
        <5>3. CASE b \notin P
          <6>1. new[b] # "PENDING"
            BY <4>1, <5>3
          <6>2. ~(new[b] = "CANCELLED" /\ KindOf[b.market] = "tied")
            <7> SUFFICES ASSUME new[b] = "CANCELLED", KindOf[b.market] = "tied" PROVE FALSE
              OBVIOUS
            <7>1. PICK c \in t.bets : c.user = u
              BY <1>1, <3>1 DEF Concerned
            <7>2. status[b] = "CANCELLED" /\ b \notin t.bets
              BY <1>2, <2>8, <5>1
            <7>3. b \in offer /\ c \in offer /\ b.user = c.user /\ c.market \in Reopenable /\ c.market = t.market
              BY <1>4, <2>9, <5>1, <7>1, <7>2 DEF MoneyInv, BetInv, Of
            <7>4. b.market = t.market
              BY <7>3 DEF MoneyInv, PlainOffer
            <7>5. QED BY <1>4, <5>1, <7>2, <7>4 DEF Settled
          <6>3. QED BY <5>1, <5>3, <6>1, <6>2 DEF HeldAs
        <5>4. QED BY <5>2, <5>3
      <4>6. Sum(Held(new), S) = Sum(Held(new), P)
        <5>1. \A b \in S : Held(new)[b] \in Int
          BY <2>10, Amounts DEF Held
        <5>2. \A b \in S \ P : Held(new)[b] = 0
          BY <4>5
        <5>3. QED BY <2>10, <4>3, <5>1, <5>2, SumSupport
      <4>7. Sum(Stakes, P) = Sum(Held(new), P)
        <5>1. \A b \in P : Stakes[b] \in Int /\ Stakes[b] = Held(new)[b]
          <6>1. \A b \in P : Stakes[b] \in Nat
            BY <4>3, SumsOverBets
          <6>2. QED BY <4>3, <4>5, <6>1
        <5>2. QED BY <4>3, <5>1, BetsFinite, SumEqual
      <4>8. liability'[u] = Sum(Held(new), S)
        BY <1>2, <3>1, <4>4, <4>6, <4>7
      <4>9. QED BY <2>8, <2>9, <4>8 DEF LockedInv
    <3>2. CASE u \notin Concerned(a)
      <4>1. mine = {}
        BY <1>1, <2>1, <3>2 DEF Concerned, Of
      <4>2. \A b \in S : Held(old)[b] \in Int /\ Held(old)[b] = Held(new)[b]
        BY <2>3, <2>8, <2>9, <2>10, <4>1, Amounts DEF Held
      <4>3. Sum(Held(old), S) = Sum(Held(new), S)
        BY <2>10, <4>2, SumEqual
      <4>4. liability[u] = Sum(Held(old), S)
        BY <2>8, <2>9 DEF MoneyInv, LockedInv
      <4>5. QED BY <1>2, <2>8, <2>9, <3>2, <4>3, <4>4 DEF LockedInv
    <3>3. QED BY <3>1, <3>2
  <2>12. QED BY <2>7, <2>11
<1>9. QED
  <2>1. \A b \in Bets : b \notin task[a].bets => status'[b] = status[b]
    BY <1>1, <1>2
  <2>2. QED BY <1>1, <1>2, <1>3, <1>5, <1>8, <2>1, EndMoney

LEMMA MoneyKept ==
  ASSUME TypeInv, TypeInv', ControlInv, MoneyInv, [Next]_vars
  PROVE  MoneyInv'
<1>1. ASSUME NEW b \in Bets, Place(b) PROVE MoneyInv'
  BY <1>1, PlaceMoney
<1>2. ASSUME NEW a \in Admins, Ask(a) PROVE MoneyInv'
  <2>1. PICK m \in Markets :
          \/ \E o \in OutcomesOf[m], filter \in Filters :
               ReadFancy(a, m, o, filter) \/ ReadBookmaker(a, m, o, filter) \/ CheckTied(a, m, o, filter)
          \/ ReadToRollback(a, m)
    BY <1>2 DEF Ask
  <2>2. CASE ReadToRollback(a, m)
    BY <2>2, ReadToRollbackMoney
  <2>3. ASSUME NEW o \in OutcomesOf[m], NEW filter \in Filters,
               ReadFancy(a, m, o, filter) \/ ReadBookmaker(a, m, o, filter) \/ CheckTied(a, m, o, filter)
        PROVE  MoneyInv'
    BY <2>3, ReadFancyMoney, ReadBookmakerMoney, CheckTiedMoney
  <2>4. QED BY <2>1, <2>2, <2>3
<1>3. ASSUME NEW a \in Admins, GoOn(a) \/ Fail(a) PROVE MoneyInv'
  <2>1. CASE \/ ValidateBookmaker(a) \/ ReadTied(a) \/ TagBets(a) \/ Record(a) \/ ReadWallets(a)
             \/ Fail(a)
    BY <2>1, MovesMoney
  <2>2. CASE CommitFancy(a) \/ CommitBookmaker(a) \/ CommitTied(a)
    BY <2>2, CommitFancyMoney, CommitBookmakerMoney, CommitTiedMoney
  <2>3. CASE CancelTied(a) \/ CommitRollback(a)
    BY <2>3, CancelTiedMoney, CommitRollbackMoney
  <2>4. QED BY <1>3, <2>1, <2>2, <2>3 DEF GoOn
<1>4. CASE UNCHANGED vars
  BY <1>4 DEF vars, MoneyInv, BetInv, BalanceInv, LockedInv, Knows, TakenBack, OverwritesAlone, Active, Overwrites
<1>5. QED BY <1>1, <1>2, <1>3, <1>4 DEF Next

LEMMA InitMoney ==
  ASSUME Init, PlainOffer(offer)
  PROVE  MoneyInv
<1>1. \A b \in Bets : BetInv(b)
  BY DEF Init, BetInv, EarnedAs
<1>2. ASSUME NEW u \in Users PROVE BalanceInv(u) /\ LockedInv(u)
  <2>1. PICK f, g : f = Paid(status) /\ g = Held(status)
    OBVIOUS
  <2>2. PICK S : S = Of(Bets, u)
    OBVIOUS
  <2>3. S \in SUBSET Bets /\ IsFiniteSet(S)
    BY <2>2, BetsFinite DEF Of
  <2>4. \A b \in S : f[b] = 0 /\ g[b] = 0
    BY <2>1, <2>3 DEF Init, Paid, Held, PaidAs, HeldAs
  <2>5. Sum(f, S) = 0
    BY <2>3, <2>4, SumZero
  <2>6. Sum(g, S) = 0
    BY <2>3, <2>4, SumZero
  <2>7. Funds[u] \in Int /\ balance[u] = Funds[u] /\ liability[u] = 0
    BY SideMarketAssumption DEF Init
  <2>8. QED BY <2>1, <2>2, <2>5, <2>6, <2>7 DEF BalanceInv, LockedInv
<1>3. \A a \in Admins : task[a] = Idle
  BY DEF Init
<1>4. \A a \in Admins : Knows(task[a])
  BY <1>3, IdleKnows
<1>5. OverwritesAlone
  BY <1>3, IdleKnows DEF OverwritesAlone, Active
<1>6. QED BY <1>1, <1>2, <1>4, <1>5 DEF MoneyInv

\* What the wallets hold, in terms of the bets.
LEMMA LiabilityExplained ==
  ASSUME TypeInv, MoneyInv, NEW u \in Users
  PROVE  liability[u] = ExposureOf(Open(Of(Bets, u))) + LeftLocked(u)
<1>1. PICK S : S = Of(Bets, u)
  OBVIOUS
<1>2. PICK O : O = Open(S)
  OBVIOUS
<1>3. PICK L : L = {b \in S : KindOf[b.market] = "tied" /\ status[b] = "CANCELLED"}
  OBVIOUS
<1>4. PICK held, losses : held = Held(status) /\ losses = [b \in Bets |-> b.loss]
  OBVIOUS
<1>5. PICK p, l : p = [b \in S |-> IF b \in O THEN Stakes[b] ELSE 0]
                  /\ l = [b \in S |-> IF b \in L THEN losses[b] ELSE 0]
  OBVIOUS
<1>6. /\ S \in SUBSET Bets /\ IsFiniteSet(S) /\ O \in SUBSET S /\ O \in SUBSET Bets /\ L \in SUBSET S
      /\ O \subseteq offer /\ \A b, c \in O : b.user = c.user
  BY <1>1, <1>2, <1>3, BetsFinite DEF Of, Open, MoneyInv, BetInv
<1>7. ASSUME NEW b \in S
      PROVE  /\ p[b] \in Int /\ p[b] = IF b \in O THEN Stakes[b] ELSE 0
             /\ l[b] \in Int /\ l[b] = IF b \in L THEN losses[b] ELSE 0
             /\ Stakes[b] \in Int /\ losses[b] \in Int /\ held[b] = p[b] + l[b]
  <2>1. Stakes[b] = b.stake /\ losses[b] = b.loss /\ b.stake \in Nat /\ b.loss \in Nat
    BY <1>4, <1>6, BetFields DEF Stakes
  <2>2. b \in O <=> status[b] = "PENDING"
    BY <1>2 DEF Open
  <2>3. b \in L => b.loss = b.stake
    <3>1. b \in L => b \in offer
      BY <1>3, <1>6 DEF MoneyInv, BetInv
    <3>2. QED BY <1>3, <1>6, <3>1, PlainBet DEF MoneyInv
  <2>4. held[b] = HeldAs(b, status[b])
    BY <1>4, <1>6 DEF Held
  <2>5. QED BY <1>3, <1>5, <2>1, <2>2, <2>3, <2>4 DEF HeldAs
<1>8. Sum(held, S) = Sum(p, S) + Sum(l, S)
  BY <1>6, <1>7, SumPlus
<1>9. Sum(p, S) = Sum(Stakes, O)
  BY <1>6, <1>7, SumWithin
<1>10. Sum(l, S) = Sum(losses, L)
  BY <1>6, <1>7, SumWithin
<1>11. ExposureOf(O) = Sum(Stakes, O)
  BY <1>6, PlainExposure DEF MoneyInv
<1>12. LeftLocked(u) = Sum(losses, L)
  BY <1>1, <1>3, <1>4 DEF LeftLocked
<1>13. liability[u] = Sum(held, S)
  BY <1>1, <1>4 DEF MoneyInv, LockedInv
<1>14. QED BY <1>1, <1>2, <1>8, <1>9, <1>10, <1>11, <1>12, <1>13

LEMMA MoneyExplained ==
  ASSUME TypeInv, MoneyInv, NEW u \in Users
  PROVE  balance[u] + liability[u] = Funds[u] + Results(u) - KeptStakes(u) + LeftLocked(u)
<1>1. PICK S : S = Of(Bets, u)
  OBVIOUS
<1>2. PICK K : K = {b \in S : KindOf[b.market] = "bookmaker" /\ status[b] = "WON" /\ b.side = "BACK"}
  OBVIOUS
<1>3. PICK L : L = {b \in S : KindOf[b.market] = "tied" /\ status[b] = "CANCELLED"}
  OBVIOUS
<1>4. PICK paid, held, losses : /\ paid = Paid(status) /\ held = Held(status)
                                /\ losses = [b \in Bets |-> b.loss]
  OBVIOUS
<1>5. PICK k, l : k = [b \in S |-> IF b \in K THEN Stakes[b] ELSE 0]
                  /\ l = [b \in S |-> IF b \in L THEN losses[b] ELSE 0]
  OBVIOUS
<1>6. PICK both, all : both = [b \in S |-> paid[b] + held[b]]
                       /\ all = [b \in S |-> both[b] + k[b]]
  OBVIOUS
<1>7. S \in SUBSET Bets /\ IsFiniteSet(S) /\ K \in SUBSET S /\ L \in SUBSET S
  BY <1>1, <1>2, <1>3, BetsFinite DEF Of
<1>8. ASSUME NEW b \in S
      PROVE  /\ k[b] \in Int /\ k[b] = IF b \in K THEN Stakes[b] ELSE 0
             /\ l[b] \in Int /\ l[b] = IF b \in L THEN losses[b] ELSE 0
             /\ Stakes[b] \in Int /\ losses[b] \in Int
             /\ paid[b] \in Int /\ held[b] \in Int /\ both[b] = paid[b] + held[b] /\ both[b] \in Int
             /\ pnl[b] \in Int /\ all[b] = both[b] + k[b] /\ all[b] = pnl[b] + l[b]
  <2>1. /\ Stakes[b] = b.stake /\ losses[b] = b.loss /\ b.stake \in Nat /\ b.loss \in Nat
        /\ b.percent \in Nat /\ b.win \in Nat
    BY <1>4, <1>7, BetFields DEF Stakes
  <2>2. paid[b] = PaidAs(b, status[b]) /\ held[b] = HeldAs(b, status[b]) /\ pnl[b] = EarnedAs(b, status[b])
    BY <1>4, <1>7 DEF Paid, Held, MoneyInv, BetInv
  <2>3. status[b] # "none" =>
          /\ KindOf[b.market] = "bookmaker" => b.side = "BACK"
          /\ KindOf[b.market] = "tied" => b.loss = b.stake
    BY <1>7, PlainBet DEF MoneyInv, BetInv
  <2>4. k[b] = IF b \in K THEN b.stake ELSE 0
    BY <1>5, <2>1
  <2>5. l[b] = IF b \in L THEN b.loss ELSE 0
    BY <1>5, <2>1
  <2>6. status[b] \in {"none", "PENDING", "WON", "LOST", "CANCELLED"}
    BY <1>7 DEF TypeInv, TypeOK, Settled
  <2>7. PaidAs(b, status[b]) \in Int /\ HeldAs(b, status[b]) \in Int /\ EarnedAs(b, status[b]) \in Int
    BY <1>7, Amounts
  <2>8. PaidAs(b, status[b]) + HeldAs(b, status[b]) + k[b] = EarnedAs(b, status[b]) + l[b]
    <3>1. CASE status[b] = "WON"
      <4>1. b \in K <=> KindOf[b.market] = "bookmaker"
        BY <1>2, <2>3, <3>1
      <4>2. b \notin L
        BY <1>3, <3>1
      <4>3. QED BY <2>1, <2>4, <2>5, <3>1, <4>1, <4>2 DEF PaidAs, HeldAs, EarnedAs
    <3>2. CASE status[b] = "CANCELLED"
      <4>1. (b \in L <=> KindOf[b.market] = "tied") /\ b \notin K
        BY <1>2, <1>3, <3>2
      <4>2. b \in L => b.loss = b.stake
        BY <2>3, <3>2, <4>1
      <4>3. QED BY <2>1, <2>4, <2>5, <3>2, <4>1, <4>2 DEF PaidAs, HeldAs, EarnedAs
    <3>3. CASE status[b] \in {"none", "PENDING", "LOST"}
      <4>1. b \notin K /\ b \notin L
        BY <1>2, <1>3, <3>3
      <4>2. QED BY <2>1, <2>4, <2>5, <3>3, <4>1 DEF PaidAs, HeldAs, EarnedAs
    <3>4. QED BY <2>6, <3>1, <3>2, <3>3
  <2>9. both[b] = paid[b] + held[b] /\ all[b] = both[b] + k[b]
    BY <1>6
  <2>10. k[b] \in Int /\ l[b] \in Int
    BY <2>1, <2>4, <2>5
  <2>11. QED BY <2>1, <2>2, <2>4, <2>5, <2>7, <2>8, <2>9, <2>10
<1>9. Sum(both, S) = Sum(paid, S) + Sum(held, S)
  BY <1>7, <1>8, SumPlus
<1>10. Sum(all, S) = Sum(both, S) + Sum(k, S)
  BY <1>7, <1>8, SumPlus
<1>11. Sum(all, S) = Sum(pnl, S) + Sum(l, S)
  BY <1>7, <1>8, SumPlus
<1>12. Sum(k, S) = Sum(Stakes, K)
  BY <1>7, <1>8, SumWithin
<1>13. Sum(l, S) = Sum(losses, L)
  BY <1>7, <1>8, SumWithin
<1>14. KeptStakes(u) = Sum(Stakes, K)
  BY <1>1, <1>2 DEF KeptStakes, Stakes
<1>15. LeftLocked(u) = Sum(losses, L)
  BY <1>1, <1>3, <1>4 DEF LeftLocked
<1>16. Results(u) = Sum(pnl, S)
  BY <1>1 DEF Results
<1>17. balance[u] = Funds[u] + Sum(paid, S) /\ liability[u] = Sum(held, S)
  BY <1>1, <1>4 DEF MoneyInv, BalanceInv, LockedInv
<1>18. /\ Sum(paid, S) \in Int /\ Sum(held, S) \in Int /\ Sum(k, S) \in Int /\ Sum(l, S) \in Int
       /\ Sum(pnl, S) \in Int
  <2>1. Sum(paid, S) \in Int /\ Sum(held, S) \in Int
    BY <1>7, <1>8, SumType
  <2>2. Sum(k, S) \in Int /\ Sum(l, S) \in Int
    BY <1>7, <1>8, SumType
  <2>3. Sum(pnl, S) \in Int
    BY <1>7, <1>8, SumType
  <2>4. QED BY <2>1, <2>2, <2>3
<1>19. Funds[u] \in Int
  BY SideMarketAssumption
<1>20. Sum(paid, S) + Sum(held, S) + Sum(k, S) = Sum(pnl, S) + Sum(l, S)
  BY <1>9, <1>10, <1>11
<1>21. QED BY <1>12, <1>13, <1>14, <1>15, <1>16, <1>17, <1>18, <1>19, <1>20

LEMMA MoneyInvariant == Spec /\ PlainOffer(offer) => [](TypeInv /\ MoneyInv)
<1>1. Init /\ PlainOffer(offer) => MoneyInv
  BY InitMoney
<1>2. TypeInv /\ TypeInv' /\ ControlInv /\ MoneyInv /\ [Next]_vars => MoneyInv'
  BY MoneyKept
<1>3. Spec => [](TypeInv /\ ControlInv)
  BY Invariants
<1>4. QED BY <1>1, <1>2, <1>3, PTL DEF Spec

\* Settled, cancelled, rolled back, settled again, late bets, failures between
\* any two steps, two administrators at once: a client has what it was funded
\* with and the results of its bets, less the stakes a bookmaker keeps, plus
\* the locks a cancelled tied match leaves (MoneyMatchesResults).
THEOREM MoneyCorrect == Spec /\ PlainOffer(offer) => []MoneyMatchesResults
<1>1. TypeInv /\ MoneyInv => MoneyMatchesResults
  BY MoneyExplained DEF MoneyMatchesResults
<1>2. QED BY <1>1, MoneyInvariant, PTL

\* The liability is the exposure of the open bets and those locks, although
\* each kind of settlement releases it by a formula of its own
\* (LiabilityIsExposure).
THEOREM LiabilityCorrect == Spec /\ PlainOffer(offer) => []LiabilityIsExposure
<1>1. TypeInv /\ MoneyInv => LiabilityIsExposure
  BY LiabilityExplained DEF LiabilityIsExposure
<1>2. QED BY <1>1, MoneyInvariant, PTL
=============================================================================
