--------------------------- MODULE OpenBetsProofs ---------------------------
(***************************************************************************)
(* Proofs about OpenBets, for every set of clients, bets, books and        *)
(* transfers and for every exposure that adds up over books.               *)
(***************************************************************************)
EXTENDS OpenBets, MoneyTheorems

USE DEF Operations, Kinds, BetStatus

\* The bets a placement has read are its client's.
PeersOwned == \A b \in Bets : req[b].peers \subseteq BetsOf(Owner[b])

TypeInv == TypeOK /\ PeersOwned

-----------------------------------------------------------------------------
-----------------------------------------------------------------------------
(* Typing. *)

\* What the assumptions say of the exposure of a book.
LEMMA BookExposureType ==
  ASSUME NEW u \in Users, NEW S \in SUBSET BetsOf(u)
  PROVE  BookExposure(S) \in Nat /\ Exposure(S) \in Nat
BY ExposureAssumption

\* A job's refund is a natural number.
LEMMA RefundType ==
  ASSUME TypeOK, NEW j \in Jobs, NEW u \in Users
  PROVE  Refund(j, u) \in Nat
BY DEF TypeOK, JobType, Refund

\* The records that jobs are set to have their type.
LEMMA JobTyped ==
  ASSUME NEW pc \in {"idle", "read", "began", "recalculated"}, NEW kind \in {"delete", "cancel"},
         NEW S \in SUBSET Bets, NEW before \in [Users -> Int], NEW after \in [Users -> Int]
  PROVE  Job(pc, kind, S, before, after) \in JobType
BY DEF Job, JobType

LEMMA NoJobTyped == NoJob \in JobType /\ Nothing \in [Users -> Int]
<1>1. Nothing \in [Users -> Int]
  BY DEF Nothing
<1> QED BY <1>1, JobTyped DEF NoJob

\* A request that goes on keeps its type and reads only its client's bets.
LEMMA RequestTyped ==
  ASSUME TypeInv, NEW b \in Bets, NEW r \in RequestType, r.peers \subseteq BetsOf(Owner[b]),
         req' = [req EXCEPT ![b] = r]
  PROVE  req' \in [Bets -> RequestType] /\ PeersOwned'
BY DEF TypeInv, TypeOK, PeersOwned, BetsOf

\* A request that has just come is of the type of requests.
LEMMA NewRequestTyped ==
  ASSUME NEW pc \in {"idle", "admitted", "placed", "rejected"}
  PROVE  Request(pc) \in RequestType /\ Request(pc).peers = {}
BY DEF Request, RequestType

LEMMA TypeInit == Init => TypeInv
  BY OpenBetsAssumption, NoJobTyped, NewRequestTyped DEF Init, TypeInv, TypeOK, PeersOwned

LEMMA TypeStep == TypeInv /\ [Next]_vars => TypeInv'
<1> SUFFICES ASSUME TypeInv, [Next]_vars PROVE TypeInv'
  OBVIOUS
<1> USE DEF TypeInv
<1>1. ASSUME NEW b \in Bets, Admit(b) PROVE TypeInv'
  <2>1. req' \in [Bets -> RequestType] /\ PeersOwned'
    BY <1>1, NewRequestTyped, RequestTyped DEF Admit
  <2> QED BY <1>1, <2>1 DEF Admit, TypeOK, wallets, rows, switches
<1>2. ASSUME NEW b \in Bets, BeginPlacement(b) PROVE TypeInv'
  <2> DEFINE began == [pc |-> "began", balance |-> balance[Owner[b]],
                       liability |-> liability[Owner[b]], peers |-> {}, delta |-> 0]
  <2>1. began \in RequestType /\ began.peers = {}
    BY OpenBetsAssumption DEF TypeOK, RequestType
  <2>2. \/ req' = [req EXCEPT ![b] = began]
        \/ req' = [req EXCEPT ![b] = Request("rejected")]
    BY <1>2 DEF BeginPlacement
  <2> HIDE DEF began
  <2>3. req' \in [Bets -> RequestType] /\ PeersOwned'
    BY <2>1, <2>2, NewRequestTyped, RequestTyped
  <2> QED BY <1>2, <2>3 DEF BeginPlacement, TypeOK, wallets, rows, switches
<1>3. ASSUME NEW b \in Bets, PricePlacement(b) PROVE TypeInv'
  <2> DEFINE u == Owner[b]
             peers == SameMarket(Pending(u), b)
             mine  == SameBook(peers, b)
             delta == BookExposure(mine \union {b}) - BookExposure(mine)
             priced == [pc |-> "priced", balance |-> req[b].balance,
                        liability |-> req[b].liability, peers |-> peers, delta |-> delta]
  <2>1. u \in Users
    BY OpenBetsAssumption
  <2>2. /\ peers \subseteq BetsOf(u) /\ mine \subseteq BetsOf(u)
        /\ mine \union {b} \subseteq BetsOf(u) /\ peers \subseteq Bets
    BY DEF SameMarket, SameBook, Pending, BetsOf
  <2>3. delta \in Int
    BY <2>1, <2>2, BookExposureType
  <2>4. \/ req' = [req EXCEPT ![b] = priced]
        \/ req' = [req EXCEPT ![b] = Request("rejected")]
    BY <1>3 DEF PricePlacement, TypeOK
  <2>5. priced \in RequestType /\ priced.peers \subseteq BetsOf(u)
    <3> HIDE DEF peers, delta
    <3> QED BY <2>2, <2>3 DEF TypeOK, RequestType
  <2> HIDE DEF priced
  <2>6. req' \in [Bets -> RequestType] /\ PeersOwned'
    BY <2>4, <2>5, NewRequestTyped, RequestTyped
  <2> QED BY <1>3, <2>6 DEF PricePlacement, TypeOK, wallets, rows, switches
<1>4. ASSUME NEW b \in Bets, CommitPlacement(b) PROVE TypeInv'
  <2> DEFINE u == Owner[b]
             S == SameBook(req[b].peers, b) \union {b}
  <2>1. u \in Users
    BY OpenBetsAssumption
  <2>2. BookExposure(S) \in Int
    <3>1. S \subseteq BetsOf(u)
      BY DEF PeersOwned, SameBook, BetsOf
    <3> QED BY <2>1, <3>1, BookExposureType
  <2>3. /\ req[b].balance - req[b].delta \in Int /\ req[b].liability + req[b].delta \in Int
        /\ journal[u] + req[b].delta \in Int
    BY <2>1 DEF TypeOK, RequestType
  <2>4. fancyRow' \in [Users -> [Books -> Int]]
    BY <1>4, <2>2, OpenBetsAssumption DEF CommitPlacement, RowOf, TypeOK
  <2>5. req' \in [Bets -> RequestType] /\ PeersOwned'
    BY <1>4, NewRequestTyped, RequestTyped DEF CommitPlacement
  <2> QED BY <1>4, <2>3, <2>4, <2>5 DEF CommitPlacement, TypeOK, switches
<1>5. ASSUME NEW b \in Bets, FailPlacement(b) PROVE TypeInv'
  <2>1. req' \in [Bets -> RequestType] /\ PeersOwned'
    BY <1>5, NewRequestTyped, RequestTyped DEF FailPlacement
  <2> QED BY <1>5, <2>1 DEF FailPlacement, TypeOK, wallets, rows, switches
<1>6. ASSUME NEW j \in Jobs, NEW b \in Bets, ReadDeletion(j, b) PROVE TypeInv'
  <2> DEFINE before == [u \in Users |-> IF u = Owner[b] THEN liability[u] ELSE 0]
  <2>1. before \in [Users -> Int] /\ DeletedWith(b) \subseteq Bets
    BY DEF TypeOK, DeletedWith, SameBook, Pending, BetsOf
  <2>2. job' = [job EXCEPT ![j] = Job("began", "delete", DeletedWith(b), before, Nothing)]
    BY <1>6 DEF ReadDeletion
  <2> HIDE DEF before
  <2>3. job' \in [Jobs -> JobType]
    BY <2>1, <2>2, JobTyped, NoJobTyped DEF TypeOK
  <2> QED BY <1>6, <2>3 DEF ReadDeletion, TypeOK, PeersOwned, wallets, rows, switches
<1>7. ASSUME NEW j \in Jobs, NEW filter \in CancelFilters, ReadCancellation(j, filter)
      PROVE  TypeInv'
  <2>1. {b \in filter : bet[b] = "PENDING"} \subseteq Bets
    BY OpenBetsAssumption
  <2>2. job' = [job EXCEPT ![j] =
                  Job("read", "cancel", {b \in filter : bet[b] = "PENDING"}, Nothing, Nothing)]
    BY <1>7 DEF ReadCancellation
  <2>3. job' \in [Jobs -> JobType]
    BY <2>1, <2>2, JobTyped, NoJobTyped DEF TypeOK
  <2> QED BY <1>7, <2>3 DEF ReadCancellation, TypeOK, PeersOwned, wallets, rows, switches
<1>8. ASSUME NEW j \in Jobs, BeginCancellation(j) PROVE TypeInv'
  <2> DEFINE S == job[j].bets
             before == [u \in Users |-> IF u \in Concerned(S) THEN liability[u] ELSE 0]
  <2>1. before \in [Users -> Int] /\ S \in SUBSET Bets
    BY DEF TypeOK, JobType
  <2>2. job' = [job EXCEPT ![j] = Job("began", "cancel", S, before, Nothing)]
    BY <1>8 DEF BeginCancellation
  <2> HIDE DEF before, S
  <2>3. job' \in [Jobs -> JobType]
    BY <2>1, <2>2, JobTyped, NoJobTyped DEF TypeOK
  <2> QED BY <1>8, <2>3 DEF BeginCancellation, TypeOK, PeersOwned, wallets, rows, switches
<1>9. ASSUME NEW j \in Jobs, Recalculate(j) PROVE TypeInv'
  <2> DEFINE S == job[j].bets
             after == [u \in Users |-> IF u \in Concerned(S) THEN Exposure(Pending(u) \ S) ELSE 0]
  <2>1. after \in [Users -> Int]
    <3>1. ASSUME NEW u \in Users PROVE Exposure(Pending(u) \ S) \in Int
      <4>1. Pending(u) \ S \subseteq BetsOf(u)
        BY DEF Pending
      <4> QED BY <4>1, BookExposureType
    <3> QED BY <3>1
  <2>2. job' = [job EXCEPT ![j] = Job("recalculated", job[j].kind, S, job[j].before, after)]
    BY <1>9 DEF Recalculate, TypeOK
  <2>3. S \in SUBSET Bets /\ job[j].kind \in {"delete", "cancel"} /\ job[j].before \in [Users -> Int]
    BY DEF TypeOK, JobType
  <2>5. UNCHANGED <<wallets, rows, switches, req, moving>>
    BY <1>9 DEF Recalculate
  <2> HIDE DEF after, S
  <2>4. job' \in [Jobs -> JobType]
    BY <2>1, <2>2, <2>3, JobTyped DEF TypeOK
  <2> QED BY <2>4, <2>5 DEF TypeOK, PeersOwned, wallets, rows, switches
<1>10. ASSUME NEW j \in Jobs, CommitJob(j) PROVE TypeInv'
  <2>1. liability' \in [Users -> Int]
    BY <1>10 DEF CommitJob, TypeOK, JobType
  <2>2. balance' \in [Users -> Int] /\ journal' \in [Users -> Int]
    BY <1>10, RefundType DEF CommitJob, TypeOK
  <2>3. bet' \in [Bets -> BetStatus]
    BY <1>10 DEF CommitJob, TypeOK
  <2>4. job' \in [Jobs -> JobType]
    BY <1>10, NoJobTyped DEF CommitJob, TypeOK
  <2> QED BY <1>10, <2>1, <2>2, <2>3, <2>4 DEF CommitJob, TypeOK, PeersOwned, switches
<1>11. ASSUME NEW j \in Jobs, FailJob(j) PROVE TypeInv'
  <2>1. job' \in [Jobs -> JobType]
    BY <1>11, NoJobTyped DEF FailJob, TypeOK
  <2> QED BY <1>11, <2>1 DEF FailJob, TypeOK, PeersOwned, wallets, rows, switches
<1>12. ASSUME NEW t \in Transfers, CheckTransfer(t) \/ CommitTransfer(t) PROVE TypeInv'
  <2>1. t.amount \in Int /\ t.user \in Users
    BY OpenBetsAssumption
  <2> QED BY <1>12, <2>1 DEF CheckTransfer, CommitTransfer, TypeOK, PeersOwned, wallets, rows, switches
<1>13. ASSUME NEW u \in Stoppable, SwitchBetting(u) PROVE TypeInv'
  BY <1>13 DEF SwitchBetting, TypeOK, PeersOwned, wallets, rows
<1>14. ASSUME NEW k \in Blockable, SwitchBook(k) PROVE TypeInv'
  BY <1>14, OpenBetsAssumption DEF SwitchBook, TypeOK, PeersOwned, wallets, rows
<1>15. CASE UNCHANGED vars
  BY <1>15 DEF vars, TypeOK, PeersOwned
<1> QED
  BY <1>1, <1>2, <1>3, <1>4, <1>5, <1>6, <1>7, <1>8, <1>9, <1>10, <1>11, <1>12, <1>13, <1>14, <1>15
     DEF Next, PlacementStep, JobStep

\* Every variable keeps its type, whatever operations overlap.
THEOREM TypeInvariant == Spec => []TypeOK
<1>1. TypeInv => TypeOK
  BY DEF TypeInv
<1> QED BY <1>1, TypeInit, TypeStep, PTL DEF Spec

-----------------------------------------------------------------------------
(* What the steps do. *)

\* What kinds of steps there are.
LEMMA StepKinds ==
  ASSUME [Next]_vars
  PROVE  \/ \E b \in Bets : PlacementStep(b) /\ ~CommitPlacement(b)
         \/ \E b \in Bets : CommitPlacement(b)
         \/ \E j \in Jobs : JobStep(j) /\ ~CommitJob(j)
         \/ \E j \in Jobs : CommitJob(j)
         \/ \E t \in Transfers : CheckTransfer(t)
         \/ \E t \in Transfers : CommitTransfer(t)
         \/ UNCHANGED <<wallets, rows, req, job, moving>>
<1>1. ASSUME NEW b \in Bets, PlacementStep(b)
      PROVE  (PlacementStep(b) /\ ~CommitPlacement(b)) \/ CommitPlacement(b)
  BY <1>1
<1>2. ASSUME NEW j \in Jobs, JobStep(j) PROVE (JobStep(j) /\ ~CommitJob(j)) \/ CommitJob(j)
  BY <1>2
<1>3. ASSUME \/ \E u \in Stoppable : SwitchBetting(u)
             \/ \E k \in Blockable : SwitchBook(k)
             \/ UNCHANGED vars
      PROVE  UNCHANGED <<wallets, rows, req, job, moving>>
  BY <1>3 DEF SwitchBetting, SwitchBook, vars, wallets, rows
<1> QED BY <1>1, <1>2, <1>3 DEF Next

\* A client whose bet rows do not change has the same open bets.
LEMMA PendingSame ==
  ASSUME NEW u \in Users, \A b \in BetsOf(u) : bet'[b] = bet[b]
  PROVE  Pending(u)' = Pending(u)
BY DEF Pending

\* Open bets are those of their client.
LEMMA PendingOwned ==
  ASSUME NEW u \in Users, NEW S
  PROVE  Pending(u) \in SUBSET BetsOf(u) /\ Pending(u) \ S \in SUBSET BetsOf(u)
BY DEF Pending

\* The client and the wallet as the transaction of a placement has read them.
ReadBy(b) ==
  /\ req[b].pc = "admitted"
  /\ MayStart("place", Owner[b])
  /\ req'[b].pc = "began"
  /\ req'[b].balance = balance[Owner[b]]
  /\ req'[b].liability = liability[Owner[b]]

\* The price of a placement, from the open bets it has read.
PricedBy(b) ==
  LET peers == SameMarket(Pending(Owner[b]), b)
      mine  == SameBook(peers, b)
      delta == BookExposure(mine \union {b}) - BookExposure(mine)
  IN
  /\ req[b].pc = "began"
  /\ ~MatchBusy(b)
  /\ Accepts(b, mine, delta)
  /\ req'[b] = [pc |-> "priced", balance |-> req[b].balance, liability |-> req[b].liability,
                peers |-> peers, delta |-> delta]

\* What pricing a bet writes down.
LEMMA PricedFacts ==
  ASSUME NEW b \in Bets, PricedBy(b)
  PROVE  LET peers == SameMarket(Pending(Owner[b]), b)
             mine  == SameBook(peers, b)
             delta == BookExposure(mine \union {b}) - BookExposure(mine)
         IN
         /\ req[b].pc = "began" /\ req'[b].pc = "priced"
         /\ ~MatchBusy(b)
         /\ req'[b].balance = req[b].balance /\ req'[b].liability = req[b].liability
         /\ req'[b].peers = peers /\ req'[b].delta = delta
         /\ WithinLimit(mine \union {b})
         /\ delta > 0 => delta <= req[b].balance
<1> DEFINE peers == SameMarket(Pending(Owner[b]), b)
           mine  == SameBook(peers, b)
           delta == BookExposure(mine \union {b}) - BookExposure(mine)
<1>1. /\ req[b].pc = "began" /\ ~MatchBusy(b)
      /\ WithinLimit(mine \union {b})
      /\ delta > 0 => delta <= req[b].balance
      /\ req'[b] = [pc |-> "priced", balance |-> req[b].balance,
                    liability |-> req[b].liability, peers |-> peers, delta |-> delta]
  BY DEF PricedBy, Accepts
<1> HIDE DEF peers, mine, delta
<1> QED BY <1>1 DEF peers, mine, delta

\* Up to its commit a placement changes nothing but its request.
LEMMA PlacementGoesOn ==
  ASSUME TypeInv, NEW b \in Bets, PlacementStep(b), ~CommitPlacement(b)
  PROVE  /\ UNCHANGED <<wallets, rows, job, moving>>
         /\ \A c \in Bets \ {b} : req'[c] = req[c]
         /\ \/ req'[b].pc = "admitted" /\ req[b].pc = "idle"
            \/ req'[b].pc = "rejected"
            \/ ReadBy(b)
            \/ PricedBy(b)
<1>1. req \in [Bets -> RequestType]
  BY DEF TypeInv, TypeOK
<1>2. CASE Admit(b)
  BY <1>1, <1>2 DEF Admit, Request
<1>3. CASE BeginPlacement(b)
  BY <1>1, <1>3 DEF BeginPlacement, Request, ReadBy
<1>4. CASE PricePlacement(b)
  <2> DEFINE peers == SameMarket(Pending(Owner[b]), b)
             mine  == SameBook(peers, b)
             delta == BookExposure(mine \union {b}) - BookExposure(mine)
  <2>1. /\ req[b].pc = "began" /\ ~MatchBusy(b)
        /\ req' = [req EXCEPT ![b] =
                     IF Accepts(b, mine, delta)
                     THEN [pc |-> "priced", balance |-> @.balance, liability |-> @.liability,
                           peers |-> peers, delta |-> delta]
                     ELSE Request("rejected")]
    BY <1>4 DEF PricePlacement
  <2>2. PricedBy(b) <=>
          /\ req[b].pc = "began" /\ ~MatchBusy(b) /\ Accepts(b, mine, delta)
          /\ req'[b] = [pc |-> "priced", balance |-> req[b].balance,
                        liability |-> req[b].liability, peers |-> peers, delta |-> delta]
    BY DEF PricedBy
  <2> HIDE DEF peers, mine, delta
  <2>3. PricedBy(b) \/ req'[b].pc = "rejected"
    BY <1>1, <2>1, <2>2 DEF Request
  <2>4. \A c \in Bets \ {b} : req'[c] = req[c]
    BY <1>1, <2>1
  <2> QED BY <1>4, <2>3, <2>4 DEF PricePlacement
<1>5. CASE FailPlacement(b)
  BY <1>1, <1>5 DEF FailPlacement, Request
<1> QED BY <1>2, <1>3, <1>4, <1>5 DEF PlacementStep

\* Its commit writes values computed from what it has read.
LEMMA PlacementCommits ==
  ASSUME TypeInv, NEW b \in Bets, CommitPlacement(b)
  PROVE  LET u == Owner[b] IN
         /\ u \in Users /\ req[b].pc = "priced" /\ Placing(b)
         /\ req[b].balance \in Int /\ req[b].liability \in Int /\ req[b].delta \in Int
         /\ balance'[u] = req[b].balance - req[b].delta
         /\ liability'[u] = req[b].liability + req[b].delta
         /\ journal'[u] = journal[u] + req[b].delta
         /\ Pending(u)' = Pending(u) \union {b}
         /\ \A v \in Users \ {u} : /\ balance'[v] = balance[v] /\ liability'[v] = liability[v]
                                   /\ journal'[v] = journal[v] /\ Pending(v)' = Pending(v)
         /\ bet'[b] = "PENDING"
         /\ \A c \in Bets \ {b} : bet'[c] = bet[c] /\ req'[c] = req[c]
         /\ req'[b].pc = "placed"
         /\ UNCHANGED <<agent, funded, job, moving>>
<1> DEFINE u == Owner[b]
<1>1. /\ u \in Users /\ req[b].pc = "priced" /\ Placing(b)
      /\ req[b].balance \in Int /\ req[b].liability \in Int /\ req[b].delta \in Int
  BY OpenBetsAssumption DEF CommitPlacement, Placing, TypeInv, TypeOK, RequestType
<1>2. /\ balance' = [balance EXCEPT ![u] = req[b].balance - req[b].delta]
      /\ liability' = [liability EXCEPT ![u] = req[b].liability + req[b].delta]
      /\ journal' = [journal EXCEPT ![u] = journal[u] + req[b].delta]
      /\ bet' = [bet EXCEPT ![b] = "PENDING"]
      /\ req' = [req EXCEPT ![b] = Request("placed")]
      /\ UNCHANGED <<agent, funded, job, moving>>
  BY DEF CommitPlacement, TypeInv, TypeOK
<1>3. bet'[b] = "PENDING" /\ \A c \in Bets \ {b} : bet'[c] = bet[c] /\ req'[c] = req[c]
  BY <1>2 DEF TypeInv, TypeOK
<1>4. req'[b].pc = "placed"
  BY <1>2 DEF Request, TypeInv, TypeOK
<1>5. Pending(u)' = Pending(u) \union {b}
  BY <1>3 DEF Pending, BetsOf
<1>6. ASSUME NEW v \in Users \ {u} PROVE Pending(v)' = Pending(v)
  BY <1>3, PendingSame DEF BetsOf
<1>7. /\ balance'[u] = req[b].balance - req[b].delta
      /\ liability'[u] = req[b].liability + req[b].delta
      /\ journal'[u] = journal[u] + req[b].delta
      /\ \A v \in Users \ {u} : balance'[v] = balance[v] /\ liability'[v] = liability[v]
                                /\ journal'[v] = journal[v]
  BY <1>1, <1>2 DEF TypeInv, TypeOK
<1> HIDE DEF u
<1> QED BY <1>1, <1>2, <1>3, <1>4, <1>5, <1>6, <1>7 DEF u

\* How an administrator's request comes by its bets.
TakenOut(j) ==
  \/ \E b \in Bets : /\ bet[b] = "PENDING"
                     /\ MayStart("admin", Owner[b])
                     /\ job'[j].bets = DeletedWith(b)
  \/ \E filter \in CancelFilters :
       /\ job'[j].bets = {b \in filter : bet[b] = "PENDING"}
       /\ \A u \in Concerned(job'[j].bets) : MayStart("admin", u)

\* A deletion takes out bets of one client.
LEMMA DeletionOfOne ==
  ASSUME TypeInv, NEW b \in Bets, bet[b] = "PENDING"
  PROVE  /\ Owner[b] \in Users /\ BookOf[b] \in Books /\ b \in Pending(Owner[b])
         /\ DeletedWith(b) \subseteq Pending(Owner[b])
         /\ Concerned(DeletedWith(b)) = {Owner[b]}
<1>1. Owner[b] \in Users /\ BookOf[b] \in Books /\ b \in Pending(Owner[b])
  BY OpenBetsAssumption DEF Pending, BetsOf
<1>2. DeletedWith(b) \subseteq Pending(Owner[b]) /\ b \in DeletedWith(b)
  BY <1>1 DEF DeletedWith, SameBook
<1>3. \A c \in DeletedWith(b) : Owner[c] = Owner[b]
  BY <1>2 DEF Pending, BetsOf
<1> QED BY <1>1, <1>2, <1>3 DEF Concerned

\* Up to its commit it changes nothing but its job.
LEMMA JobGoesOn ==
  ASSUME TypeInv, NEW j \in Jobs, JobStep(j), ~CommitJob(j)
  PROVE  /\ UNCHANGED <<wallets, rows, req, moving>>
         /\ \A k \in Jobs \ {j} : job'[k] = job[k]
         /\ Running(j)' => \/ Running(j) /\ job'[j].bets = job[j].bets
                           \/ TakenOut(j)
         /\ job'[j].pc \in {"read", "began"} =>
              \A u \in Users :
                /\ job'[j].after[u] = 0
                /\ job'[j].before[u] =
                     IF job'[j].pc = "began" /\ u \in Concerned(job'[j].bets)
                     THEN liability[u] ELSE 0
         /\ job'[j].pc = "recalculated" =>
              /\ job[j].pc = "began"
              /\ job'[j].bets = job[j].bets /\ job'[j].before = job[j].before
              /\ job[j].bets \intersect Locked = {}
              /\ \A u \in Users : job'[j].after[u] =
                   IF u \in Concerned(job[j].bets) THEN Exposure(Pending(u) \ job[j].bets) ELSE 0
<1>1. job \in [Jobs -> JobType]
  BY DEF TypeInv, TypeOK
<1>2. ASSUME NEW b \in Bets, ReadDeletion(j, b)
      PROVE  /\ job'[j].pc = "began" /\ job'[j].bets = DeletedWith(b)
             /\ \A k \in Jobs \ {j} : job'[k] = job[k]
             /\ \A u \in Users : job'[j].after[u] = 0 /\ job'[j].before[u] =
                  IF u \in Concerned(DeletedWith(b)) THEN liability[u] ELSE 0
             /\ TakenOut(j)
  <2>1. /\ job'[j].pc = "began" /\ job'[j].bets = DeletedWith(b)
        /\ \A k \in Jobs \ {j} : job'[k] = job[k]
        /\ job'[j].before = [u \in Users |-> IF u = Owner[b] THEN liability[u] ELSE 0]
        /\ job'[j].after = Nothing
    BY <1>1, <1>2 DEF ReadDeletion, Job
  <2>2. Concerned(DeletedWith(b)) = {Owner[b]}
    BY <1>2, DeletionOfOne DEF ReadDeletion
  <2>3. TakenOut(j)
    BY <1>2, <2>1 DEF TakenOut, ReadDeletion
  <2> QED BY <2>1, <2>2, <2>3 DEF Nothing
<1>3. ASSUME NEW filter \in CancelFilters, ReadCancellation(j, filter)
      PROVE  /\ job'[j].pc = "read" /\ \A k \in Jobs \ {j} : job'[k] = job[k]
             /\ \A u \in Users : job'[j].after[u] = 0 /\ job'[j].before[u] = 0
             /\ TakenOut(j)
  <2>1. /\ job'[j].pc = "read" /\ job'[j].bets = {b \in filter : bet[b] = "PENDING"}
        /\ \A k \in Jobs \ {j} : job'[k] = job[k]
        /\ job'[j].before = Nothing /\ job'[j].after = Nothing
    BY <1>1, <1>3 DEF ReadCancellation, Job
  <2>2. TakenOut(j)
    BY <1>3, <2>1 DEF TakenOut, ReadCancellation
  <2> QED BY <2>1, <2>2 DEF Nothing
<1>4. ASSUME BeginCancellation(j)
      PROVE  /\ Running(j) /\ job'[j].pc = "began" /\ job'[j].bets = job[j].bets
             /\ \A k \in Jobs \ {j} : job'[k] = job[k]
             /\ \A u \in Users : job'[j].after[u] = 0 /\ job'[j].before[u] =
                  IF u \in Concerned(job[j].bets) THEN liability[u] ELSE 0
  BY <1>1, <1>4 DEF BeginCancellation, Job, Nothing, Running
<1>5. ASSUME Recalculate(j)
      PROVE  /\ job[j].pc = "began" /\ job'[j].pc = "recalculated" /\ Running(j)
             /\ job'[j].bets = job[j].bets /\ job'[j].before = job[j].before
             /\ job[j].bets \intersect Locked = {}
             /\ \A k \in Jobs \ {j} : job'[k] = job[k]
             /\ \A u \in Users : job'[j].after[u] =
                  IF u \in Concerned(job[j].bets) THEN Exposure(Pending(u) \ job[j].bets) ELSE 0
  BY <1>1, <1>5 DEF Recalculate, Job, Running
<1>6. ASSUME FailJob(j)
      PROVE  job'[j].pc = "idle" /\ \A k \in Jobs \ {j} : job'[k] = job[k]
  BY <1>1, <1>6 DEF FailJob, NoJob, Job
<1>7. UNCHANGED <<wallets, rows, req, moving>>
  BY DEF JobStep, ReadDeletion, ReadCancellation, BeginCancellation, Recalculate, FailJob
<1> QED BY <1>2, <1>3, <1>4, <1>5, <1>6, <1>7 DEF JobStep, Running

\* Its commit takes out its bets, sets the liabilities it has computed and
\* gives back the difference to the liabilities it has read.
LEMMA JobCommits ==
  ASSUME TypeInv, NEW j \in Jobs, CommitJob(j)
  PROVE  LET S == job[j].bets IN
         /\ job[j].pc = "recalculated" /\ Running(j) /\ job'[j].pc = "idle"
         /\ \A k \in Jobs \ {j} : job'[k] = job[k]
         /\ \A u \in Users :
              /\ balance'[u] = balance[u] + Refund(j, u)
              /\ journal'[u] = journal[u] - Refund(j, u)
              /\ Refund(j, u) \in Nat
              /\ liability'[u] = IF u \in Concerned(S) THEN job[j].after[u] ELSE liability[u]
              /\ Pending(u)' = Pending(u) \ S
              /\ u \notin Concerned(S) => Pending(u)' = Pending(u)
         /\ \A b \in Bets \ S : bet'[b] = bet[b]
         /\ \A b \in S : bet'[b] \in {"DELETED", "CANCELLED"}
         /\ UNCHANGED <<agent, funded, fancyRow, req, moving>>
<1> DEFINE S == job[j].bets
<1>1. /\ job[j].pc = "recalculated" /\ Running(j) /\ job'[j].pc = "idle"
      /\ \A k \in Jobs \ {j} : job'[k] = job[k]
      /\ S \subseteq Bets
  BY DEF CommitJob, Running, NoJob, Job, TypeInv, TypeOK, JobType
<1>2. /\ \A b \in Bets \ S : bet'[b] = bet[b]
      /\ \A b \in S : bet'[b] \in {"DELETED", "CANCELLED"}
  BY <1>1 DEF CommitJob
<1>3. ASSUME NEW u \in Users
      PROVE  /\ balance'[u] = balance[u] + Refund(j, u)
             /\ journal'[u] = journal[u] - Refund(j, u)
             /\ Refund(j, u) \in Nat
             /\ liability'[u] = IF u \in Concerned(S) THEN job[j].after[u] ELSE liability[u]
  BY RefundType DEF CommitJob, TypeInv
<1>4. ASSUME NEW u \in Users
      PROVE  /\ Pending(u)' = Pending(u) \ S
             /\ u \notin Concerned(S) => Pending(u)' = Pending(u)
  BY <1>1, <1>2 DEF Pending, BetsOf, Concerned
<1> QED BY <1>1, <1>2, <1>3, <1>4 DEF CommitJob

\* What a client receives by a transfer.
Received(t) == IF t.type = "TOPUP" THEN t.amount ELSE -t.amount

\* What the commit of a transfer does.
LEMMA TransferCommits ==
  ASSUME TypeInv, NEW t \in Transfers, CommitTransfer(t)
  PROVE  /\ t \in moving /\ moving' = moving \ {t}
         /\ t.user \in Users /\ t.type \in {"TOPUP", "TOPDOWN"} /\ t.amount \in Nat
         /\ Received(t) \in Int
         /\ agent' = agent - Received(t)
         /\ balance'[t.user] = balance[t.user] + Received(t)
         /\ funded'[t.user] = funded[t.user] + Received(t)
         /\ \A v \in Users \ {t.user} : balance'[v] = balance[v] /\ funded'[v] = funded[v]
         /\ UNCHANGED <<liability, journal, rows, req, job>>
<1>1. t.user \in Users /\ t.type \in {"TOPUP", "TOPDOWN"} /\ t.amount \in Nat
  BY OpenBetsAssumption
<1> QED BY <1>1 DEF CommitTransfer, Received, TypeInv, TypeOK

-----------------------------------------------------------------------------
(* What may be in flight at once, whatever Overlap allows. *)

PlacementsApart ==
  \A b, c \in Bets : Placing(b) /\ Placing(c) /\ Owner[b] = Owner[c] => b = c

JobsApart ==
  \A j, k \in Jobs : Running(j) /\ Running(k) /\ j # k =>
    \A u \in Users : ~(u \in Concerned(job[j].bets) /\ u \in Concerned(job[k].bets))

TransfersApart == \A s, t \in moving : s = t

PlacementsFromJobs ==
  \A b \in Bets, j \in Jobs : Placing(b) /\ Running(j) => Owner[b] \notin Concerned(job[j].bets)

PlacementsFromTransfers == \A b \in Bets : \A t \in moving : Placing(b) => Owner[b] # t.user

JobsFromTransfers ==
  \A j \in Jobs : \A t \in moving : Running(j) => t.user \notin Concerned(job[j].bets)

\* Two operations that may not overlap are never in flight on one wallet.
Excluded ==
  /\ "place" \in Overlap \/ PlacementsApart
  /\ "admin" \in Overlap \/ JobsApart
  /\ "transfer" \in Overlap \/ TransfersApart
  /\ {"place", "admin"} \subseteq Overlap \/ PlacementsFromJobs
  /\ {"place", "transfer"} \subseteq Overlap \/ PlacementsFromTransfers
  /\ {"admin", "transfer"} \subseteq Overlap \/ JobsFromTransfers

\* An operation starts on a wallet on which only those it may overlap are in
\* flight.
LEMMA Starts ==
  ASSUME NEW u \in Users, NEW operation, MayStart(operation, u)
  PROVE  /\ \A b \in Bets : Placing(b) /\ Owner[b] = u => {"place", operation} \subseteq Overlap
         /\ \A j \in Jobs : Running(j) /\ u \in Concerned(job[j].bets)
                              => {"admin", operation} \subseteq Overlap
         /\ \A t \in moving : t.user = u => {"transfer", operation} \subseteq Overlap
<1>1. ASSUME NEW b \in Bets, Placing(b), Owner[b] = u PROVE "place" \in InFlight(u)
  BY <1>1 DEF InFlight, BetsOf
<1>2. ASSUME NEW j \in Jobs, Running(j), u \in Concerned(job[j].bets) PROVE "admin" \in InFlight(u)
  BY <1>2 DEF InFlight
<1>3. ASSUME NEW t \in moving, t.user = u PROVE "transfer" \in InFlight(u)
  BY <1>3 DEF InFlight
<1> QED BY <1>1, <1>2, <1>3 DEF MayStart

\* Requests that go on or end exclude what they have excluded.
LEMMA ExcludedKept ==
  ASSUME Excluded,
         \A b \in Bets : Placing(b)' => Placing(b),
         \A j \in Jobs : Running(j)' => Running(j) /\ job'[j].bets = job[j].bets,
         moving' \subseteq moving
  PROVE  Excluded'
BY DEF Excluded, PlacementsApart, JobsApart, TransfersApart, PlacementsFromJobs,
       PlacementsFromTransfers, JobsFromTransfers, Concerned

\* So does a placement that starts,
LEMMA PlacementStarts ==
  ASSUME Excluded, NEW b \in Bets, MayStart("place", Owner[b]),
         \A c \in Bets \ {b} : req'[c] = req[c], job' = job, moving' = moving
  PROVE  Excluded'
<1> DEFINE u == Owner[b]
<1>1. u \in Users
  BY OpenBetsAssumption
<1>2. /\ \A c \in Bets : Placing(c) /\ Owner[c] = u => "place" \in Overlap
      /\ \A j \in Jobs : Running(j) /\ u \in Concerned(job[j].bets)
                           => {"place", "admin"} \subseteq Overlap
      /\ \A t \in moving : t.user = u => {"place", "transfer"} \subseteq Overlap
  <2> HIDE DEF u
  <2>1. /\ \A c \in Bets : Placing(c) /\ Owner[c] = u => {"place", "place"} \subseteq Overlap
        /\ \A j \in Jobs : Running(j) /\ u \in Concerned(job[j].bets)
                             => {"admin", "place"} \subseteq Overlap
        /\ \A t \in moving : t.user = u => {"transfer", "place"} \subseteq Overlap
    BY <1>1, Starts DEF u
  <2> QED BY <2>1
<1>3. \A c \in Bets \ {b} : Placing(c)' <=> Placing(c)
  BY DEF Placing
<1>4. \A j \in Jobs : Running(j)' <=> Running(j)
  BY DEF Running
<1>5. "place" \in Overlap \/ PlacementsApart'
  BY <1>2, <1>3 DEF Excluded, PlacementsApart
<1>6. {"place", "admin"} \subseteq Overlap \/ PlacementsFromJobs'
  BY <1>2, <1>3, <1>4 DEF Excluded, PlacementsFromJobs, Concerned
<1>7. {"place", "transfer"} \subseteq Overlap \/ PlacementsFromTransfers'
  BY <1>2, <1>3 DEF Excluded, PlacementsFromTransfers
<1> QED BY <1>4, <1>5, <1>6, <1>7
        DEF Excluded, JobsApart, TransfersApart, JobsFromTransfers, Concerned

\* a job whose bets are chosen,
LEMMA JobStarts ==
  ASSUME TypeInv, Excluded, NEW j \in Jobs, TakenOut(j),
         \A k \in Jobs \ {j} : job'[k] = job[k], req' = req, moving' = moving
  PROVE  Excluded'
<1> DEFINE S == job'[j].bets
<1>1. \A u \in Users : u \in Concerned(S) => MayStart("admin", u)
  BY DeletionOfOne DEF TakenOut
<1>2. ASSUME NEW u \in Users, u \in Concerned(S)
      PROVE  /\ \A b \in Bets : Placing(b) /\ Owner[b] = u => {"place", "admin"} \subseteq Overlap
             /\ \A k \in Jobs : Running(k) /\ u \in Concerned(job[k].bets) => "admin" \in Overlap
             /\ \A t \in moving : t.user = u => {"admin", "transfer"} \subseteq Overlap
  <2>1. /\ \A b \in Bets : Placing(b) /\ Owner[b] = u => {"place", "admin"} \subseteq Overlap
        /\ \A k \in Jobs : Running(k) /\ u \in Concerned(job[k].bets)
                             => {"admin", "admin"} \subseteq Overlap
        /\ \A t \in moving : t.user = u => {"transfer", "admin"} \subseteq Overlap
    BY <1>1, <1>2, Starts
  <2> QED BY <2>1
<1>3. \A b \in Bets : (Placing(b)' <=> Placing(b)) /\ Owner[b] \in Users
  BY OpenBetsAssumption DEF Placing
<1>4. \A k \in Jobs \ {j} : (Running(k)' <=> Running(k)) /\ job'[k].bets = job[k].bets
  BY DEF Running
<1>5. \A t \in moving : t.user \in Users
  BY OpenBetsAssumption DEF TypeInv, TypeOK
<1> HIDE DEF S
<1>6. "admin" \in Overlap \/ JobsApart'
  BY <1>2, <1>4 DEF Excluded, JobsApart, Concerned, S
<1>7. {"place", "admin"} \subseteq Overlap \/ PlacementsFromJobs'
  BY <1>2, <1>3, <1>4 DEF Excluded, PlacementsFromJobs, Concerned, S
<1>8. {"admin", "transfer"} \subseteq Overlap \/ JobsFromTransfers'
  BY <1>2, <1>4, <1>5 DEF Excluded, JobsFromTransfers, Concerned, S
<1> QED BY <1>3, <1>6, <1>7, <1>8
        DEF Excluded, PlacementsApart, TransfersApart, PlacementsFromTransfers

\* and a transfer.
LEMMA TransferStarts ==
  ASSUME Excluded, NEW t \in Transfers, CheckTransfer(t)
  PROVE  Excluded'
<1>1. /\ t.user \in Users /\ MayStart("transfer", t.user) /\ moving' = moving \union {t}
      /\ moving = {} \/ "transfer" \in Overlap
      /\ req' = req /\ job' = job
  BY OpenBetsAssumption DEF CheckTransfer
<1>2. /\ \A b \in Bets : Placing(b) /\ Owner[b] = t.user => {"place", "transfer"} \subseteq Overlap
      /\ \A j \in Jobs : Running(j) /\ t.user \in Concerned(job[j].bets)
                           => {"admin", "transfer"} \subseteq Overlap
  BY <1>1, Starts
<1>3. /\ \A b \in Bets : Placing(b)' <=> Placing(b)
      /\ \A j \in Jobs : (Running(j)' <=> Running(j)) /\ job'[j].bets = job[j].bets
  BY <1>1 DEF Placing, Running
<1>4. "transfer" \in Overlap \/ TransfersApart'
  BY <1>1 DEF TransfersApart
<1>5. {"place", "transfer"} \subseteq Overlap \/ PlacementsFromTransfers'
  BY <1>1, <1>2, <1>3 DEF Excluded, PlacementsFromTransfers
<1>6. {"admin", "transfer"} \subseteq Overlap \/ JobsFromTransfers'
  BY <1>1, <1>2, <1>3 DEF Excluded, JobsFromTransfers, Concerned
<1> QED BY <1>3, <1>4, <1>5, <1>6
        DEF Excluded, PlacementsApart, JobsApart, PlacementsFromJobs, Concerned

\* What may not overlap asks first whether it may start.
LEMMA ExcludedStep ==
  ASSUME TypeInv, Excluded, [Next]_vars
  PROVE  Excluded'
<1>1. ASSUME NEW b \in Bets, PlacementStep(b), ~CommitPlacement(b) PROVE Excluded'
  <2>1. job' = job /\ moving' = moving /\ \A c \in Bets \ {b} : req'[c] = req[c]
    BY <1>1, PlacementGoesOn
  <2>2. CASE ReadBy(b)
    BY <2>1, <2>2, PlacementStarts DEF ReadBy
  <2>3. CASE ~ReadBy(b)
    <3>1. Placing(b)' => Placing(b)
      BY <1>1, <2>3, PlacementGoesOn, PricedFacts DEF Placing
    <3> QED BY <2>1, <3>1, ExcludedKept DEF Placing, Running
  <2> QED BY <2>2, <2>3
<1>2. ASSUME NEW b \in Bets, CommitPlacement(b) PROVE Excluded'
  <2>1. /\ job' = job /\ moving' = moving /\ \A c \in Bets \ {b} : req'[c] = req[c]
        /\ req'[b].pc = "placed"
    BY <1>2, PlacementCommits
  <2> QED BY <2>1, ExcludedKept DEF Placing, Running
<1>3. ASSUME NEW j \in Jobs, JobStep(j), ~CommitJob(j) PROVE Excluded'
  <2>1. /\ req' = req /\ moving' = moving /\ \A k \in Jobs \ {j} : job'[k] = job[k]
        /\ Running(j)' => (Running(j) /\ job'[j].bets = job[j].bets) \/ TakenOut(j)
    BY <1>3, JobGoesOn
  <2>2. CASE TakenOut(j)
    BY <2>1, <2>2, JobStarts
  <2>3. CASE ~TakenOut(j)
    BY <2>1, <2>3, ExcludedKept DEF Placing, Running
  <2> QED BY <2>2, <2>3
<1>4. ASSUME NEW j \in Jobs, CommitJob(j) PROVE Excluded'
  <2>1. /\ req' = req /\ moving' = moving /\ \A k \in Jobs \ {j} : job'[k] = job[k]
        /\ job'[j].pc = "idle"
    BY <1>4, JobCommits
  <2> QED BY <2>1, ExcludedKept DEF Placing, Running
<1>5. ASSUME NEW t \in Transfers, CheckTransfer(t) PROVE Excluded'
  BY <1>5, TransferStarts
<1>6. ASSUME NEW t \in Transfers, CommitTransfer(t) PROVE Excluded'
  BY <1>6, TransferCommits, ExcludedKept DEF Placing, Running
<1>7. CASE UNCHANGED <<wallets, rows, req, job, moving>>
  BY <1>7, ExcludedKept DEF Placing, Running
<1> QED BY <1>1, <1>2, <1>3, <1>4, <1>5, <1>6, <1>7, StepKinds

(* Rows: what holds of them whatever overlaps. *)

\* There is no row of a bet before its placement commits.
NoRowYet == \A b \in Bets : req[b].pc \in {"idle", "admitted", "began", "priced"} => bet[b] = "none"

\* An administrator's bets have rows, and only their clients' wallets are read.
JobOf(j) ==
  /\ Running(j) => \A b \in job[j].bets : bet[b] # "none"
  /\ \A u \in Users : u \notin Concerned(job[j].bets) =>
       job[j].before[u] = 0 /\ job[j].after[u] = 0

JobsOnRows == \A j \in Jobs : JobOf(j)

\* The row of a match is held by one placement.
MatchesHeld ==
  \A b, c \in Bets : /\ req[b].pc = "priced" /\ req[c].pc = "priced"
                     /\ MatchOf[BookOf[b]] = MatchOf[BookOf[c]]
                     => b = c

\* The rows of bets are held by one job.
BetsHeld ==
  \A j, k \in Jobs : job[j].pc = "recalculated" /\ job[k].pc = "recalculated" /\ j # k =>
    job[j].bets \intersect job[k].bets = {}

Base == TypeInv /\ Excluded /\ NoRowYet /\ JobsOnRows /\ MatchesHeld /\ BetsHeld

LEMMA BaseInit == Init => Base
<1> SUFFICES ASSUME Init PROVE Base
  OBVIOUS
<1>1. TypeInv
  BY TypeInit
<1>2. \A b \in Bets : req[b].pc = "idle" /\ ~Placing(b) /\ bet[b] = "none"
  BY DEF Init, Request, Placing
<1>3. \A j \in Jobs : /\ ~Running(j) /\ job[j].pc = "idle"
                      /\ \A u \in Users : job[j].before[u] = 0 /\ job[j].after[u] = 0
  BY DEF Init, NoJob, Job, Running, Nothing
<1>4. moving = {}
  BY DEF Init
<1>5. Excluded
  BY <1>2, <1>3, <1>4 DEF Excluded, PlacementsApart, JobsApart, TransfersApart,
     PlacementsFromJobs, PlacementsFromTransfers, JobsFromTransfers
<1> QED BY <1>1, <1>2, <1>3, <1>5 DEF Base, NoRowYet, JobsOnRows, JobOf, MatchesHeld, BetsHeld

\* Rows are written under their locks.
LEMMA RowsStep ==
  ASSUME Base, [Next]_vars
  PROVE  NoRowYet' /\ JobsOnRows' /\ MatchesHeld' /\ BetsHeld'
<1> USE DEF Base
<1>1. ASSUME NEW b \in Bets, PlacementStep(b), ~CommitPlacement(b)
      PROVE  NoRowYet' /\ JobsOnRows' /\ MatchesHeld' /\ BetsHeld'
  <2>1. /\ bet' = bet /\ job' = job /\ \A c \in Bets \ {b} : req'[c] = req[c]
        /\ \/ req'[b].pc \in {"admitted", "began"} /\ req[b].pc \in {"idle", "admitted"}
           \/ req'[b].pc = "rejected"
           \/ req'[b].pc = "priced" /\ req[b].pc = "began" /\ ~MatchBusy(b)
    BY <1>1, PlacementGoesOn, PricedFacts DEF rows, ReadBy
  <2>2. NoRowYet'
    BY <2>1 DEF NoRowYet
  <2>3. JobsOnRows' /\ BetsHeld'
    BY <2>1 DEF JobsOnRows, JobOf, Running, BetsHeld, Concerned
  <2>4. MatchesHeld'
    BY <2>1 DEF MatchesHeld, MatchBusy
  <2> QED BY <2>2, <2>3, <2>4
<1>2. ASSUME NEW b \in Bets, CommitPlacement(b)
      PROVE  NoRowYet' /\ JobsOnRows' /\ MatchesHeld' /\ BetsHeld'
  <2>1. /\ job' = job /\ \A c \in Bets \ {b} : req'[c] = req[c] /\ bet'[c] = bet[c]
        /\ req'[b].pc = "placed" /\ bet'[b] = "PENDING"
    BY <1>2, PlacementCommits
  <2>2. \A j \in Jobs : job[j].bets \subseteq Bets
    BY DEF TypeInv, TypeOK, JobType
  <2> QED BY <2>1, <2>2 DEF NoRowYet, JobsOnRows, JobOf, Running, BetsHeld, MatchesHeld, Concerned
<1>3. ASSUME NEW j \in Jobs, JobStep(j), ~CommitJob(j)
      PROVE  NoRowYet' /\ JobsOnRows' /\ MatchesHeld' /\ BetsHeld'
  <2>1. /\ req' = req /\ bet' = bet /\ \A k \in Jobs \ {j} : job'[k] = job[k]
        /\ Running(j)' => (Running(j) /\ job'[j].bets = job[j].bets) \/ TakenOut(j)
    BY <1>3, JobGoesOn DEF rows
  <2>2. NoRowYet' /\ MatchesHeld'
    BY <2>1 DEF NoRowYet, MatchesHeld
  <2>3. TakenOut(j) => \A b \in job'[j].bets : bet[b] = "PENDING"
    BY DeletionOfOne DEF TakenOut, Pending
  <2>4. Running(j)' => \A b \in job'[j].bets : bet'[b] # "none"
    BY <2>1, <2>3 DEF JobsOnRows, JobOf
  <2>5. ASSUME NEW u \in Users, u \notin Concerned(job'[j].bets)
        PROVE  job'[j].before[u] = 0 /\ job'[j].after[u] = 0
    <3>1. CASE job'[j].pc = "idle"
      <4>1. job'[j] = NoJob
        BY <1>3, <3>1 DEF JobStep, ReadDeletion, ReadCancellation, BeginCancellation, Recalculate,
                          FailJob, Job, TypeInv, TypeOK
      <4> QED BY <4>1 DEF NoJob, Job, Nothing
    <3>2. CASE job'[j].pc \in {"read", "began"}
      BY <1>3, <2>5, <3>2, JobGoesOn
    <3>3. CASE job'[j].pc = "recalculated"
      <4>1. /\ job'[j].bets = job[j].bets /\ job'[j].before = job[j].before
            /\ u \notin Concerned(job[j].bets) => job'[j].after[u] = 0
        BY <1>3, <3>3, JobGoesOn
      <4> QED BY <2>5, <4>1 DEF JobsOnRows, JobOf
    <3>4. job'[j].pc \in {"idle", "read", "began", "recalculated"}
      BY TypeStep DEF TypeInv, TypeOK, JobType
    <3> QED BY <3>1, <3>2, <3>3, <3>4
  <2>6. JobsOnRows'
    <3> SUFFICES ASSUME NEW k \in Jobs PROVE JobOf(k)'
      BY DEF JobsOnRows
    <3>1. CASE k = j
      BY <2>4, <2>5, <3>1 DEF JobOf, Concerned
    <3>2. CASE k # j
      BY <2>1, <3>2 DEF JobsOnRows, JobOf, Running, Concerned
    <3> QED BY <3>1, <3>2
  <2>7. BetsHeld'
    <3>1. job'[j].pc = "recalculated" =>
            job'[j].bets = job[j].bets /\ job[j].bets \intersect Locked = {}
      BY <1>3, JobGoesOn
    <3>2. \A k \in Jobs : job[k].pc = "recalculated" => job[k].bets \subseteq Locked
      BY DEF Locked
    <3> QED BY <2>1, <3>1, <3>2 DEF BetsHeld
  <2> QED BY <2>2, <2>6, <2>7
<1>4. ASSUME NEW j \in Jobs, CommitJob(j)
      PROVE  NoRowYet' /\ JobsOnRows' /\ MatchesHeld' /\ BetsHeld'
  <2>1. /\ req' = req /\ \A k \in Jobs \ {j} : job'[k] = job[k]
        /\ Running(j) /\ job'[j].pc = "idle"
        /\ \A b \in Bets \ job[j].bets : bet'[b] = bet[b]
        /\ \A b \in job[j].bets : bet'[b] \in {"DELETED", "CANCELLED"}
    BY <1>4, JobCommits
  <2>2. \A b \in job[j].bets : bet[b] # "none"
    BY <2>1 DEF JobsOnRows, JobOf
  <2>3. NoRowYet' /\ MatchesHeld'
    BY <2>1, <2>2 DEF NoRowYet, MatchesHeld
  <2>4. \A k \in Jobs : job[k].bets \subseteq Bets
    BY DEF TypeInv, TypeOK, JobType
  <2>5. \A b \in Bets : bet[b] # "none" => bet'[b] # "none"
    BY <2>1
  <2>6. job'[j] = NoJob
    BY <1>4 DEF CommitJob, TypeInv, TypeOK
  <2>7. JobsOnRows'
    BY <2>1, <2>4, <2>5, <2>6 DEF JobsOnRows, JobOf, Running, Concerned, NoJob, Job, Nothing
  <2>8. BetsHeld'
    BY <2>1 DEF BetsHeld
  <2> QED BY <2>3, <2>7, <2>8
<1>5. ASSUME \/ \E t \in Transfers : CheckTransfer(t)
             \/ \E t \in Transfers : CommitTransfer(t)
             \/ UNCHANGED <<wallets, rows, req, job, moving>>
      PROVE  NoRowYet' /\ JobsOnRows' /\ MatchesHeld' /\ BetsHeld'
  <2>1. bet' = bet /\ req' = req /\ job' = job
    BY <1>5 DEF CheckTransfer, CommitTransfer, rows
  <2> QED BY <2>1 DEF NoRowYet, JobsOnRows, JobOf, Running, BetsHeld, MatchesHeld, Concerned
<1> QED BY <1>1, <1>2, <1>3, <1>4, <1>5, StepKinds

LEMMA BaseStep == Base /\ [Next]_vars => Base'
BY TypeStep, ExcludedStep, RowsStep DEF Base

\* Operations that may not overlap on a wallet never do, a match is bet on by
\* one transaction at a time, and a bet is taken out by one.
THEOREM HeldByOne ==
  Spec => [](Excluded /\ MatchesHeld /\ BetsHeld)
<1>1. Base => Excluded /\ MatchesHeld /\ BetsHeld
  BY DEF Base
<1> QED BY <1>1, BaseInit, BaseStep, PTL DEF Spec

LEMMA BaseInvariant == Spec => []Base
BY BaseInit, BaseStep, PTL DEF Spec

-----------------------------------------------------------------------------
(* The journal: a placement writes a balance computed from one it has read, *)
(* everything else adds to the balance.  So it is placements that must not  *)
(* overlap.                                                                 *)

\* The balance a placement has read is the client's.
BalanceRead == \A b \in Bets : Placing(b) => req[b].balance = balance[Owner[b]]

JournalInv == BalanceRead /\ JournalExplainsBalance

\* Only placements write balances that they have read.
LEMMA JournalStep ==
  ASSUME "place" \notin Overlap, Base, JournalInv, [Next]_vars
  PROVE  JournalInv'
<1>1. TypeInv /\ PlacementsApart /\ PlacementsFromJobs /\ PlacementsFromTransfers
  BY DEF Base, Excluded
<1>2. \A b \in Bets : Owner[b] \in Users
  BY OpenBetsAssumption
<1>3. \A u \in Users : balance[u] \in Int /\ journal[u] \in Int /\ funded[u] \in Int
  BY <1>1 DEF TypeInv, TypeOK
<1>4. \A u \in Users : balance[u] = funded[u] - journal[u]
  BY DEF JournalInv, JournalExplainsBalance
<1>5. ASSUME NEW b \in Bets, PlacementStep(b), ~CommitPlacement(b) PROVE JournalInv'
  <2>1. /\ UNCHANGED <<balance, journal, funded>>
        /\ \A c \in Bets \ {b} : req'[c] = req[c]
    BY <1>1, <1>5, PlacementGoesOn DEF wallets
  <2>2. Placing(b)' => req'[b].balance = balance[Owner[b]]
    BY <1>1, <1>5, PlacementGoesOn, PricedFacts DEF Placing, ReadBy, JournalInv, BalanceRead
  <2> QED BY <2>1, <2>2 DEF JournalInv, BalanceRead, JournalExplainsBalance, Placing
<1>6. ASSUME NEW b \in Bets, CommitPlacement(b) PROVE JournalInv'
  <2> DEFINE u == Owner[b]
  <2>1. /\ u \in Users /\ Placing(b) /\ req[b].delta \in Int
        /\ balance'[u] = req[b].balance - req[b].delta
        /\ journal'[u] = journal[u] + req[b].delta
        /\ \A v \in Users \ {u} : balance'[v] = balance[v] /\ journal'[v] = journal[v]
        /\ funded' = funded
        /\ req'[b].pc = "placed" /\ \A c \in Bets \ {b} : req'[c] = req[c]
    BY <1>1, <1>6, PlacementCommits
  <2>2. req[b].balance = balance[u]
    BY <2>1 DEF JournalInv, BalanceRead
  <2>3. JournalExplainsBalance'
    BY <1>3, <1>4, <2>1, <2>2 DEF JournalExplainsBalance
  <2>4. BalanceRead'
    <3> SUFFICES ASSUME NEW c \in Bets, Placing(c)' PROVE req'[c].balance = balance'[Owner[c]]
      BY DEF BalanceRead
    <3>1. c # b /\ Placing(c) /\ req'[c] = req[c]
      BY <2>1 DEF Placing
    <3>2. Owner[c] \in Users \ {u}
      BY <1>1, <1>2, <2>1, <3>1 DEF PlacementsApart
    <3> QED BY <2>1, <3>1, <3>2 DEF JournalInv, BalanceRead
  <2> QED BY <2>3, <2>4 DEF JournalInv
<1>7. ASSUME NEW j \in Jobs, JobStep(j), ~CommitJob(j) PROVE JournalInv'
  BY <1>1, <1>7, JobGoesOn DEF JournalInv, BalanceRead, JournalExplainsBalance, wallets, Placing
<1>8. ASSUME NEW j \in Jobs, CommitJob(j) PROVE JournalInv'
  <2>1. /\ Running(j) /\ req' = req /\ funded' = funded
        /\ \A u \in Users : /\ balance'[u] = balance[u] + Refund(j, u)
                            /\ journal'[u] = journal[u] - Refund(j, u)
                            /\ Refund(j, u) \in Int
    BY <1>1, <1>8, JobCommits
  <2>2. JournalExplainsBalance'
    BY <1>3, <1>4, <2>1 DEF JournalExplainsBalance
  <2>3. ASSUME NEW b \in Bets, Placing(b) PROVE balance'[Owner[b]] = balance[Owner[b]]
    <3>1. Owner[b] \in Users /\ Owner[b] \notin Concerned(job[j].bets)
      BY <1>1, <1>2, <2>1, <2>3 DEF PlacementsFromJobs
    <3>2. Refund(j, Owner[b]) = 0
      BY <3>1 DEF Base, JobsOnRows, JobOf, Refund
    <3> QED BY <1>3, <2>1, <3>1, <3>2
  <2> QED BY <2>1, <2>2, <2>3 DEF JournalInv, BalanceRead, Placing
<1>9. ASSUME NEW t \in Transfers, CommitTransfer(t) PROVE JournalInv'
  <2>1. /\ t \in moving /\ t.user \in Users /\ Received(t) \in Int
        /\ balance'[t.user] = balance[t.user] + Received(t)
        /\ funded'[t.user] = funded[t.user] + Received(t)
        /\ \A v \in Users \ {t.user} : balance'[v] = balance[v] /\ funded'[v] = funded[v]
        /\ journal' = journal /\ req' = req
    BY <1>1, <1>9, TransferCommits
  <2>2. JournalExplainsBalance'
    BY <1>3, <1>4, <2>1 DEF JournalExplainsBalance
  <2>3. \A b \in Bets : Placing(b) => balance'[Owner[b]] = balance[Owner[b]]
    BY <1>1, <1>2, <2>1 DEF PlacementsFromTransfers
  <2> QED BY <2>1, <2>2, <2>3 DEF JournalInv, BalanceRead, Placing
<1>10. ASSUME (\E t \in Transfers : CheckTransfer(t)) \/ UNCHANGED <<wallets, rows, req, job, moving>>
       PROVE  JournalInv'
  BY <1>10 DEF CheckTransfer, wallets, JournalInv, BalanceRead, JournalExplainsBalance, Placing
<1> QED BY <1>5, <1>6, <1>7, <1>8, <1>9, <1>10, StepKinds

LEMMA JournalInvariant ==
  ASSUME "place" \notin Overlap
  PROVE  Spec => []JournalInv
<1>1. Init => JournalInv
  BY OpenBetsAssumption DEF Init, JournalInv, BalanceRead, Placing, Request, JournalExplainsBalance
<1> QED BY <1>1, JournalStep, BaseInvariant, PTL DEF Spec

\* The transaction rows explain every balance as long as placements do not
\* overlap with anything on the wallet.
THEOREM JournalCorrect ==
  ASSUME "place" \notin Overlap
  PROVE  Spec => []JournalExplainsBalance
<1>1. JournalInv => JournalExplainsBalance
  BY DEF JournalInv
<1> QED BY <1>1, JournalInvariant, PTL

-----------------------------------------------------------------------------
(* The liability: placements write it from what they have read, jobs from  *)
(* the bets they find open, transfers leave it alone.                      *)

\* A placement's liability is the client's, and its price is right.
LiabilityRead(b) ==
  /\ Placing(b) => req[b].liability = liability[Owner[b]]
  /\ req[b].pc = "priced" =>
       req[b].delta = Exposure(Pending(Owner[b]) \union {b}) - Exposure(Pending(Owner[b]))

\* A job has computed what the bets it leaves lock.
LiabilityComputed(j) ==
  job[j].pc = "recalculated" =>
    \A u \in Users : u \in Concerned(job[j].bets) =>
      job[j].after[u] = Exposure(Pending(u) \ job[j].bets)

LiabilityInv ==
  /\ \A b \in Bets : LiabilityRead(b)
  /\ \A j \in Jobs : LiabilityComputed(j)
  /\ LiabilityIsExposure

\* The bets of a client's market determine what one more bet adds.
LEMMA PriceIsRight ==
  ASSUME NEW b \in Bets, bet[b] # "PENDING"
  PROVE  LET mine == SameBook(SameMarket(Pending(Owner[b]), b), b)
         IN  BookExposure(mine \union {b}) - BookExposure(mine)
               = Exposure(Pending(Owner[b]) \union {b}) - Exposure(Pending(Owner[b]))
<1> DEFINE P == Pending(Owner[b])
<1>1. SameBook(SameMarket(P, b), b) = SameBook(P, b)
  BY DEF SameBook, SameMarket
<1>2. Owner[b] \in Users /\ P \subseteq BetsOf(Owner[b]) /\ b \in BetsOf(Owner[b]) \ P
  BY OpenBetsAssumption DEF Pending, BetsOf
<1>3. Exposure(P \union {b}) - Exposure(P)
        = BookExposure(SameBook(P, b) \union {b}) - BookExposure(SameBook(P, b))
  <2> HIDE DEF P
  <2> QED BY <1>2, ExposureAssumption
<1> QED BY <1>1, <1>3

\* What a placement has read stays so while nobody else writes it.
LEMMA LiabilityReadKept ==
  ASSUME NEW b \in Bets, LiabilityRead(b), req'[b] = req[b],
         liability'[Owner[b]] = liability[Owner[b]],
         Pending(Owner[b])' = Pending(Owner[b])
  PROVE  LiabilityRead(b)'
BY DEF LiabilityRead, Placing

\* So does what a removal has computed.
LEMMA LiabilityComputedKept ==
  ASSUME NEW j \in Jobs, LiabilityComputed(j), job'[j] = job[j],
         \A u \in Users : u \in Concerned(job[j].bets) => Pending(u)' = Pending(u)
  PROVE  LiabilityComputed(j)'
BY DEF LiabilityComputed, Concerned

\* A step that leaves rows and liabilities alone.
LEMMA LiabilityQuiet ==
  ASSUME LiabilityInv, UNCHANGED <<liability, rows>>,
         \A b \in Bets : req'[b] = req[b] \/ LiabilityRead(b)',
         \A j \in Jobs : job'[j] = job[j] \/ LiabilityComputed(j)'
  PROVE  LiabilityInv'
<1>1. \A u \in Users : Pending(u)' = Pending(u)
  BY PendingSame DEF rows
<1>2. \A b \in Bets : LiabilityRead(b)'
  BY <1>1, LiabilityReadKept, OpenBetsAssumption DEF LiabilityInv
<1>3. \A j \in Jobs : LiabilityComputed(j)'
  BY <1>1, LiabilityComputedKept DEF LiabilityInv
<1>4. LiabilityIsExposure'
  BY <1>1 DEF LiabilityInv, LiabilityIsExposure
<1> QED BY <1>2, <1>3, <1>4 DEF LiabilityInv

\* Every commit writes the exposure of what it leaves open.
LEMMA LiabilityStep ==
  ASSUME Overlap \subseteq {"transfer"}, Base, LiabilityInv, [Next]_vars
  PROVE  LiabilityInv'
<1>1. TypeInv /\ PlacementsApart /\ PlacementsFromJobs /\ JobsApart
  BY DEF Base, Excluded
<1>2. \A b \in Bets : Owner[b] \in Users
  BY OpenBetsAssumption
<1>3. \A u \in Users : liability[u] = Exposure(Pending(u))
  BY DEF LiabilityInv, LiabilityIsExposure
<1>4. ASSUME NEW b \in Bets, PlacementStep(b), ~CommitPlacement(b) PROVE LiabilityInv'
  <2>1. /\ UNCHANGED <<liability, rows, job>>
        /\ \A c \in Bets \ {b} : req'[c] = req[c]
        /\ req'[b].pc \in {"admitted", "rejected"} \/ ReadBy(b) \/ PricedBy(b)
    BY <1>1, <1>4, PlacementGoesOn DEF wallets
  <2>2. Pending(Owner[b])' = Pending(Owner[b])
    BY <1>2, <2>1, PendingSame DEF rows
  <2>3. CASE PricedBy(b)
    <3> DEFINE mine == SameBook(SameMarket(Pending(Owner[b]), b), b)
    <3>1. /\ req[b].pc = "began" /\ req'[b].pc = "priced"
          /\ req'[b].liability = req[b].liability
          /\ req'[b].delta = BookExposure(mine \union {b}) - BookExposure(mine)
      BY <2>3, PricedFacts
    <3>2. bet[b] = "none"
      BY <3>1 DEF Base, NoRowYet
    <3>3. req'[b].delta = Exposure(Pending(Owner[b]) \union {b}) - Exposure(Pending(Owner[b]))
      BY <3>1, <3>2, PriceIsRight
    <3>4. req[b].liability = liability[Owner[b]]
      BY <3>1 DEF LiabilityInv, LiabilityRead, Placing
    <3>5. LiabilityRead(b)'
      <4> HIDE DEF mine
      <4> QED BY <2>1, <2>2, <3>1, <3>3, <3>4 DEF LiabilityRead
    <3> QED BY <2>1, <3>5, LiabilityQuiet
  <2>4. CASE ~PricedBy(b)
    <3>1. LiabilityRead(b)'
      BY <2>1, <2>4 DEF LiabilityRead, ReadBy, Placing
    <3> QED BY <2>1, <3>1, LiabilityQuiet
  <2> QED BY <2>3, <2>4
<1>5. ASSUME NEW b \in Bets, CommitPlacement(b) PROVE LiabilityInv'
  <2> DEFINE u == Owner[b]
             P == Pending(u)
  <2>1. /\ u \in Users /\ Placing(b) /\ req[b].pc = "priced"
        /\ liability'[u] = req[b].liability + req[b].delta
        /\ Pending(u)' = P \union {b}
        /\ \A v \in Users \ {u} : liability'[v] = liability[v] /\ Pending(v)' = Pending(v)
        /\ req'[b].pc = "placed" /\ \A c \in Bets \ {b} : req'[c] = req[c]
        /\ job' = job
    BY <1>1, <1>5, PlacementCommits
  <2>2. /\ req[b].liability = Exposure(P)
        /\ req[b].delta = Exposure(P \union {b}) - Exposure(P)
    BY <1>3, <2>1 DEF LiabilityInv, LiabilityRead
  <2>3. Exposure(P) \in Int /\ Exposure(P \union {b}) \in Int
    <3>1. P \in SUBSET BetsOf(u) /\ P \union {b} \in SUBSET BetsOf(u)
      BY DEF Pending, BetsOf
    <3> QED BY <2>1, <3>1, BookExposureType
  <2> HIDE DEF P
  <2>4. LiabilityIsExposure'
    <3>1. liability'[u] = Exposure(P \union {b})
      BY <2>1, <2>2, <2>3
    <3>2. liability'[u] = Exposure(Pending(u)')
      BY <2>1, <3>1
    <3>3. \A v \in Users \ {u} : liability'[v] = Exposure(Pending(v)')
      BY <1>3, <2>1
    <3> QED BY <3>2, <3>3 DEF LiabilityIsExposure
  <2>5. \A c \in Bets : LiabilityRead(c)'
    <3> SUFFICES ASSUME NEW c \in Bets, Placing(c)' PROVE LiabilityRead(c)'
      BY DEF LiabilityRead, Placing
    <3>1. c # b /\ Placing(c) /\ req'[c] = req[c]
      BY <2>1 DEF Placing
    <3>2. Owner[c] \in Users \ {u}
      BY <1>1, <1>2, <2>1, <3>1 DEF PlacementsApart
    <3> QED BY <2>1, <3>1, <3>2, LiabilityReadKept DEF LiabilityInv
  <2>6. \A j \in Jobs : LiabilityComputed(j)'
    <3> SUFFICES ASSUME NEW j \in Jobs, Running(j) PROVE LiabilityComputed(j)'
      BY <2>1 DEF LiabilityComputed, Running
    <3>1. u \notin Concerned(job[j].bets)
      BY <1>1, <2>1 DEF PlacementsFromJobs
    <3> QED BY <2>1, <3>1, LiabilityComputedKept DEF LiabilityInv
  <2> QED BY <2>4, <2>5, <2>6 DEF LiabilityInv
<1>6. ASSUME NEW j \in Jobs, JobStep(j), ~CommitJob(j) PROVE LiabilityInv'
  <2>1. /\ UNCHANGED <<liability, rows, req>>
        /\ \A k \in Jobs \ {j} : job'[k] = job[k]
        /\ job'[j].pc = "recalculated" =>
             /\ job'[j].bets = job[j].bets
             /\ \A u \in Users : u \in Concerned(job[j].bets) =>
                  job'[j].after[u] = Exposure(Pending(u) \ job[j].bets)
    BY <1>1, <1>6, JobGoesOn DEF wallets
  <2>2. \A u \in Users : Pending(u)' = Pending(u)
    BY <2>1, PendingSame DEF rows
  <2>3. LiabilityComputed(j)'
    BY <2>1, <2>2 DEF LiabilityComputed, Concerned
  <2> QED BY <2>1, <2>3, LiabilityQuiet
<1>7. ASSUME NEW j \in Jobs, CommitJob(j) PROVE LiabilityInv'
  <2> DEFINE S == job[j].bets
  <2>1. /\ Running(j) /\ job[j].pc = "recalculated" /\ job'[j].pc = "idle" /\ req' = req
        /\ \A k \in Jobs \ {j} : job'[k] = job[k]
        /\ \A u \in Users :
             /\ liability'[u] = IF u \in Concerned(S) THEN job[j].after[u] ELSE liability[u]
             /\ Pending(u)' = Pending(u) \ S
             /\ u \notin Concerned(S) => Pending(u)' = Pending(u)
    BY <1>1, <1>7, JobCommits
  <2>2. \A u \in Users : u \in Concerned(S) => job[j].after[u] = Exposure(Pending(u) \ S)
    BY <2>1 DEF LiabilityInv, LiabilityComputed
  <2> HIDE DEF S
  <2>3. LiabilityIsExposure'
    <3> SUFFICES ASSUME NEW u \in Users PROVE liability'[u] = Exposure(Pending(u)')
      BY DEF LiabilityIsExposure
    <3>1. CASE u \in Concerned(S)
      BY <2>1, <2>2, <3>1
    <3>2. CASE u \notin Concerned(S)
      BY <1>3, <2>1, <3>2
    <3> QED BY <3>1, <3>2
  <2>4. \A b \in Bets : LiabilityRead(b)'
    <3> SUFFICES ASSUME NEW b \in Bets, Placing(b) PROVE LiabilityRead(b)'
      BY <2>1 DEF LiabilityRead, Placing
    <3>1. Owner[b] \in Users /\ Owner[b] \notin Concerned(S)
      BY <1>1, <1>2, <2>1 DEF PlacementsFromJobs, S
    <3> QED BY <2>1, <3>1, LiabilityReadKept DEF LiabilityInv
  <2>5. \A k \in Jobs : LiabilityComputed(k)'
    <3> SUFFICES ASSUME NEW k \in Jobs, k # j, Running(k) PROVE LiabilityComputed(k)'
      BY <2>1 DEF LiabilityComputed, Running
    <3>1. \A u \in Users : u \in Concerned(job[k].bets) => Pending(u)' = Pending(u)
      BY <1>1, <2>1 DEF JobsApart, S
    <3> QED BY <2>1, <3>1, LiabilityComputedKept DEF LiabilityInv
  <2> QED BY <2>3, <2>4, <2>5 DEF LiabilityInv
<1>8. ASSUME NEW t \in Transfers, CommitTransfer(t) PROVE LiabilityInv'
  BY <1>1, <1>8, TransferCommits, LiabilityQuiet
<1>9. ASSUME (\E t \in Transfers : CheckTransfer(t)) \/ UNCHANGED <<wallets, rows, req, job, moving>>
      PROVE  LiabilityInv'
  <2>1. UNCHANGED <<liability, rows, req, job>>
    BY <1>9 DEF CheckTransfer, wallets
  <2> QED BY <2>1, LiabilityQuiet
<1> QED BY <1>4, <1>5, <1>6, <1>7, <1>8, <1>9, StepKinds

LEMMA LiabilityInvariant ==
  ASSUME Overlap \subseteq {"transfer"}
  PROVE  Spec => []LiabilityInv
<1>1. Init => LiabilityInv
  <2> SUFFICES ASSUME Init PROVE LiabilityInv
    OBVIOUS
  <2>1. \A u \in Users : Pending(u) = {} /\ liability[u] = 0
    BY DEF Init, Pending, BetsOf
  <2>2. LiabilityIsExposure
    BY <2>1, ExposureAssumption DEF LiabilityIsExposure
  <2>3. /\ \A b \in Bets : LiabilityRead(b)
        /\ \A j \in Jobs : LiabilityComputed(j)
    BY DEF Init, LiabilityRead, LiabilityComputed, Placing, Request, NoJob, Job
  <2> QED BY <2>2, <2>3 DEF LiabilityInv
<1> QED BY <1>1, LiabilityStep, BaseInvariant, PTL DEF Spec

\* The liability is the exposure of the open bets, although a placement adds
\* only a difference to a value it has read and a removal computes it anew, as
\* long as neither overlaps with another of them on the wallet.
THEOREM LiabilityCorrect ==
  ASSUME Overlap \subseteq {"transfer"}
  PROVE  Spec => []LiabilityIsExposure
<1>1. LiabilityInv => LiabilityIsExposure
  BY DEF LiabilityInv
<1> QED BY <1>1, LiabilityInvariant, PTL

-----------------------------------------------------------------------------
(* Conservation: what the bets lock is what the journal has taken.  A job  *)
(* journals the difference to a liability it has read, if it is positive.  *)

\* A job releases something on each wallet, and knows how much.
ReleaseOf(j) ==
  Running(j) =>
    \A u \in Users : u \in Concerned(job[j].bets) =>
      /\ Exposure(Pending(u) \ job[j].bets) <= Exposure(Pending(u))
      /\ job[j].pc \in {"began", "recalculated"} => job[j].before[u] = liability[u]

JournalIsLiability == \A u \in Users : journal[u] = liability[u]

ReleaseInv == (\A j \in Jobs : ReleaseOf(j)) /\ JournalIsLiability

\* And what a removal gives back.
LEMMA ReleaseKept ==
  ASSUME NEW j \in Jobs, ReleaseOf(j), job'[j] = job[j],
         \A u \in Users : u \in Concerned(job[j].bets) =>
           liability'[u] = liability[u] /\ Pending(u)' = Pending(u)
  PROVE  ReleaseOf(j)'
BY DEF ReleaseOf, Running, Concerned

\* What is taken out hedges nothing that stays.
LEMMA TakenOutReleases ==
  ASSUME RemovalsRelease, TypeInv, NEW j \in Jobs, TakenOut(j),
         NEW u \in Users, u \in Concerned(job'[j].bets)
  PROVE  Exposure(Pending(u) \ job'[j].bets) <= Exposure(Pending(u))
<1> DEFINE P == Pending(u)
<1>1. P \in SUBSET BetsOf(u)
  BY PendingOwned
<1>2. CASE \E b \in Bets : bet[b] = "PENDING" /\ job'[j].bets = DeletedWith(b)
  <2>1. PICK b \in Bets : bet[b] = "PENDING" /\ job'[j].bets = DeletedWith(b)
    BY <1>2
  <2>2. u = Owner[b]
    BY <2>1, DeletionOfOne
  <2>3. DeletedWith(b) = IF KindOf[BookOf[b]] = "matchodds" THEN SameBook(P, b) ELSE {b}
    BY <2>2 DEF DeletedWith
  <2> HIDE DEF P
  <2> QED BY <1>1, <2>1, <2>2, <2>3 DEF RemovalsRelease, P
<1>3. CASE \E filter \in CancelFilters : job'[j].bets = {b \in filter : bet[b] = "PENDING"}
  <2>1. PICK filter \in CancelFilters : job'[j].bets = {b \in filter : bet[b] = "PENDING"}
    BY <1>3
  <2>2. P \ job'[j].bets = P \ filter
    BY <2>1 DEF Pending
  <2> HIDE DEF P
  <2>3. Exposure(P \ filter) <= Exposure(P)
    BY <1>1 DEF RemovalsRelease
  <2> QED BY <2>2, <2>3 DEF P
<1> QED BY <1>2, <1>3 DEF TakenOut

\* What a job that commits gives back is what its bets no longer lock.
LEMMA RefundIsReleased ==
  ASSUME Base, LiabilityInv, ReleaseInv, NEW j \in Jobs, job[j].pc = "recalculated",
         NEW u \in Users
  PROVE  /\ liability[u] \in Int
         /\ u \in Concerned(job[j].bets) =>
              /\ Refund(j, u) = liability[u] - job[j].after[u]
              /\ job[j].after[u] \in Nat /\ job[j].after[u] <= liability[u]
         /\ u \notin Concerned(job[j].bets) => Refund(j, u) = 0
<1>1. liability[u] = Exposure(Pending(u)) /\ liability[u] \in Int
  BY DEF LiabilityInv, LiabilityIsExposure, Base, TypeInv, TypeOK
<1>2. CASE u \in Concerned(job[j].bets)
  <2>1. /\ Exposure(Pending(u) \ job[j].bets) <= Exposure(Pending(u))
        /\ job[j].before[u] = liability[u]
    BY <1>2 DEF ReleaseInv, ReleaseOf, Running
  <2>2. job[j].after[u] = Exposure(Pending(u) \ job[j].bets)
    BY <1>2 DEF LiabilityInv, LiabilityComputed
  <2>3. job[j].after[u] \in Nat
    BY <2>2, PendingOwned, BookExposureType
  <2> QED BY <1>1, <1>2, <2>1, <2>2, <2>3 DEF Refund
<1>3. CASE u \notin Concerned(job[j].bets)
  BY <1>1, <1>3 DEF Base, JobsOnRows, JobOf, Refund
<1> QED BY <1>1, <1>2, <1>3

\* Every commit moves between balance and liability what it moves.
LEMMA ReleaseStep ==
  ASSUME Overlap \subseteq {"transfer"}, RemovalsRelease, Base, LiabilityInv, ReleaseInv,
         [Next]_vars
  PROVE  ReleaseInv'
<1>1. TypeInv /\ PlacementsFromJobs /\ JobsApart
  BY DEF Base, Excluded
<1>2. \A u \in Users : journal[u] = liability[u] /\ journal[u] \in Int
  BY <1>1 DEF ReleaseInv, JournalIsLiability, TypeInv, TypeOK
<1>3. ASSUME UNCHANGED <<liability, journal, rows, job>> PROVE ReleaseInv'
  <2>1. \A u \in Users : Pending(u)' = Pending(u)
    BY <1>3, PendingSame DEF rows
  <2> QED BY <1>3, <2>1, ReleaseKept DEF ReleaseInv, JournalIsLiability
<1>4. ASSUME NEW b \in Bets, PlacementStep(b), ~CommitPlacement(b) PROVE ReleaseInv'
  BY <1>1, <1>3, <1>4, PlacementGoesOn DEF wallets
<1>5. ASSUME NEW b \in Bets, CommitPlacement(b) PROVE ReleaseInv'
  <2> DEFINE u == Owner[b]
  <2>1. /\ u \in Users /\ Placing(b) /\ req[b].delta \in Int
        /\ liability'[u] = req[b].liability + req[b].delta
        /\ journal'[u] = journal[u] + req[b].delta
        /\ \A v \in Users \ {u} : /\ liability'[v] = liability[v] /\ journal'[v] = journal[v]
                                  /\ Pending(v)' = Pending(v)
        /\ job' = job
    BY <1>1, <1>5, PlacementCommits
  <2>2. req[b].liability = liability[u]
    BY <2>1 DEF LiabilityInv, LiabilityRead
  <2>3. JournalIsLiability'
    BY <1>2, <2>1, <2>2 DEF JournalIsLiability
  <2>4. \A j \in Jobs : ReleaseOf(j)'
    <3> SUFFICES ASSUME NEW j \in Jobs, Running(j) PROVE ReleaseOf(j)'
      BY <2>1 DEF ReleaseOf, Running
    <3>1. u \notin Concerned(job[j].bets)
      BY <1>1, <2>1 DEF PlacementsFromJobs
    <3> QED BY <2>1, <3>1, ReleaseKept DEF ReleaseInv
  <2> QED BY <2>3, <2>4 DEF ReleaseInv
<1>6. ASSUME NEW j \in Jobs, JobStep(j), ~CommitJob(j) PROVE ReleaseInv'
  <2>1. /\ UNCHANGED <<liability, journal, rows>> /\ \A k \in Jobs \ {j} : job'[k] = job[k]
        /\ Running(j)' => (Running(j) /\ job'[j].bets = job[j].bets) \/ TakenOut(j)
        /\ job'[j].pc = "began" =>
             \A u \in Users : u \in Concerned(job'[j].bets) => job'[j].before[u] = liability[u]
        /\ job'[j].pc = "recalculated" =>
             job[j].pc = "began" /\ job'[j].bets = job[j].bets /\ job'[j].before = job[j].before
    BY <1>1, <1>6, JobGoesOn DEF wallets
  <2>2. \A u \in Users : Pending(u)' = Pending(u)
    BY <2>1, PendingSame DEF rows
  <2>3. ReleaseOf(j)'
    <3> SUFFICES ASSUME Running(j)', NEW u \in Users, u \in Concerned(job'[j].bets)
                 PROVE  /\ Exposure(Pending(u) \ job'[j].bets) <= Exposure(Pending(u))
                        /\ job'[j].pc \in {"began", "recalculated"} =>
                             job'[j].before[u] = liability[u]
      BY <2>1, <2>2 DEF ReleaseOf, Concerned
    <3>1. Exposure(Pending(u) \ job'[j].bets) <= Exposure(Pending(u))
      <4>1. CASE TakenOut(j)
        BY <1>1, <4>1, TakenOutReleases
      <4>2. CASE Running(j) /\ job'[j].bets = job[j].bets
        BY <4>2 DEF ReleaseInv, ReleaseOf
      <4> QED BY <2>1, <4>1, <4>2
    <3>2. job'[j].pc \in {"began", "recalculated"} => job'[j].before[u] = liability[u]
      BY <2>1 DEF ReleaseInv, ReleaseOf, Running
    <3> QED BY <3>1, <3>2
  <2>4. \A k \in Jobs : ReleaseOf(k)'
    BY <2>1, <2>2, <2>3, ReleaseKept DEF ReleaseInv
  <2> QED BY <2>1, <2>4 DEF ReleaseInv, JournalIsLiability
<1>7. ASSUME NEW j \in Jobs, CommitJob(j) PROVE ReleaseInv'
  <2> DEFINE S == job[j].bets
  <2>1. /\ Running(j) /\ job[j].pc = "recalculated" /\ job'[j].pc = "idle"
        /\ \A k \in Jobs \ {j} : job'[k] = job[k]
        /\ \A u \in Users :
             /\ journal'[u] = journal[u] - Refund(j, u)
             /\ liability'[u] = IF u \in Concerned(S) THEN job[j].after[u] ELSE liability[u]
             /\ u \notin Concerned(S) => Pending(u)' = Pending(u)
    BY <1>1, <1>7, JobCommits
  <2> HIDE DEF S
  <2>2. JournalIsLiability'
    <3> SUFFICES ASSUME NEW u \in Users PROVE journal'[u] = liability'[u]
      BY DEF JournalIsLiability
    <3>1. CASE u \in Concerned(S)
      BY <1>2, <2>1, <3>1, RefundIsReleased DEF S
    <3>2. CASE u \notin Concerned(S)
      BY <1>2, <2>1, <3>2, RefundIsReleased DEF S
    <3> QED BY <3>1, <3>2
  <2>3. \A k \in Jobs : ReleaseOf(k)'
    <3> SUFFICES ASSUME NEW k \in Jobs, k # j, Running(k) PROVE ReleaseOf(k)'
      BY <2>1 DEF ReleaseOf, Running
    <3>1. \A u \in Users : u \in Concerned(job[k].bets) =>
            liability'[u] = liability[u] /\ Pending(u)' = Pending(u)
      BY <1>1, <2>1 DEF JobsApart, S
    <3> QED BY <2>1, <3>1, ReleaseKept DEF ReleaseInv
  <2> QED BY <2>2, <2>3 DEF ReleaseInv
<1>8. ASSUME NEW t \in Transfers, CommitTransfer(t) PROVE ReleaseInv'
  BY <1>1, <1>3, <1>8, TransferCommits
<1>9. ASSUME (\E t \in Transfers : CheckTransfer(t)) \/ UNCHANGED <<wallets, rows, req, job, moving>>
      PROVE  ReleaseInv'
  BY <1>3, <1>9 DEF CheckTransfer, wallets
<1> QED BY <1>4, <1>5, <1>6, <1>7, <1>8, <1>9, StepKinds

LEMMA ReleaseInvariant ==
  ASSUME Overlap \subseteq {"transfer"}, RemovalsRelease
  PROVE  Spec => []ReleaseInv
<1>1. Init => ReleaseInv
  BY DEF Init, ReleaseInv, ReleaseOf, Running, NoJob, Job, JournalIsLiability
<1> QED BY <1>1, ReleaseStep, BaseInvariant, LiabilityInvariant, PTL DEF Spec

\* The balance and the liability of a client add up to what it was funded
\* with, as long as only transfers overlap and no removal leaves a bet without
\* its hedge.
THEOREM Conservation ==
  ASSUME Overlap \subseteq {"transfer"}, RemovalsRelease
  PROVE  Spec => []FundsConserved
<1>1. "place" \notin Overlap
  OBVIOUS
<1>2. Base /\ JournalInv /\ ReleaseInv => FundsConserved
  <2> SUFFICES ASSUME Base, JournalInv, ReleaseInv, NEW u \in Users
               PROVE  balance[u] + liability[u] = funded[u]
    BY DEF FundsConserved
  <2>1. balance[u] = funded[u] - journal[u] /\ journal[u] = liability[u]
    BY DEF JournalInv, JournalExplainsBalance, ReleaseInv, JournalIsLiability
  <2>2. liability[u] \in Int /\ funded[u] \in Int
    BY DEF Base, TypeInv, TypeOK
  <2> QED BY <2>1, <2>2
<1> QED BY <1>1, <1>2, BaseInvariant, JournalInvariant, ReleaseInvariant, PTL

-----------------------------------------------------------------------------
(* Solvency: bets never overdraw a wallet, whatever placements, deletions  *)
(* and cancellations overlap; a transfer could, which checks the balance   *)
(* before it takes from it.                                                *)

\* A placement takes no more than it has read.
Affordable(b) ==
  /\ Placing(b) => req[b].balance >= 0
  /\ req[b].pc = "priced" => (req[b].delta > 0 => req[b].delta <= req[b].balance)

\* The payer of a transfer that was checked can still pay.
PayerCovered == \A t \in moving : Payer(t) >= t.amount

SolvencyInv == (\A b \in Bets : Affordable(b)) /\ PayerCovered /\ NoOverdraft

\* A balance is only taken from after a look at it.
LEMMA SolvencyStep ==
  ASSUME "transfer" \notin Overlap, Base, SolvencyInv, [Next]_vars
  PROVE  SolvencyInv'
<1>1. TypeInv /\ TransfersApart /\ PlacementsFromTransfers
  BY DEF Base, Excluded
<1>2. /\ \A b \in Bets : Owner[b] \in Users
      /\ \A t \in moving : t.user \in Users /\ t.amount \in Nat
  BY <1>1, OpenBetsAssumption DEF TypeInv, TypeOK
<1>3. agent \in Int /\ agent >= 0 /\ \A u \in Users : balance[u] \in Int /\ balance[u] >= 0
  BY <1>1 DEF TypeInv, TypeOK, SolvencyInv, NoOverdraft
<1>4. ASSUME UNCHANGED <<balance, agent, moving>>, \A b \in Bets : req'[b] = req[b] \/ Affordable(b)'
      PROVE  SolvencyInv'
  BY <1>4 DEF SolvencyInv, Affordable, Placing, PayerCovered, Payer, NoOverdraft
<1>5. ASSUME NEW b \in Bets, PlacementStep(b), ~CommitPlacement(b) PROVE SolvencyInv'
  <2>1. /\ UNCHANGED <<balance, agent, moving>>
        /\ \A c \in Bets \ {b} : req'[c] = req[c]
        /\ req'[b].pc \in {"admitted", "rejected"} \/ ReadBy(b) \/ PricedBy(b)
    BY <1>1, <1>5, PlacementGoesOn DEF wallets
  <2>2. CASE PricedBy(b)
    <3> DEFINE mine == SameBook(SameMarket(Pending(Owner[b]), b), b)
               delta == BookExposure(mine \union {b}) - BookExposure(mine)
    <3>1. /\ req[b].pc = "began" /\ req'[b].balance = req[b].balance
          /\ req'[b].delta = delta
          /\ delta > 0 => delta <= req[b].balance
      BY <2>2, PricedFacts
    <3>2. req[b].balance >= 0
      BY <3>1 DEF SolvencyInv, Affordable, Placing
    <3> HIDE DEF mine, delta
    <3>3. Affordable(b)'
      BY <3>1, <3>2 DEF Affordable
    <3> QED BY <1>4, <2>1, <3>3
  <2>3. CASE ReadBy(b)
    <3>1. Affordable(b)'
      BY <1>2, <1>3, <2>3 DEF Affordable, ReadBy
    <3> QED BY <1>4, <2>1, <3>1
  <2>4. CASE req'[b].pc \in {"admitted", "rejected"}
    BY <1>4, <2>1, <2>4 DEF Affordable, Placing
  <2> QED BY <2>1, <2>2, <2>3, <2>4
<1>6. ASSUME NEW b \in Bets, CommitPlacement(b) PROVE SolvencyInv'
  <2> DEFINE u == Owner[b]
  <2>1. /\ u \in Users /\ Placing(b) /\ req[b].pc = "priced"
        /\ req[b].balance \in Int /\ req[b].delta \in Int
        /\ balance'[u] = req[b].balance - req[b].delta
        /\ \A v \in Users \ {u} : balance'[v] = balance[v]
        /\ UNCHANGED <<agent, moving>>
        /\ req'[b].pc = "placed" /\ \A c \in Bets \ {b} : req'[c] = req[c]
    BY <1>1, <1>6, PlacementCommits
  <2>2. balance'[u] >= 0
    BY <2>1 DEF SolvencyInv, Affordable
  <2>3. NoOverdraft'
    BY <1>3, <2>1, <2>2 DEF NoOverdraft
  <2>4. PayerCovered'
    <3> SUFFICES ASSUME NEW t \in moving PROVE Payer(t)' >= t.amount
      BY <2>1 DEF PayerCovered
    <3>1. t.user \in Users \ {u}
      BY <1>1, <1>2, <2>1 DEF PlacementsFromTransfers
    <3> QED BY <2>1, <3>1 DEF SolvencyInv, PayerCovered, Payer
  <2>5. \A c \in Bets : Affordable(c)'
    BY <2>1 DEF SolvencyInv, Affordable, Placing
  <2> QED BY <2>3, <2>4, <2>5 DEF SolvencyInv
<1>7. ASSUME NEW j \in Jobs, JobStep(j), ~CommitJob(j) PROVE SolvencyInv'
  BY <1>1, <1>4, <1>7, JobGoesOn DEF wallets
<1>8. ASSUME NEW j \in Jobs, CommitJob(j) PROVE SolvencyInv'
  <2>1. /\ UNCHANGED <<agent, req, moving>>
        /\ \A u \in Users : balance'[u] = balance[u] + Refund(j, u) /\ Refund(j, u) \in Nat
    BY <1>1, <1>8, JobCommits
  <2>2. \A u \in Users : balance'[u] >= balance[u] /\ balance'[u] \in Int
    BY <1>3, <2>1
  <2>3. NoOverdraft'
    BY <1>3, <2>1, <2>2 DEF NoOverdraft
  <2>4. PayerCovered'
    <3> SUFFICES ASSUME NEW t \in moving PROVE Payer(t)' >= t.amount
      BY <2>1 DEF PayerCovered
    <3>1. Payer(t) >= t.amount
      BY DEF SolvencyInv, PayerCovered
    <3> QED BY <1>2, <1>3, <2>1, <2>2, <3>1 DEF Payer
  <2> QED BY <2>1, <2>3, <2>4 DEF SolvencyInv, Affordable, Placing
<1>9. ASSUME NEW t \in Transfers, CheckTransfer(t) PROVE SolvencyInv'
  BY <1>9 DEF CheckTransfer, wallets, SolvencyInv, Affordable, Placing, PayerCovered, Payer,
              NoOverdraft
<1>10. ASSUME NEW t \in Transfers, CommitTransfer(t) PROVE SolvencyInv'
  <2>1. /\ t \in moving /\ moving' = moving \ {t} /\ req' = req
        /\ t.user \in Users /\ t.type \in {"TOPUP", "TOPDOWN"} /\ t.amount \in Nat
        /\ agent' = agent - Received(t)
        /\ balance'[t.user] = balance[t.user] + Received(t)
        /\ \A v \in Users \ {t.user} : balance'[v] = balance[v]
    BY <1>1, <1>10, TransferCommits
  <2>2. Payer(t) >= t.amount /\ moving' = {}
    BY <1>1, <2>1 DEF SolvencyInv, PayerCovered, TransfersApart
  <2>3. agent' >= 0 /\ balance'[t.user] >= 0
    BY <1>3, <2>1, <2>2 DEF Payer, Received
  <2>4. NoOverdraft'
    BY <1>3, <2>1, <2>3 DEF NoOverdraft
  <2> QED BY <2>1, <2>2, <2>4 DEF SolvencyInv, Affordable, Placing, PayerCovered
<1>11. CASE UNCHANGED <<wallets, rows, req, job, moving>>
  BY <1>4, <1>11 DEF wallets
<1> QED BY <1>5, <1>6, <1>7, <1>8, <1>9, <1>10, <1>11, StepKinds

LEMMA SolvencyInvariant ==
  ASSUME "transfer" \notin Overlap
  PROVE  Spec => []SolvencyInv
<1>1. Init => SolvencyInv
  BY OpenBetsAssumption
     DEF Init, SolvencyInv, Affordable, Placing, Request, PayerCovered, NoOverdraft
<1> QED BY <1>1, SolvencyStep, BaseInvariant, PTL DEF Spec

\* No wallet is overdrawn by a bet or a transfer, whatever else overlaps, as
\* long as nothing overlaps with a transfer.
THEOREM Solvency ==
  ASSUME "transfer" \notin Overlap
  PROVE  Spec => []NoOverdraft
<1>1. SolvencyInv => NoOverdraft
  BY DEF SolvencyInv
<1> QED BY <1>1, SolvencyInvariant, PTL

-----------------------------------------------------------------------------
(* Escrow: while requests on a wallet come one at a time and removals       *)
(* release, each commit is one step of the wallet that Escrow specifies, and *)
(* everything else leaves the wallet alone.                                  *)

WalletInv == Base /\ JournalInv /\ LiabilityInv /\ ReleaseInv /\ SolvencyInv

\* A start of the program is a start of the escrow.
LEMMA EscrowInit == Init => Abstract!Init
BY DEF Init, Abstract!Init

\* What a client's bets lock is never negative, and what is released of it is
\* an amount the wallet knows.
LEMMA Releasable ==
  ASSUME WalletInv, NEW amounts \in [Users -> Nat],
         \A u \in Users : amounts[u] > 0 => amounts[u] <= liability[u]
  PROVE  /\ amounts \in [Users -> Abstract!Amounts]
         /\ \A u \in Users : amounts[u] <= liability[u]
<1>1. ASSUME NEW u \in Users PROVE liability[u] \in Nat
  <2>1. liability[u] = Exposure(Pending(u))
    BY DEF WalletInv, LiabilityInv, LiabilityIsExposure
  <2>2. Pending(u) \in SUBSET BetsOf(u)
    BY PendingOwned
  <2> QED BY <2>1, <2>2, BookExposureType
<1>2. ASSUME NEW u \in Users PROVE amounts[u] <= liability[u] /\ amounts[u] \in 0 .. liability[u]
  BY <1>1
<1>3. \A u \in Users : amounts[u] \in Abstract!Amounts
  BY <1>2 DEF Abstract!Amounts
<1> QED BY <1>2, <1>3

\* A placement that costs holds, one that offsets releases.
LEMMA CommitPlacementIsEscrow ==
  ASSUME WalletInv, NEW b \in Bets, CommitPlacement(b)
  PROVE  Abstract!Next
<1> DEFINE u == Owner[b]
           delta == req[b].delta
<1>1. /\ u \in Users /\ Placing(b) /\ req[b].pc = "priced" /\ delta \in Int
      /\ liability'[u] = req[b].liability + delta /\ Pending(u)' = Pending(u) \union {b}
  BY PlacementCommits DEF WalletInv, Base
<1>2. /\ req[b].balance = balance[u] /\ req[b].liability = liability[u]
      /\ delta > 0 => delta <= balance[u]
      /\ delta = Exposure(Pending(u) \union {b}) - Exposure(Pending(u))
  BY <1>1 DEF WalletInv, JournalInv, BalanceRead, LiabilityInv, LiabilityRead, SolvencyInv, Affordable
<1>3. /\ balance' = [balance EXCEPT ![u] = balance[u] - delta]
      /\ liability' = [liability EXCEPT ![u] = liability[u] + delta]
      /\ agent' = agent /\ funded' = funded
  BY <1>2 DEF CommitPlacement
<1>4. /\ balance \in [Users -> Int] /\ liability \in [Users -> Int]
      /\ \A v \in Users : balance[v] >= 0
  BY DEF WalletInv, Base, TypeInv, TypeOK, SolvencyInv, NoOverdraft
<1>5. liability[u] + delta >= 0
  <2>1. Pending(u) \union {b} \in SUBSET BetsOf(u) /\ Pending(u) \in SUBSET BetsOf(u)
    BY <1>1 DEF Pending, BetsOf
  <2>2. Exposure(Pending(u) \union {b}) \in Nat /\ Exposure(Pending(u)) \in Nat
    BY <1>1, <2>1, BookExposureType
  <2> QED BY <1>1, <1>2, <2>2 DEF WalletInv, LiabilityInv, LiabilityIsExposure
<1> HIDE DEF delta
<1>6. CASE delta >= 0
  <2>1. delta \in 0 .. balance[u]
    BY <1>1, <1>2, <1>4, <1>6
  <2>2. Abstract!Hold(u, delta)
    BY <1>1, <1>3, <1>4, <2>1 DEF Abstract!Hold
  <2> QED BY <1>1, <2>1, <2>2 DEF Abstract!Next
<1>7. CASE delta < 0
  <2> DEFINE amounts == [v \in Users |-> IF v = u THEN -delta ELSE 0]
  <2>1. amounts \in [Users -> Nat]
    BY <1>1, <1>7
  <2>2. /\ amounts \in [Users -> Abstract!Amounts]
        /\ \A v \in Users : amounts[v] <= liability[v]
    <3>1. \A v \in Users : amounts[v] > 0 => amounts[v] <= liability[v]
      BY <1>1, <1>4, <1>5
    <3> HIDE DEF amounts
    <3> QED BY <2>1, <3>1, Releasable
  <2>3. balance' = [v \in Users |-> balance[v] + amounts[v]]
    <3>1. \A v \in Users : balance'[v] = balance[v] + amounts[v]
      BY <1>1, <1>3, <1>4
    <3> HIDE DEF amounts
    <3> QED BY <1>3, <1>4, <3>1
  <2>4. liability' = [v \in Users |-> liability[v] - amounts[v]]
    <3>1. \A v \in Users : liability'[v] = liability[v] - amounts[v]
      BY <1>1, <1>3, <1>4
    <3> HIDE DEF amounts
    <3> QED BY <1>3, <1>4, <3>1
  <2> HIDE DEF amounts
  <2>5. Abstract!Release(amounts)
    BY <1>3, <2>2, <2>3, <2>4 DEF Abstract!Release
  <2> QED BY <2>2, <2>5 DEF Abstract!Next
<1> QED BY <1>1, <1>6, <1>7

\* A deletion or cancellation releases what its bets no longer lock.
LEMMA CommitJobIsEscrow ==
  ASSUME WalletInv, NEW j \in Jobs, CommitJob(j)
  PROVE  Abstract!Next
<1> DEFINE amounts == [u \in Users |-> Refund(j, u)]
<1>1. amounts \in [Users -> Nat]
  BY RefundType DEF WalletInv, Base, TypeInv
<1>2. job[j].pc = "recalculated" /\ agent' = agent /\ funded' = funded
  BY DEF CommitJob
<1>3. ASSUME NEW u \in Users
      PROVE  /\ amounts[u] > 0 => amounts[u] <= liability[u]
             /\ liability'[u] = liability[u] - amounts[u]
  <2>1. /\ liability[u] \in Int
        /\ u \in Concerned(job[j].bets) =>
             /\ Refund(j, u) = liability[u] - job[j].after[u]
             /\ job[j].after[u] \in Nat
        /\ u \notin Concerned(job[j].bets) => Refund(j, u) = 0
    BY <1>2, RefundIsReleased DEF WalletInv
  <2>2. liability'[u] = IF u \in Concerned(job[j].bets) THEN job[j].after[u] ELSE liability[u]
    BY DEF CommitJob
  <2>3. CASE u \in Concerned(job[j].bets)
    BY <2>1, <2>2, <2>3
  <2>4. CASE u \notin Concerned(job[j].bets)
    BY <2>1, <2>2, <2>4
  <2> QED BY <2>3, <2>4
<1>4. balance' = [u \in Users |-> balance[u] + amounts[u]]
  BY DEF CommitJob
<1>5. liability' = [u \in Users |-> liability[u] - amounts[u]]
  <2>1. liability' = [u \in Users |-> liability'[u]]
    BY DEF CommitJob
  <2> HIDE DEF amounts
  <2> QED BY <1>3, <2>1
<1> HIDE DEF amounts
<1>6. amounts \in [Users -> Abstract!Amounts] /\ \A u \in Users : amounts[u] <= liability[u]
  BY <1>1, <1>3, Releasable
<1>7. Abstract!Release(amounts)
  BY <1>2, <1>4, <1>5, <1>6 DEF Abstract!Release
<1> QED BY <1>6, <1>7 DEF Abstract!Next
\* A top-up funds, a top-down withdraws.
LEMMA CommitTransferIsEscrow ==
  ASSUME WalletInv, NEW t \in Transfers, CommitTransfer(t)
  PROVE  Abstract!Next
<1> DEFINE u == t.user
<1>1. /\ t \in moving /\ u \in Users /\ t.amount \in Nat
      /\ t.type \in {"TOPUP", "TOPDOWN"} /\ Payer(t) >= t.amount
  BY OpenBetsAssumption DEF CommitTransfer, WalletInv, SolvencyInv, PayerCovered
<1>2. /\ balance \in [Users -> Int] /\ funded \in [Users -> Int] /\ agent \in Int
      /\ liability' = liability
  BY DEF CommitTransfer, WalletInv, Base, TypeInv, TypeOK
<1>3. CASE t.type = "TOPUP"
  <2>1. t.amount \in 0 .. agent
    BY <1>1, <1>2, <1>3 DEF Payer
  <2>2. Abstract!Fund(u, t.amount)
    BY <1>1, <1>2, <1>3, <2>1 DEF CommitTransfer, Abstract!Fund
  <2> QED BY <1>1, <2>1, <2>2 DEF Abstract!Next
<1>4. CASE t.type = "TOPDOWN"
  <2>1. t.amount \in 0 .. balance[u]
    BY <1>1, <1>2, <1>4 DEF Payer
  <2>2. balance[u] + (-t.amount) = balance[u] - t.amount /\ funded[u] + (-t.amount) = funded[u] - t.amount
    BY <1>1, <1>2
  <2>3. agent - (-t.amount) = agent + t.amount
    BY <1>1, <1>2
  <2>4. /\ balance' = [balance EXCEPT ![u] = balance[u] + (-t.amount)]
        /\ funded' = [funded EXCEPT ![u] = funded[u] + (-t.amount)]
        /\ agent' = agent - (-t.amount)
    BY <1>4 DEF CommitTransfer
  <2>5. Abstract!Withdraw(u, t.amount)
    <3>1. t.amount <= balance[u]
      BY <1>1, <1>2, <2>1
    <3>2. balance' = [balance EXCEPT ![u] = balance[u] - t.amount]
      BY <2>2, <2>4, Zenon
    <3>3. funded' = [funded EXCEPT ![u] = funded[u] - t.amount]
      BY <2>2, <2>4, Zenon
    <3>4. agent' = agent + t.amount
      BY <2>3, <2>4, Zenon
    <3> QED BY <1>2, <3>1, <3>2, <3>3, <3>4 DEF Abstract!Withdraw
  <2> QED BY <1>1, <2>1, <2>5 DEF Abstract!Next
<1> QED BY <1>1, <1>3, <1>4

\* Every step is one of the escrow, or none.
LEMMA EscrowStep ==
  ASSUME WalletInv, [Next]_vars
  PROVE  [Abstract!Next]_Abstract!vars
<1> TypeInv
  BY DEF WalletInv, Base
<1>1. CASE \E b \in Bets : CommitPlacement(b)
  BY <1>1, CommitPlacementIsEscrow
<1>2. CASE \E j \in Jobs : CommitJob(j)
  BY <1>2, CommitJobIsEscrow
<1>3. CASE \E t \in Transfers : CommitTransfer(t)
  BY <1>3, CommitTransferIsEscrow
<1>4. CASE UNCHANGED wallets
  BY <1>4 DEF wallets, Abstract!vars
<1>5. ASSUME \/ \E b \in Bets : PlacementStep(b) /\ ~CommitPlacement(b)
             \/ \E j \in Jobs : JobStep(j) /\ ~CommitJob(j)
             \/ \E t \in Transfers : CheckTransfer(t)
      PROVE  UNCHANGED wallets
  BY <1>5, PlacementGoesOn, JobGoesOn DEF CheckTransfer
<1> QED BY <1>1, <1>2, <1>3, <1>4, <1>5, StepKinds

\* The handlers implement the wallet.
THEOREM EscrowImplemented ==
  ASSUME Overlap = {}, RemovalsRelease
  PROVE  Spec => ImplementsEscrow
<1>1. "place" \notin Overlap /\ "transfer" \notin Overlap /\ Overlap \subseteq {"transfer"}
  OBVIOUS
<1>2. Spec => []WalletInv
  BY <1>1, BaseInvariant, JournalInvariant, LiabilityInvariant, ReleaseInvariant,
     SolvencyInvariant, PTL DEF WalletInv
<1> QED BY <1>2, EscrowInit, EscrowStep, PTL DEF Spec, ImplementsEscrow, Abstract!Spec

-----------------------------------------------------------------------------
(* The books: the cap on winnings and the exposure recorded for a fancy    *)
(* book, neither of which a removal looks at.  Placements may overlap, as  *)
(* the row of a match is held by one of them, and so may removals; not the *)
(* one with the other, for then a placement is priced against bets that    *)
(* are gone when it commits.                                               *)

\* A placement that was priced saw the open bets of its book.
PriceOf(b) ==
  req[b].pc = "priced" =>
    /\ SameBook(req[b].peers, b) = SameBook(Pending(Owner[b]), b)
    /\ WithinLimit(SameBook(Pending(Owner[b]), b) \union {b})

\* What a job takes out of a client's open bets: those its filter names, or
\* those that are deleted with one bet.
RemovedFrom(u, S) ==
  \/ \E filter \in CancelFilters : Pending(u) \intersect S = Pending(u) \intersect filter
  \/ \E b \in Bets :
       /\ Owner[b] = u
       /\ Pending(u) \intersect S =
            Pending(u) \intersect
              (IF KindOf[BookOf[b]] = "matchodds" THEN SameBook(Pending(u), b) ELSE {b})

RemovalOf(j) ==
  Running(j) => \A u \in Users : u \in Concerned(job[j].bets) => RemovedFrom(u, job[j].bets)

Prices == \A b \in Bets : PriceOf(b)
Removals == \A j \in Jobs : RemovalOf(j)
BooksRight == WinningsCapped /\ FancyRowCovers /\ \A u \in Users : IsFiniteSet(Pending(u))

BooksInv == Prices /\ Removals /\ BooksRight

\* The open bets of a book are those of their client.
LEMMA OpenInOwned ==
  ASSUME NEW u \in Users, NEW k \in Books
  PROVE  /\ OpenIn(u, k) \in SUBSET {b \in BetsOf(u) : BookOf[b] = k}
         /\ OpenIn(u, k) \in SUBSET BetsOf(u)
BY DEF OpenIn, Pending

\* In one book, what a set of bets locks in all is what it locks in the book.
LEMMA OneBook ==
  ASSUME NEW u \in Users, NEW k \in Books, NEW S \in SUBSET BetsOf(u), IsFiniteSet(S),
         \A b \in S : BookOf[b] = k
  PROVE  Exposure(S) = BookExposure(S)
<1> DEFINE P == {T \in SUBSET S : Exposure(T) = BookExposure(T)}
<1>1. {} \in P
  BY ExposureAssumption
<1>2. ASSUME NEW T \in SUBSET S, NEW b \in S, T \in P, b \notin T
      PROVE  T \union {b} \in P
  <2>1. SameBook(T, b) = T
    BY DEF SameBook
  <2>2. T \in SUBSET BetsOf(u) /\ b \in BetsOf(u) \ T /\ T \union {b} \in SUBSET BetsOf(u)
    BY <1>2
  <2>3. Exposure(T \union {b}) - Exposure(T)
          = BookExposure(SameBook(T, b) \union {b}) - BookExposure(SameBook(T, b))
    BY <2>2, ExposureAssumption
  <2>4. /\ Exposure(T) \in Int /\ BookExposure(T) \in Int
        /\ Exposure(T \union {b}) \in Int /\ BookExposure(T \union {b}) \in Int
    BY <2>2, BookExposureType
  <2>5. Exposure(T) = BookExposure(T)
    BY <1>2
  <2>6. Exposure(T \union {b}) = BookExposure(T \union {b})
    BY <2>1, <2>3, <2>4, <2>5
  <2> QED BY <2>6
<1>3. S \in P
  <2> HIDE DEF P
  <2> QED BY <1>1, <1>2, FiniteInduction
<1> QED BY <1>3

\* A book locks no more without some of its bets if the client does not.
LEMMA BookReleases ==
  ASSUME NEW u \in Users, NEW k \in Books, IsFiniteSet(Pending(u)), NEW gone,
         Exposure(OpenIn(u, k) \ gone) <= Exposure(OpenIn(u, k))
  PROVE  BookExposure(OpenIn(u, k) \ gone) <= BookExposure(OpenIn(u, k))
<1> DEFINE X == OpenIn(u, k)
           Y == X \ gone
<1>1. /\ X \in SUBSET BetsOf(u) /\ Y \in SUBSET BetsOf(u)
      /\ \A b \in X : BookOf[b] = k
      /\ \A b \in Y : BookOf[b] = k
  BY OpenInOwned
<1>2. IsFiniteSet(X) /\ IsFiniteSet(Y)
  <2>1. X \subseteq Pending(u) /\ Y \subseteq Pending(u)
    BY DEF OpenIn
  <2> QED BY <2>1, FS_Subset
<1> HIDE DEF X, Y
<1>3. Exposure(X) = BookExposure(X) /\ Exposure(Y) = BookExposure(Y)
  BY <1>1, <1>2, OneBook
<1> QED BY <1>3 DEF X, Y

\* What a job leaves open of a book wins and locks no more.
LEMMA RemovalLeaves ==
  ASSUME RemovalsRelease, RemovalsKeepLimit, NEW u \in Users, NEW k \in Books, NEW S,
         RemovedFrom(u, S), IsFiniteSet(Pending(u))
  PROVE  /\ OpenIn(u, k) \ S # {} /\ OpenIn(u, k) # {} /\ WithinLimit(OpenIn(u, k))
              => WithinLimit(OpenIn(u, k) \ S)
         /\ BookExposure(OpenIn(u, k) \ S) <= BookExposure(OpenIn(u, k))
<1> DEFINE X == OpenIn(u, k)
           Goal(Y) == /\ Y # {} /\ X # {} /\ WithinLimit(X) => WithinLimit(Y)
                      /\ BookExposure(Y) <= BookExposure(X)
<1>1. /\ X \in SUBSET {b \in BetsOf(u) : BookOf[b] = k}
      /\ X \in SUBSET BetsOf(u) /\ X \subseteq Pending(u)
      /\ \A b \in Pending(u) : b \in X <=> BookOf[b] = k
  BY OpenInOwned DEF OpenIn
<1>2. BookExposure(X) \in Int
  BY <1>1, BookExposureType
<1>3. ASSUME NEW gone, Exposure(X \ gone) <= Exposure(X)
      PROVE  BookExposure(X \ gone) <= BookExposure(X)
  BY <1>3, BookReleases
<1> HIDE DEF X
<1>4. Goal(X)
  BY <1>2
<1>5. CASE \E filter \in CancelFilters : Pending(u) \intersect S = Pending(u) \intersect filter
  <2>1. PICK filter \in CancelFilters : Pending(u) \intersect S = Pending(u) \intersect filter
    BY <1>5
  <2>2. X \ S = X \ filter
    BY <1>1, <2>1
  <2>3. Exposure(X \ filter) <= Exposure(X)
    BY <1>1 DEF RemovalsRelease
  <2>4. X \ filter # {} /\ WithinLimit(X) => WithinLimit(X \ filter)
    BY <1>1 DEF RemovalsKeepLimit
  <2>5. Goal(X \ filter)
    BY <1>3, <2>3, <2>4
  <2> QED BY <2>2, <2>5 DEF X
<1>6. CASE \E b \in Bets :
             /\ Owner[b] = u
             /\ Pending(u) \intersect S =
                  Pending(u) \intersect
                    (IF KindOf[BookOf[b]] = "matchodds" THEN SameBook(Pending(u), b) ELSE {b})
  <2>1. PICK b \in Bets :
             /\ Owner[b] = u
             /\ Pending(u) \intersect S =
                  Pending(u) \intersect
                    (IF KindOf[BookOf[b]] = "matchodds" THEN SameBook(Pending(u), b) ELSE {b})
    BY <1>6
  <2>2. CASE KindOf[BookOf[b]] = "matchodds" /\ BookOf[b] = k
    <3>1. X \ S = {}
      BY <1>1, <2>1, <2>2 DEF SameBook
    <3>2. {} \in SUBSET BetsOf(u) /\ Exposure(X) \in Nat
      BY <1>1, BookExposureType
    <3>3. BookExposure(X \ S) <= BookExposure(X)
      BY <1>3, <3>1, <3>2, ExposureAssumption
    <3> QED BY <3>1, <3>3 DEF X
  <2>3. CASE KindOf[BookOf[b]] = "matchodds" /\ BookOf[b] # k
    <3>1. X \ S = X
      BY <1>1, <2>1, <2>3 DEF SameBook
    <3> QED BY <1>4, <3>1 DEF X
  <2>4. CASE KindOf[BookOf[b]] # "matchodds" /\ b \in X
    <3>1. X \ S = X \ {b} /\ BookOf[b] = k
      BY <1>1, <2>1, <2>4
    <3>2. Exposure(X \ {b}) <= Exposure(X)
      BY <1>1, <2>1, <2>4 DEF RemovalsRelease
    <3>3. X \ {b} # {} /\ WithinLimit(X) => WithinLimit(X \ {b})
      BY <1>1, <2>4, <3>1 DEF RemovalsKeepLimit
    <3>4. Goal(X \ {b})
      BY <1>3, <3>2, <3>3
    <3> QED BY <3>1, <3>4 DEF X
  <2>5. CASE KindOf[BookOf[b]] # "matchodds" /\ b \notin X
    <3>1. X \ S = X
      BY <1>1, <2>1, <2>5
    <3> QED BY <1>4, <3>1 DEF X
  <2> QED BY <2>2, <2>3, <2>4, <2>5
<1> QED BY <1>5, <1>6 DEF RemovedFrom

(* Frames. *)

\* A price holds as long as its book does.
LEMMA PriceKept ==
  ASSUME NEW b \in Bets, PriceOf(b), req'[b] = req[b],
         SameBook(Pending(Owner[b])', b) = SameBook(Pending(Owner[b]), b)
  PROVE  PriceOf(b)'
BY DEF PriceOf, SameBook

\* What is taken out of fewer open bets is of the same kind.
LEMMA RemovedFromFewer ==
  ASSUME NEW u \in Users, NEW S, RemovedFrom(u, S), Pending(u)' \subseteq Pending(u)
  PROVE  RemovedFrom(u, S)'
BY DEF RemovedFrom, SameBook

\* A removal goes on as it was found, as bets only go meanwhile.
LEMMA RemovalKept ==
  ASSUME NEW j \in Jobs, RemovalOf(j), Running(j)' => Running(j),
         job'[j].bets = job[j].bets,
         \A u \in Users : u \in Concerned(job[j].bets) => Pending(u)' \subseteq Pending(u)
  PROVE  RemovalOf(j)'
<1> DEFINE S == job[j].bets
<1>1. CASE ~Running(j)'
  BY <1>1 DEF RemovalOf
<1>2. CASE Running(j)
  <2>1. ASSUME NEW u \in Users, u \in Concerned(S) PROVE RemovedFrom(u, S)'
    <3>1. RemovedFrom(u, S) /\ Pending(u)' \subseteq Pending(u)
      BY <1>2, <2>1 DEF RemovalOf
    <3> QED BY <3>1, RemovedFromFewer
  <2> QED BY <2>1 DEF RemovalOf, Concerned, RemovedFrom
<1> QED BY <1>1, <1>2

\* A step that changes neither rows nor what is priced and taken out.
LEMMA BooksQuiet ==
  ASSUME BooksInv, UNCHANGED rows,
         \A b \in Bets : req'[b] = req[b] \/ PriceOf(b)',
         \A j \in Jobs : job'[j] = job[j] \/ RemovalOf(j)'
  PROVE  BooksInv'
<1>1. \A u \in Users : Pending(u)' = Pending(u)
  BY PendingSame DEF rows
<1>2. \A u \in Users, k \in Books : OpenIn(u, k)' = OpenIn(u, k)
  BY <1>1 DEF OpenIn
<1>3. BooksRight'
  BY <1>1, <1>2 DEF BooksInv, BooksRight, WinningsCapped, FancyRowCovers, rows
<1>4. Prices'
  BY <1>1, PriceKept, OpenBetsAssumption DEF BooksInv, Prices, SameBook
<1>5. Removals'
  <2> SUFFICES ASSUME NEW j \in Jobs, job'[j] = job[j] PROVE RemovalOf(j)'
    BY DEF Removals
  <2> QED BY <1>1, RemovalKept DEF BooksInv, Removals, Running
<1> QED BY <1>3, <1>4, <1>5 DEF BooksInv

(* Steps. *)

LEMMA BooksInit == Init => BooksInv
<1> SUFFICES ASSUME Init PROVE BooksInv
  OBVIOUS
<1>1. \A u \in Users : Pending(u) = {}
  BY DEF Init, Pending, BetsOf
<1>2. \A u \in Users, k \in Books : OpenIn(u, k) = {}
  BY <1>1 DEF OpenIn
<1>3. Prices
  BY DEF Prices, PriceOf, Init, Request
<1>4. Removals
  BY DEF Removals, RemovalOf, Running, Init, NoJob, Job
<1>5. WinningsCapped
  BY <1>2 DEF WinningsCapped
<1>6. \A u \in Users : IsFiniteSet(Pending(u))
  BY <1>1, FS_EmptySet
<1>7. FancyRowCovers
  BY <1>2, ExposureAssumption DEF Init, FancyRowCovers
<1> QED BY <1>3, <1>4, <1>5, <1>6, <1>7 DEF BooksInv, BooksRight

\* A bet that has just been priced fits into its book.
LEMMA PricedBooks ==
  ASSUME NEW b \in Bets, PricedBy(b), UNCHANGED rows
  PROVE  PriceOf(b)'
<1> DEFINE u == Owner[b]
           peers == SameMarket(Pending(u), b)
           mine == SameBook(peers, b)
<1>1. req'[b].peers = peers /\ WithinLimit(mine \union {b})
  BY PricedFacts
<1>2. mine = SameBook(Pending(u), b)
  BY DEF SameBook, SameMarket
<1>3. Pending(u)' = Pending(u)
  BY OpenBetsAssumption, PendingSame DEF rows
<1> HIDE DEF peers, u
<1>4. SameBook(Pending(u)', b) = mine /\ SameBook(req'[b].peers, b) = mine
  BY <1>1, <1>2, <1>3
<1> HIDE DEF mine
<1>5. WithinLimit(SameBook(Pending(u)', b) \union {b})
  BY <1>1, <1>4
<1> QED BY <1>4, <1>5 DEF PriceOf, SameBook, u

\* The commit: the book is what the placement has seen, with its bet.
LEMMA CommitPlacementBooks ==
  ASSUME ~({"place", "admin"} \subseteq Overlap), Base, BooksInv, NEW b \in Bets, CommitPlacement(b)
  PROVE  BooksInv'
<1> DEFINE u == Owner[b]
           book == SameBook(Pending(u), b) \union {b}
<1> TypeInv /\ PlacementsFromJobs
  BY DEF Base, Excluded
<1>1. /\ u \in Users /\ Placing(b) /\ req[b].pc = "priced" /\ BookOf[b] \in Books
      /\ Pending(u)' = Pending(u) \union {b}
      /\ \A v \in Users \ {u} : Pending(v)' = Pending(v)
      /\ job' = job /\ req'[b].pc = "placed" /\ \A c \in Bets \ {b} : req'[c] = req[c]
  BY PlacementCommits, OpenBetsAssumption
<1>2. SameBook(req[b].peers, b) = SameBook(Pending(u), b) /\ WithinLimit(book)
  BY <1>1 DEF BooksInv, Prices, PriceOf
<1>3. fancyRow' = IF KindOf[BookOf[b]] = "fancy"
                  THEN [fancyRow EXCEPT ![u][BookOf[b]] = BookExposure(book)]
                  ELSE fancyRow
  BY <1>2 DEF CommitPlacement, RowOf
<1>4. Pending(u)' = Pending(u) \union {b}
  BY <1>1
<1>5. ASSUME NEW v \in Users, v # u PROVE Pending(v)' = Pending(v)
  BY <1>1, <1>5
<1>6. OpenIn(u, BookOf[b])' = book
  BY <1>4 DEF OpenIn, SameBook
<1>7. ASSUME NEW v \in Users, NEW k \in Books, v # u \/ k # BookOf[b]
      PROVE  OpenIn(v, k)' = OpenIn(v, k)
  <2>1. CASE v # u
    BY <1>5, <2>1 DEF OpenIn
  <2>2. CASE v = u /\ k # BookOf[b]
    BY <1>4, <2>2 DEF OpenIn
  <2> QED BY <1>7, <2>1, <2>2
<1> HIDE DEF book
<1>8. WinningsCapped'
  <2>1. ASSUME NEW v \in Users, NEW k \in Books, OpenIn(v, k)' # {}
        PROVE  WithinLimit(OpenIn(v, k)')
    <3>1. CASE v = u /\ k = BookOf[b]
      BY <1>2, <1>6, <3>1
    <3>2. CASE v # u \/ k # BookOf[b]
      <4>1. OpenIn(v, k)' = OpenIn(v, k)
        BY <1>7, <3>2
      <4> QED BY <2>1, <4>1 DEF BooksInv, BooksRight, WinningsCapped
    <3> QED BY <3>1, <3>2
  <2> QED BY <2>1 DEF WinningsCapped
<1>9. FancyRowCovers'
  <2>1. ASSUME NEW v \in Users, NEW k \in Books, KindOf[k] = "fancy"
        PROVE  fancyRow'[v][k] >= BookExposure(OpenIn(v, k)')
    <3>1. fancyRow \in [Users -> [Books -> Int]]
      BY DEF TypeInv, TypeOK
    <3>2. CASE v = u /\ k = BookOf[b]
      <4>1. fancyRow'[u][BookOf[b]] = BookExposure(book)
        BY <1>1, <1>3, <2>1, <3>1, <3>2
      <4>2. book \in SUBSET BetsOf(u)
        BY DEF book, SameBook, Pending, BetsOf
      <4>3. BookExposure(book) \in Int
        BY <1>1, <4>2, BookExposureType
      <4> HIDE DEF u
      <4> QED BY <1>6, <3>2, <4>1, <4>3
    <3>3. CASE v # u \/ k # BookOf[b]
      <4>1. OpenIn(v, k)' = OpenIn(v, k)
        BY <1>7, <3>3
      <4>2. fancyRow'[v][k] = fancyRow[v][k]
        BY <1>1, <1>3, <3>1, <3>3
      <4>3. fancyRow[v][k] >= BookExposure(OpenIn(v, k))
        BY <2>1 DEF BooksInv, BooksRight, FancyRowCovers
      <4> QED BY <4>1, <4>2, <4>3
    <3> QED BY <3>2, <3>3
  <2> QED BY <2>1 DEF FancyRowCovers
<1>10. \A v \in Users : IsFiniteSet(Pending(v)')
  <2> TAKE v \in Users
  <2>1. IsFiniteSet(Pending(v)) /\ IsFiniteSet(Pending(v) \union {b})
    BY FS_AddElement DEF BooksInv, BooksRight
  <2> QED BY <1>4, <1>5, <2>1
<1>11. Prices'
  <2> SUFFICES ASSUME NEW c \in Bets, req'[c].pc = "priced" PROVE PriceOf(c)'
    BY DEF Prices, PriceOf
  <2>1. c # b /\ req'[c] = req[c]
    BY <1>1
  <2>2. BookOf[c] # BookOf[b]
    BY <1>1, <2>1 DEF Base, MatchesHeld
  <2>3. SameBook(Pending(Owner[c])', c) = SameBook(Pending(Owner[c]), c)
    BY <1>4, <1>5, <2>2, OpenBetsAssumption DEF SameBook
  <2> QED BY <2>1, <2>3, PriceKept DEF BooksInv, Prices
<1>12. Removals'
  <2> SUFFICES ASSUME NEW j \in Jobs, Running(j) PROVE RemovalOf(j)'
    BY <1>1 DEF Removals, RemovalOf, Running
  <2>1. u \notin Concerned(job[j].bets)
    BY <1>1 DEF PlacementsFromJobs
  <2> QED BY <1>1, <2>1, RemovalKept DEF BooksInv, Removals
<1> QED BY <1>8, <1>9, <1>10, <1>11, <1>12 DEF BooksInv, BooksRight

\* The bets an administrator's request takes out, when it comes by them.
LEMMA TakenOutBooks ==
  ASSUME TypeInv, NEW j \in Jobs, TakenOut(j), UNCHANGED rows
  PROVE  RemovalOf(j)'
<1>0. PICK S : S = job'[j].bets
  OBVIOUS
<1>1. \A u \in Users : Pending(u)' = Pending(u)
  BY PendingSame DEF rows
<1>2. ASSUME NEW u \in Users, u \in Concerned(S) PROVE RemovedFrom(u, S)
  <2>1. CASE \E b \in Bets : bet[b] = "PENDING" /\ S = DeletedWith(b)
    <3>1. PICK b \in Bets : bet[b] = "PENDING" /\ S = DeletedWith(b)
      BY <2>1
    <3>2. u = Owner[b]
      BY <1>2, <3>1, DeletionOfOne
    <3> QED BY <3>1, <3>2 DEF RemovedFrom, DeletedWith
  <2>2. CASE \E filter \in CancelFilters : S = {b \in filter : bet[b] = "PENDING"}
    <3>1. PICK filter \in CancelFilters : S = {b \in filter : bet[b] = "PENDING"}
      BY <2>2
    <3>2. Pending(u) \intersect S = Pending(u) \intersect filter
      BY <3>1 DEF Pending
    <3> QED BY <3>2 DEF RemovedFrom
  <2> QED BY <1>0, <2>1, <2>2 DEF TakenOut
<1>3. ASSUME NEW u \in Users, u \in Concerned(S) PROVE RemovedFrom(u, S)'
  <2>1. RemovedFrom(u, S) /\ Pending(u)' \subseteq Pending(u)
    BY <1>1, <1>2, <1>3
  <2> QED BY <2>1, RemovedFromFewer
<1> QED BY <1>0, <1>3 DEF RemovalOf, Concerned, RemovedFrom

\* The commit of a job leaves of each book what it has found may be left.
LEMMA CommitJobBooks ==
  ASSUME RemovalsRelease, RemovalsKeepLimit, ~({"place", "admin"} \subseteq Overlap),
         Base, BooksInv, NEW j \in Jobs, CommitJob(j)
  PROVE  BooksInv'
<1> DEFINE S == job[j].bets
<1> TypeInv /\ PlacementsFromJobs
  BY DEF Base, Excluded
<1>1. /\ Running(j) /\ req' = req /\ fancyRow' = fancyRow
      /\ \A i \in Jobs \ {j} : job'[i] = job[i]
      /\ job'[j].pc = "idle"
      /\ \A u \in Users : Pending(u)' = Pending(u) \ S
                         /\ (u \notin Concerned(S) => Pending(u)' = Pending(u))
  BY JobCommits
<1> HIDE DEF S
<1>4. ASSUME NEW u \in Users, NEW k \in Books
      PROVE  /\ OpenIn(u, k)' = OpenIn(u, k) \ S
             /\ u \notin Concerned(S) => OpenIn(u, k)' = OpenIn(u, k)
  BY <1>1 DEF OpenIn
<1>5. ASSUME NEW u \in Users, NEW k \in Books, u \in Concerned(S)
      PROVE  /\ OpenIn(u, k) \ S # {} /\ OpenIn(u, k) # {} /\ WithinLimit(OpenIn(u, k))
                  => WithinLimit(OpenIn(u, k) \ S)
             /\ BookExposure(OpenIn(u, k) \ S) <= BookExposure(OpenIn(u, k))
  <2>1. RemovedFrom(u, S) /\ IsFiniteSet(Pending(u))
    BY <1>1, <1>5 DEF BooksInv, Removals, RemovalOf, BooksRight, S
  <2> QED BY <2>1, RemovalLeaves
<1>6. WinningsCapped'
  <2>1. ASSUME NEW u \in Users, NEW k \in Books, OpenIn(u, k)' # {}
        PROVE  WithinLimit(OpenIn(u, k)')
    <3>1. OpenIn(u, k) # {} /\ WithinLimit(OpenIn(u, k))
      BY <1>4, <2>1 DEF BooksInv, BooksRight, WinningsCapped
    <3> QED BY <1>4, <1>5, <2>1, <3>1
  <2> QED BY <2>1 DEF WinningsCapped
<1>7. FancyRowCovers'
  <2>1. ASSUME NEW u \in Users, NEW k \in Books, KindOf[k] = "fancy"
        PROVE  fancyRow'[u][k] >= BookExposure(OpenIn(u, k)')
    <3>1. fancyRow[u][k] >= BookExposure(OpenIn(u, k))
      BY <2>1 DEF BooksInv, BooksRight, FancyRowCovers
    <3>2. BookExposure(OpenIn(u, k)') <= BookExposure(OpenIn(u, k))
      <4>1. BookExposure(OpenIn(u, k)) \in Int
        BY OpenInOwned, BookExposureType
      <4>2. CASE u \in Concerned(S)
        BY <1>4, <1>5, <4>2
      <4>3. CASE u \notin Concerned(S)
        BY <1>4, <4>1, <4>3
      <4> QED BY <4>2, <4>3
    <3>3. /\ fancyRow[u][k] \in Int /\ BookExposure(OpenIn(u, k)) \in Int
          /\ BookExposure(OpenIn(u, k) \ S) \in Int
      <4>1. OpenIn(u, k) \in SUBSET BetsOf(u) /\ OpenIn(u, k) \ S \in SUBSET BetsOf(u)
        BY OpenInOwned
      <4> QED BY <4>1, BookExposureType DEF TypeInv, TypeOK
    <3>4. BookExposure(OpenIn(u, k)') = BookExposure(OpenIn(u, k) \ S)
      BY <1>4, Zenon
    <3>5. fancyRow'[u][k] = fancyRow[u][k]
      BY <1>1
    <3> QED BY <3>1, <3>2, <3>3, <3>4, <3>5
  <2> QED BY <2>1 DEF FancyRowCovers
<1>8. \A u \in Users : IsFiniteSet(Pending(u)')
  <2> TAKE u \in Users
  <2>1. IsFiniteSet(Pending(u) \ S)
    BY FS_Subset DEF BooksInv, BooksRight
  <2> QED BY <1>1, <2>1
<1>9. Prices'
  <2> SUFFICES ASSUME NEW c \in Bets, Placing(c) PROVE PriceOf(c)'
    BY <1>1 DEF Prices, PriceOf, Placing
  <2>1. Owner[c] \in Users /\ Owner[c] \notin Concerned(S)
    BY <1>1, OpenBetsAssumption DEF PlacementsFromJobs, S
  <2> QED BY <1>1, <2>1, PriceKept DEF BooksInv, Prices, SameBook
<1>10. Removals'
  <2> SUFFICES ASSUME NEW i \in Jobs, i # j PROVE RemovalOf(i)'
    BY <1>1 DEF Removals, RemovalOf, Running
  <2> QED BY <1>1, RemovalKept DEF BooksInv, Removals, Running
<1> QED BY <1>6, <1>7, <1>8, <1>9, <1>10 DEF BooksInv, BooksRight

\* No step leaves a book beyond the cap or short of its row.
LEMMA BooksStep ==
  ASSUME RemovalsRelease, RemovalsKeepLimit, ~({"place", "admin"} \subseteq Overlap),
         Base, BooksInv, [Next]_vars
  PROVE  BooksInv'
<1> TypeInv
  BY DEF Base
<1>1. ASSUME NEW b \in Bets, PlacementStep(b), ~CommitPlacement(b) PROVE BooksInv'
  <2>1. /\ UNCHANGED <<rows, job>> /\ \A c \in Bets \ {b} : req'[c] = req[c]
        /\ req'[b].pc # "priced" \/ PricedBy(b)
    BY <1>1, PlacementGoesOn DEF ReadBy
  <2>2. PriceOf(b)'
    BY <2>1, PricedBooks DEF PriceOf
  <2> QED BY <2>1, <2>2, BooksQuiet
<1>2. ASSUME NEW b \in Bets, CommitPlacement(b) PROVE BooksInv'
  BY <1>2, CommitPlacementBooks
<1>3. ASSUME NEW j \in Jobs, JobStep(j), ~CommitJob(j) PROVE BooksInv'
  <2>1. /\ UNCHANGED <<rows, req>> /\ \A i \in Jobs \ {j} : job'[i] = job[i]
        /\ Running(j)' => (Running(j) /\ job'[j].bets = job[j].bets) \/ TakenOut(j)
    BY <1>3, JobGoesOn
  <2>2. \A u \in Users : Pending(u)' = Pending(u)
    BY <2>1, PendingSame DEF rows
  <2>3. RemovalOf(j)'
    <3>1. CASE ~Running(j)'
      BY <3>1 DEF RemovalOf
    <3>2. CASE Running(j) /\ job'[j].bets = job[j].bets
      BY <2>2, <3>2, RemovalKept DEF BooksInv, Removals
    <3>3. CASE TakenOut(j)
      BY <2>1, <3>3, TakenOutBooks
    <3> QED BY <2>1, <3>1, <3>2, <3>3
  <2> QED BY <2>1, <2>3, BooksQuiet
<1>4. ASSUME NEW j \in Jobs, CommitJob(j) PROVE BooksInv'
  BY <1>4, CommitJobBooks
<1>5. ASSUME \/ \E t \in Transfers : CheckTransfer(t)
             \/ \E t \in Transfers : CommitTransfer(t)
             \/ UNCHANGED <<wallets, rows, req, job, moving>>
      PROVE  BooksInv'
  <2>1. UNCHANGED <<rows, req, job>>
    BY <1>5 DEF CheckTransfer, CommitTransfer
  <2> QED BY <2>1, BooksQuiet
<1> QED BY <1>1, <1>2, <1>3, <1>4, <1>5, StepKinds

LEMMA BooksInvariant ==
  ASSUME RemovalsRelease, RemovalsKeepLimit, ~({"place", "admin"} \subseteq Overlap)
  PROVE  Spec => []BooksInv
<1> QED BY BaseInvariant, BooksInit, BooksStep, PTL DEF Spec

\* No book wins above the cap as a whole, although each placement looks at
\* the bets that were open when it read them, whatever overlaps except
\* placements with removals.
THEOREM CapHolds ==
  ASSUME RemovalsRelease, RemovalsKeepLimit, ~({"place", "admin"} \subseteq Overlap)
  PROVE  Spec => []WinningsCapped
<1>1. BooksInv => WinningsCapped
  BY DEF BooksInv, BooksRight
<1> QED BY <1>1, BooksInvariant, PTL

\* The exposure recorded for a fancy book, which only placements write, is
\* never less than what its open bets lock, under the same premises.
THEOREM RowsCover ==
  ASSUME RemovalsRelease, RemovalsKeepLimit, ~({"place", "admin"} \subseteq Overlap)
  PROVE  Spec => []FancyRowCovers
<1>1. BooksInv => FancyRowCovers
  BY DEF BooksInv, BooksRight
<1> QED BY <1>1, BooksInvariant, PTL
=============================================================================
