---------------------------- MODULE UserHierarchy ----------------------------
(***************************************************************************)
(* The tree of super admins, admins, agents and clients, and the requests  *)
(* that walk it: creation of subordinates (src/src/auth/auth.service.ts,   *)
(* users.service.ts), the switches that stop and allow betting, the        *)
(* transfers between levels (src/src/balancetransfer/transfer.service.ts), *)
(* the commissions and the distribution of a client's result over those    *)
(* above (src/src/settlement/hierarchy-pnl.service.ts).                    *)
(*                                                                         *)
(* Requests are tasks that run at the same time: every query is a step.    *)
(* Transfers and distributions are transactions (READ COMMITTED): their    *)
(* writes are seen when they commit.  Tokens outlive what they say, so     *)
(* every user that exists may ask.                                         *)
(***************************************************************************)
EXTENDS Integers, FiniteSets, Sums

CONSTANTS
  Users,        \* users there are or may come to be
  First,        \* the user records at the start, of some of Users
  FirstBalance, \* what each of those has in its wallet
  Tasks,        \* requests the server handles at the same time
  Mixes,        \* the kinds of requests that meet each other
  MaxRequests,  \* how many requests are made
  Newcomers,    \* role, percentage and balance of users to be created
  Shares, Amounts  \* commission percentages and amounts asked for

Roles == {"SUPER_ADMIN", "ADMIN", "AGENT", "CLIENT", "SETTLEMENT_ADMIN"}
Kinds == {"create", "switch", "transfer", "commission", "distribute"}
None == "none"

Tops == {"SUPER_ADMIN", "SETTLEMENT_ADMIN"}

CanCreate(creator, role) ==
  \/ creator = "SUPER_ADMIN" /\ role \in Roles
  \/ creator = "ADMIN" /\ role \in {"AGENT", "CLIENT"}
  \/ creator = "AGENT" /\ role = "CLIENT"

UserRecord == [role : Roles, parent : Users \union {None}, share : 0..100, active : BOOLEAN, betting : BOOLEAN]

\* The users at the start are a tree that createUser could have made.
ASSUME HierarchyAssumption ==
  /\ DOMAIN First \subseteq Users /\ None \notin Users
  /\ \A u \in DOMAIN First :
       /\ First[u] \in UserRecord
       /\ First[u].parent = None <=> First[u].role \in Tops
       /\ First[u].parent # None =>
            First[u].parent \in DOMAIN First /\ CanCreate(First[First[u].parent].role, First[u].role)
  /\ Mixes \subseteq SUBSET Kinds /\ MaxRequests \in Nat
  /\ \A n \in Newcomers : n.role \in Roles /\ n.share \in 0..100 /\ n.money \in Nat
  /\ Shares \subseteq 0..100
  /\ Amounts \subseteq Nat /\ FirstBalance \in Nat

VARIABLES
  mix,        \* the kinds of requests made
  user,       \* User: role, parentId, commissionPercentage, isActive, bettingEnabled
  wallet,     \* Wallet.balance of those that have a wallet
  log,        \* TransferLog
  rows,       \* HierarchyPnl
  task,
  requests,   \* requests made so far
  opening,    \* history: the balance a user was created with
  crossed,    \* history: users paid from by one transfer while another one was
  decided,    \* history: users whose betting a switch that ended decided, with what it decided
  due,        \* history: for each task, the users its switch has to decide
  overlaps    \* history: distributions of one result at the same time

vars == <<mix, user, wallet, log, rows, task, requests, opening, crossed, decided, due, overlaps>>
money == <<wallet, log, opening, crossed>>
switches == <<decided, due>>
shares == <<rows, overlaps>>

Absent == [role |-> None, parent |-> None, share |-> 0, active |-> FALSE, betting |-> FALSE]
Idle == [pc |-> "idle"]

Present == {u \in Users : user[u].role # None}
Has(u, role) == user[u].role = role

\* One query for the children of a level.
Children(level) == {u \in Present : user[u].parent \in level}

\* At most an agent, an admin and a super admin are above a user.
Above(S) == {user[u].parent : u \in S} \ {None}
Upline(u) == LET up == Above({u}) IN up \union Above(up) \union Above(Above(up))
Downline(u) == {d \in Present : u \in Upline(d)}

HasWallet(u) == u \in DOMAIN wallet
Balance(u) == IF HasWallet(u) THEN wallet[u] ELSE 0

May(kind, t) == kind \in mix /\ task[t] = Idle /\ requests < MaxRequests

Ask(t, request) ==
  /\ requests' = requests + 1
  /\ task' = [task EXCEPT ![t] = request]
  /\ UNCHANGED mix

Continue(t, request) ==
  /\ task' = [task EXCEPT ![t] = request]
  /\ UNCHANGED <<mix, requests>>

-----------------------------------------------------------------------------
(* Creation of users *)

\* Nobody gives a subordinate more than its own percentage.
ShareAllowed(creator, role, share) ==
  role \in {"ADMIN", "AGENT"} => share \in 1..user[creator].share

\* createUser: the checks.  Initial money is not taken from the creator.
CreateUser(t, creator, role, share, balance) ==
  /\ CanCreate(user[creator].role, role) /\ ShareAllowed(creator, role, share)
  /\ Ask(t,
         [pc |-> "insert", role |-> role, money |-> balance,
          parent |-> IF role \in Tops THEN None ELSE creator,
          share |-> IF role \in {"CLIENT", "SETTLEMENT_ADMIN"} THEN 0 ELSE share])
  /\ UNCHANGED <<user, money, switches, shares>>

\* createUserWithHierarchy, for agents: no checks, no balance.
CreateClient(t, agent) ==
  /\ Has(agent, "AGENT")
  /\ Ask(t, [pc |-> "insert", role |-> "CLIENT", money |-> 0, parent |-> agent, share |-> 100])
  /\ UNCHANGED <<user, money, switches, shares>>

\* Betting of a new user is enabled, whatever it is for its parent.
InsertUser(t) ==
  /\ task[t].pc = "insert"
  /\ \E u \in Users \ Present :
       /\ user' = [user EXCEPT ![u] = [role |-> task[t].role, parent |-> task[t].parent,
                                       share |-> task[t].share, active |-> TRUE, betting |-> TRUE]]
       /\ Continue(t, IF task[t].role = "SETTLEMENT_ADMIN" THEN Idle
                      ELSE [pc |-> "wallet", of |-> u, money |-> task[t].money])
  /\ UNCHANGED <<money, switches, shares>>

\* A transfer in progress holds the wallet it inserts.
Inserting(u) == \E t \in Tasks : task[t].pc = "transfer" /\ u \in task[t].made

\* The wallet may be there already if somebody transferred to the new user.
InsertWallet(t) ==
  /\ task[t].pc = "wallet" /\ ~Inserting(task[t].of)
  /\ LET of == task[t].of IN
     IF HasWallet(of) THEN UNCHANGED money
     ELSE /\ wallet' = [u \in DOMAIN wallet \union {of} |-> IF u = of THEN task[t].money ELSE wallet[u]]
          /\ opening' = [opening EXCEPT ![of] = task[t].money]
          /\ UNCHANGED <<log, crossed>>
  /\ Continue(t, Idle)
  /\ UNCHANGED <<user, switches, shares>>

\* The server stops, or the database refuses, before the wallet is written.
WalletFails(t) ==
  /\ task[t].pc = "wallet"
  /\ Continue(t, Idle)
  /\ UNCHANGED <<user, money, switches, shares>>

-----------------------------------------------------------------------------
(* Stopping and allowing of betting *)

MaySwitchRole(actor, target) ==
  \/ Has(actor, "SUPER_ADMIN")
  \/ Has(actor, "ADMIN") /\ user[target].role \in {"AGENT", "CLIENT"}
  \/ Has(actor, "AGENT") /\ Has(target, "CLIENT")

Request(handler, target, on, deep) ==
  [pc |-> "target", handler |-> handler, target |-> target, on |-> on, deep |-> deep,
   level |-> {target}, below |-> {}]

\* History: the users a switch is about when it is asked for.
Concerns(t, request) ==
  due' = [due EXCEPT ![t] = {request.target}
                            \union IF request.deep THEN Downline(request.target) ELSE {}]

\* toggleUserStatus: always with those below.
ToggleUserStatus(t, actor, target, on) ==
  /\ user[target].parent = actor /\ MaySwitchRole(actor, target)
  /\ LET request == Request("status", target, on, TRUE)
     IN Ask(t, request) /\ Concerns(t, request)
  /\ UNCHANGED <<user, money, shares, decided>>

\* Mutant: the caller alone decides whether those below are stopped.
AppliesAsAsked(target, on, include) == include

AppliesToDownline(target, on, include) ==
  include \/ (~on /\ user[target].role \in {"AGENT", "ADMIN"})

\* setBettingEnabled
SetBettingEnabled(t, actor, target, on, include) ==
  /\ Has(actor, "SUPER_ADMIN") \/ (user[target].parent = actor /\ MaySwitchRole(actor, target))
  /\ Ask(t, Request("betting", target, on, AppliesToDownline(target, on, include)))
  \* Those below an agent or admin that is stopped must not be able to bet.
  /\ Concerns(t, Request("betting", target, on,
                         include \/ (~on /\ user[target].role \in {"AGENT", "ADMIN"})))
  /\ UNCHANGED <<user, money, shares, decided>>

\* History: what a switch writes is no longer decided otherwise, by others
\* that ended or that are still running.
Agreeing(who, on) == {d \in decided : d[1] \in who => d[2] = on}
Overrides(who, on) == [s \in Tasks |-> IF due[s] # {} /\ task[s].on # on THEN due[s] \ who ELSE due[s]]

Writes(who, on) ==
  /\ decided' = Agreeing(who, on)
  /\ due' = Overrides(who, on)

\* History: with its last write a switch has decided.
Decides(t, who, on) ==
  /\ decided' = Agreeing(who \union due[t], on) \union (due[t] \X {on})
  /\ due' = [Overrides(who, on) EXCEPT ![t] = {}]

SwitchTarget(t) ==
  /\ task[t].pc = "target"
  /\ LET r == task[t] IN
     /\ user' = [user EXCEPT ![r.target].betting = r.on,
                             ![r.target].active = IF r.handler = "status" THEN r.on ELSE @]
     /\ IF r.deep THEN Continue(t, [r EXCEPT !.pc = "level"]) /\ Writes({r.target}, r.on)
        ELSE Continue(t, Idle) /\ Decides(t, {r.target}, r.on)
  /\ UNCHANGED <<money, shares>>

\* Mutant: the direct children are taken for the downline.
ChildrenOnly(t) ==
  [task[t] EXCEPT !.below = Children({task[t].target}), !.level = {}, !.pc = "downline"]

\* getDownlineUserIds: one query a level, until a level is empty.
NextLevel(t) ==
  LET found == Children(task[t].level) IN
  [task[t] EXCEPT !.below = @ \union found, !.level = found, !.pc = IF found = {} THEN "downline" ELSE @]

ReadLevel(t) ==
  /\ task[t].pc = "level"
  /\ Continue(t, NextLevel(t))
  /\ UNCHANGED <<user, money, switches, shares>>

SwitchDownline(t) ==
  /\ task[t].pc = "downline"
  /\ user' = [u \in Users |-> IF u \in task[t].below THEN [user[u] EXCEPT !.betting = task[t].on]
                              ELSE user[u]]
  /\ Decides(t, task[t].below, task[t].on)
  /\ Continue(t, Idle)
  /\ UNCHANGED <<money, shares>>

-----------------------------------------------------------------------------
(* Transfers between the levels *)

\* Super admins with anyone and themselves, admins with their agents, agents
\* with their clients.
MayTransfer(actor, target) ==
  \/ Has(actor, "SUPER_ADMIN")
  \/ Has(actor, "ADMIN") /\ user[target].parent = actor /\ Has(target, "AGENT")
  \/ Has(actor, "AGENT") /\ user[target].parent = actor /\ Has(target, "CLIENT")

\* topUpBalance takes from the actor and topDownBalance from the target.  A
\* top-up of a super admin by itself takes from nobody.
Transfer(t, actor, target, amount, up) ==
  /\ MayTransfer(actor, target)
  /\ Ask(t,
         [pc |-> "wallets", from |-> IF up THEN actor ELSE target, to |-> IF up THEN target ELSE actor,
          up |-> up, amount |-> amount])
  /\ UNCHANGED <<user, money, switches, shares>>

PayingFrom(r) == IF r.up /\ r.from = r.to THEN {} ELSE {r.from}

\* Mutant: the balance is not looked at.
AlwaysCovered(r) == TRUE

Covered(r) == \A u \in PayingFrom(r) : Balance(u) >= r.amount

\* The transaction begins: wallets that are missing are inserted, and the
\* balance is compared.
ReadWallets(t) ==
  /\ task[t].pc = "wallets"
  /\ LET r == task[t]
         missing == {u \in PayingFrom(r) \union {r.to} : ~HasWallet(u)}
     IN /\ \A u \in missing : ~Inserting(u)
        /\ Continue(t, IF Covered(r) THEN [pc |-> "transfer", from |-> r.from, to |-> r.to, up |-> r.up,
                                           amount |-> r.amount, made |-> missing]
                       ELSE Idle)
  /\ UNCHANGED <<user, money, switches, shares>>

\* Mutant: a super admin that tops itself up pays for it.
PaidByAll(r, u) == (IF u = r.to THEN r.amount ELSE 0) - (IF u = r.from THEN r.amount ELSE 0)

\* What a transfer adds to a wallet: increment and decrement.
Paid(r, u) ==
  (IF u = r.to THEN r.amount ELSE 0) - (IF u \in PayingFrom(r) THEN r.amount ELSE 0)

CommitTransfer(t) ==
  /\ task[t].pc = "transfer"
  /\ LET r == task[t] IN
     /\ wallet' = [u \in DOMAIN wallet \union PayingFrom(r) \union {r.to} |-> Balance(u) + Paid(r, u)]
     /\ log' = log \union {[nr |-> Cardinality(log), from |-> r.from, to |-> r.to, amount |-> r.amount,
                             up |-> r.up]}
     /\ crossed' = crossed \union
          {u \in PayingFrom(r) : \E s \in Tasks \ {t} : task[s].pc = "transfer" /\ u \in PayingFrom(task[s])}
  /\ Continue(t, Idle)
  /\ UNCHANGED <<user, opening, switches, shares>>

\* A transaction that fails leaves nothing.
TransferFails(t) ==
  /\ task[t].pc = "transfer"
  /\ Continue(t, Idle)
  /\ UNCHANGED <<user, money, switches, shares>>

-----------------------------------------------------------------------------
(* Commissions and the distribution of results *)

\* PUT commission of super admins, admins and agents: no check.
UpdateCommission(actor, target, share) ==
  /\ "commission" \in mix /\ requests < MaxRequests
  /\ user[actor].role \in {"SUPER_ADMIN", "ADMIN", "AGENT"}
  /\ user' = [user EXCEPT ![target].share = share]
  /\ requests' = requests + 1
  /\ UNCHANGED <<mix, money, switches, shares, task>>

Distributing(t) == task[t].pc \in {"delete", "walk"}

\* distributePnL of a result other than zero: the rows of the client are looked
\* up to be deleted.
Distribute(t, client, net) ==
  /\ Has(client, "CLIENT") /\ net # 0
  /\ Ask(t,
         [pc |-> "delete", run |-> requests, client |-> client, net |-> net,
          doomed |-> {r \in rows : r.client = client}])
  /\ overlaps' = overlaps \union
       {{task[s].run, requests} : s \in {s \in Tasks : Distributing(s) /\ task[s].client = client}}
  /\ UNCHANGED <<user, money, switches, rows>>

\* Rows that another transaction deletes are waited for; those it writes are not
\* found.
DeleteRows(t) ==
  /\ task[t].pc = "delete"
  /\ \A s \in Tasks \ {t} : task[s].pc = "walk" => task[s].doomed \intersect task[t].doomed = {}
  /\ LET r == task[t] IN
     Continue(t, [pc |-> "walk", run |-> r.run, client |-> r.client, net |-> r.net,
                  doomed |-> r.doomed \intersect rows, at |-> r.client, child |-> 100,
                  total |-> 0, made |-> {}])
  /\ UNCHANGED <<user, money, switches, shares>>

\* A parent has the difference between its child's percentage and its own.
WalkUp(t) ==
  /\ task[t].pc = "walk" /\ user[task[t].at].parent # None
  /\ LET r == task[t]
         parent == user[r.at].parent
         amount == (0 - r.net) * (r.child - user[parent].share)
     IN Continue(t, [r EXCEPT !.at = parent, !.child = user[parent].share, !.total = @ + amount,
                              !.made = @ \union {[client |-> r.client, to |-> parent, amount |-> amount,
                                                  run |-> r.run, net |-> r.net, rest |-> FALSE]}])
  /\ UNCHANGED <<user, money, switches, shares>>

\* Mutant: what the percentages leave over is nobody's.
NoRemainder(r) == 0

Remainder(r) == (0 - r.net) * 100 - r.total

\* Mutant: what was distributed before is kept.
NothingDeleted(r) == {}

Deleted(r) == r.doomed

\* The top of the tree has what is left.
CommitRows(t) ==
  /\ task[t].pc = "walk" /\ user[task[t].at].parent = None
  /\ LET r == task[t]
         rest == {[client |-> r.client, to |-> r.at, amount |-> Remainder(r),
                   run |-> r.run, net |-> r.net, rest |-> TRUE]}
     IN rows' = (rows \ Deleted(r)) \union r.made \union (IF Remainder(r) = 0 THEN {} ELSE rest)
  /\ Continue(t, Idle)
  /\ UNCHANGED <<user, money, switches, overlaps>>

\* Errors are logged and the settlement goes on.
DistributionFails(t) ==
  /\ Distributing(t)
  /\ Continue(t, Idle)
  /\ UNCHANGED <<user, money, switches, shares>>

-----------------------------------------------------------------------------
Init ==
  /\ mix \in Mixes
  /\ user = [u \in Users |-> IF u \in DOMAIN First THEN First[u] ELSE Absent]
  /\ opening = [u \in Users |-> IF u \in DOMAIN First THEN FirstBalance ELSE 0]
  /\ wallet = [u \in DOMAIN First |-> FirstBalance]
  /\ log = {} /\ rows = {} /\ crossed = {} /\ decided = {} /\ overlaps = {}
  /\ task = [t \in Tasks |-> Idle]
  /\ due = [t \in Tasks |-> {}]
  /\ requests = 0

Creation(t) ==
  \/ May("create", t) /\ \E creator \in Present, n \in Newcomers : CreateUser(t, creator, n.role, n.share, n.money)
  \/ May("create", t) /\ \E agent \in Present : CreateClient(t, agent)
  \/ InsertUser(t) \/ InsertWallet(t) \/ WalletFails(t)

Switching(t) ==
  \/ May("switch", t) /\ \E actor \in Present, target \in Present, on \in BOOLEAN :
       \/ ToggleUserStatus(t, actor, target, on)
       \/ \E include \in BOOLEAN : SetBettingEnabled(t, actor, target, on, include)
  \/ SwitchTarget(t) \/ ReadLevel(t) \/ SwitchDownline(t)

Transferring(t) ==
  \/ May("transfer", t) /\ \E actor \in Present, target \in Present, amount \in Amounts, up \in BOOLEAN :
       Transfer(t, actor, target, amount, up)
  \/ ReadWallets(t) \/ CommitTransfer(t) \/ TransferFails(t)

Distribution(t) ==
  \/ May("distribute", t) /\ \E client \in Present, net \in {-1, 1} : Distribute(t, client, net)
  \/ DeleteRows(t) \/ WalkUp(t) \/ CommitRows(t) \/ DistributionFails(t)

Next ==
  \/ \E t \in Tasks : Creation(t) \/ Switching(t) \/ Transferring(t) \/ Distribution(t)
  \/ \E actor \in Present, target \in Present, share \in Shares : UpdateCommission(actor, target, share)

Spec == Init /\ [][Next]_vars

-----------------------------------------------------------------------------
\* Users, wallets and requests are what the database and the handlers hold, and
\* the tree is one: an admin is below a super admin only, and so on down.
TypeOK ==
  /\ mix \in Mixes /\ requests \in 0..MaxRequests
  /\ \A u \in Present : /\ user[u] \in UserRecord
                        /\ user[u].parent = None <=> user[u].role \in Tops
                        /\ user[u].parent # None =>
                             user[u].parent \in Present /\ CanCreate(user[user[u].parent].role, user[u].role)
  /\ DOMAIN wallet \subseteq Present /\ \A u \in DOMAIN wallet : wallet[u] \in Int
  /\ \A t \in Tasks : task[t].pc \in {"idle", "insert", "wallet", "target", "level", "downline",
                                      "wallets", "transfer", "delete", "walk"}

AmountOf(entries) == Sum([e \in entries |-> e.amount], entries)

\* When a switch has ended, everyone it was about - for a stopped agent or admin
\* all that were below it when it was asked for - is stopped, or allowed, unless
\* a later or simultaneous switch said otherwise (setBettingEnabled: "all clients
\* under that agent cannot place bets").
SwitchHolds == \A d \in decided : user[d[1]].betting = d[2]

\* Every wallet is what it was opened with and what the transfer log says came
\* and went, whatever requests met, failed or inserted the wallet.
LogExplainsBalance ==
  \A u \in DOMAIN wallet :
    wallet[u] = opening[u] + AmountOf({e \in log : e.to = u}) - AmountOf({e \in log : u \in PayingFrom(e)})

\* A wallet is overdrawn only where two transfers from it were under way at once:
\* the balance is compared before it is decremented.
OverdrawnOnlyCrossed == \A u \in DOMAIN wallet : wallet[u] < 0 => u \in crossed

\* What one distribution wrote adds up to the client's result, and went to those
\* above the client, whoever changes commissions meanwhile.
ResultPassesUp ==
  \A r \in rows :
    /\ r.to \in Upline(r.client)
    /\ AmountOf({q \in rows : q.client = r.client /\ q.run = r.run}) = (0 - 100) * r.net

\* A result is distributed once: rows of two distributions of it remain only
\* where the two were under way at once.
DistributedOnce ==
  \A q, r \in rows : q.client = r.client /\ q.run # r.run => {q.run, r.run} \in overlaps

\* "Each parent keeps only their commission difference; remaining P/L moves UP"
\* (distributePnL): when a client loses nobody above it loses, and the reverse.
NobodyLosesWithTheClient ==
  \A r \in rows :
    AmountOf({q \in rows : q.client = r.client /\ q.run = r.run /\ q.to = r.to}) * r.net <= 0
=============================================================================
