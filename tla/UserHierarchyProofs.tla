------------------------ MODULE UserHierarchyProofs ------------------------
(***************************************************************************)
(* Proofs about UserHierarchy, for any number of users, requests at once,  *)
(* percentages and amounts: no premise is put on how requests meet.        *)
(***************************************************************************)
EXTENDS UserHierarchy, MoneyTheorems

-----------------------------------------------------------------------------
(* Types *)

Inserts == [pc : {"insert"}, role : Roles, parent : Users \union {None}, share : 0..100, money : Nat]
WalletRequests == [pc : {"wallet"}, of : Users, money : Nat]
Switches ==
  [pc : {"target", "level", "downline"}, handler : {"status", "betting"}, target : Users,
   on : BOOLEAN, deep : BOOLEAN, level : SUBSET Users, below : SUBSET Users]
Asked == [pc : {"wallets"}, from : Users, to : Users, up : BOOLEAN, amount : Nat]
Transfers == [pc : {"transfer"}, from : Users, to : Users, up : BOOLEAN, amount : Nat, made : SUBSET Users]
Rows == [client : Users, to : Users, amount : Int, run : Nat, net : Int, rest : BOOLEAN]
Deletes == [pc : {"delete"}, run : Nat, client : Users, net : Int, doomed : SUBSET Rows]
Walks ==
  [pc : {"walk"}, run : Nat, client : Users, net : Int, doomed : SUBSET Rows, at : Users,
   child : Int, total : Int, made : SUBSET Rows]
Entries == [nr : Nat, from : Users, to : Users, amount : Nat, up : BOOLEAN]
UserRows ==
  [role : Roles \union {None}, parent : Users \union {None}, share : 0..100, active : BOOLEAN, betting : BOOLEAN]
Requests ==
  {Idle} \union Inserts \union WalletRequests \union Switches \union Asked \union Transfers
  \union Deletes \union Walks

TypeInv ==
  /\ mix \in Mixes /\ requests \in 0..MaxRequests
  /\ user \in [Users -> UserRows]
  /\ wallet \in [DOMAIN wallet -> Int]
  /\ opening \in [Users -> Int] /\ rows \subseteq Rows
  /\ log \subseteq Entries /\ IsFiniteSet(log)
  /\ task \in [Tasks -> Requests]
  /\ decided \subseteq Users \X BOOLEAN /\ due \in [Tasks -> SUBSET Users]

\* The tree, the requests that add to it, and the wallets of those in it.
Fits(parent, role) ==
  /\ parent = None <=> role \in Tops
  /\ parent # None => parent \in Present /\ CanCreate(user[parent].role, role)

TreeInv ==
  /\ \A u \in Present : Fits(user[u].parent, user[u].role)
  /\ \A t \in Tasks : task[t].pc = "insert" => Fits(task[t].parent, task[t].role)
  /\ \A t \in Tasks : task[t].pc = "wallet" => task[t].of \in Present
  /\ \A t \in Tasks : task[t].pc \in {"wallets", "transfer"} => task[t].from \in Present /\ task[t].to \in Present
  /\ DOMAIN wallet \subseteq Present

LEMMA Kind ==
  ASSUME TypeInv, NEW t \in Tasks
  PROVE  /\ task[t].pc = "insert" => task[t] \in Inserts
         /\ task[t].pc = "wallet" => task[t] \in WalletRequests
         /\ task[t].pc \in {"target", "level", "downline"} => task[t] \in Switches
         /\ task[t].pc = "wallets" => task[t] \in Asked
         /\ task[t].pc = "transfer" => task[t] \in Transfers
         /\ task[t].pc = "delete" => task[t] \in Deletes
         /\ task[t].pc = "walk" => task[t] \in Walks
<1>1. task[t] \in Requests
  BY DEF TypeInv
<1> HIDE DEF TypeInv
<1> DEFINE r == task[t]
<1> HIDE DEF r
<1>2. r \in Requests =>
         /\ r.pc = "insert" => r \in Inserts
         /\ r.pc = "wallet" => r \in WalletRequests
         /\ r.pc \in {"target", "level", "downline"} => r \in Switches
         /\ r.pc = "wallets" => r \in Asked
         /\ r.pc = "transfer" => r \in Transfers
         /\ r.pc = "delete" => r \in Deletes
         /\ r.pc = "walk" => r \in Walks
  BY DEF Requests, Idle, Inserts, WalletRequests, Switches, Asked, Transfers, Deletes, Walks
<1>3. QED BY <1>1, <1>2 DEF r

\* The type of the requests after one moved on.
LEMMA Moved ==
  ASSUME TypeInv, NEW t \in Tasks, NEW r \in Requests, task' = [task EXCEPT ![t] = r]
  PROVE  task' \in [Tasks -> Requests] /\ task'[t] = r /\ \A s \in Tasks : s # t => task'[s] = task[s]
BY DEF TypeInv

LEMMA Counted ==
  ASSUME TypeInv, requests < MaxRequests
  PROVE  requests + 1 \in 0..MaxRequests
BY HierarchyAssumption DEF TypeInv

LEMMA TypeInit == Init => TypeInv
<1> SUFFICES ASSUME Init PROVE TypeInv
  OBVIOUS
<1>1. user \in [Users -> UserRows]
  BY HierarchyAssumption DEF Init, UserRecord, UserRows, Absent
<1>2. task \in [Tasks -> Requests]
  BY DEF Init, Requests
<1>3. /\ wallet \in [DOMAIN wallet -> Int] /\ opening \in [Users -> Int]
      /\ requests \in 0..MaxRequests
  BY HierarchyAssumption DEF Init
<1>4. QED BY <1>1, <1>2, <1>3, FS_EmptySet DEF Init, TypeInv

LEMMA TypeCreation ==
  ASSUME TypeInv, NEW t \in Tasks, Creation(t)
  PROVE  TypeInv'
<1>1. ASSUME May("create", t), NEW creator \in Present, NEW n \in Newcomers,
             CreateUser(t, creator, n.role, n.share, n.money)
      PROVE  TypeInv'
  <2> DEFINE r == [pc |-> "insert", role |-> n.role, money |-> n.money,
                   parent |-> IF n.role \in Tops THEN None ELSE creator,
                   share |-> IF n.role \in {"CLIENT", "SETTLEMENT_ADMIN"} THEN 0 ELSE n.share]
  <2>1. r \in Requests
    <3>1. r \in Inserts
      BY HierarchyAssumption DEF Inserts, Present
    <3>2. QED BY <3>1 DEF Requests
  <2>2. task' = [task EXCEPT ![t] = r] /\ requests' = requests + 1
    BY <1>1 DEF CreateUser, Ask
  <2> HIDE DEF r
  <2>3. task' \in [Tasks -> Requests] /\ requests' \in 0..MaxRequests
    BY <1>1, <2>1, <2>2, Moved, Counted DEF May
  <2>4. QED BY <1>1, <2>3 DEF CreateUser, Ask, money, switches, shares, TypeInv
<1>2. ASSUME May("create", t), NEW agent \in Present, CreateClient(t, agent)
      PROVE  TypeInv'
  <2> DEFINE r == [pc |-> "insert", role |-> "CLIENT", money |-> 0, parent |-> agent, share |-> 100]
  <2>1. r \in Requests
    <3>1. r \in Inserts
      BY DEF Inserts, Present, Roles
    <3>2. QED BY <3>1 DEF Requests
  <2>2. task' = [task EXCEPT ![t] = r] /\ requests' = requests + 1
    BY <1>2 DEF CreateClient, Ask
  <2> HIDE DEF r
  <2>3. task' \in [Tasks -> Requests] /\ requests' \in 0..MaxRequests
    BY <1>2, <2>1, <2>2, Moved, Counted DEF May
  <2>4. QED BY <1>2, <2>3 DEF CreateClient, Ask, money, switches, shares, TypeInv
<1>3. CASE InsertUser(t)
  <2>1. PICK u \in Users \ Present :
          /\ user' = [user EXCEPT ![u] = [role |-> task[t].role, parent |-> task[t].parent,
                                          share |-> task[t].share, active |-> TRUE, betting |-> TRUE]]
          /\ Continue(t, IF task[t].role = "SETTLEMENT_ADMIN" THEN Idle
                         ELSE [pc |-> "wallet", of |-> u, money |-> task[t].money])
    BY <1>3 DEF InsertUser
  <2>2. task[t] \in Inserts
    BY <1>3, Kind DEF InsertUser
  <2>3. user' \in [Users -> UserRows]
    <3> DEFINE new == [role |-> task[t].role, parent |-> task[t].parent, share |-> task[t].share,
                       active |-> TRUE, betting |-> TRUE]
    <3>1. new \in UserRows
      BY <2>2 DEF UserRows, Inserts
    <3> HIDE DEF new
    <3>2. user' = [user EXCEPT ![u] = new]
      BY <2>1 DEF new
    <3>3. QED BY <3>1, <3>2 DEF TypeInv
  <2>4. Idle \in Requests /\ [pc |-> "wallet", of |-> u, money |-> task[t].money] \in Requests
    <3>1. [pc |-> "wallet", of |-> u, money |-> task[t].money] \in WalletRequests
      BY <2>2 DEF WalletRequests, Inserts
    <3>2. QED BY <3>1 DEF Requests
  <2>5. task' \in [Tasks -> Requests]
    BY <2>1, <2>4, Moved DEF Continue
  <2>6. QED BY <1>3, <2>1, <2>3, <2>5 DEF InsertUser, Continue, money, switches, shares, TypeInv
<1>4. CASE InsertWallet(t)
  <2>1. task[t] \in WalletRequests
    BY <1>4, Kind DEF InsertWallet
  <2>2. task' \in [Tasks -> Requests]
    <3>1. Idle \in Requests
      BY DEF Requests
    <3>2. QED BY <1>4, <3>1, Moved DEF InsertWallet, Continue
  <2>3. wallet' \in [DOMAIN wallet' -> Int] /\ opening' \in [Users -> Int] /\ log' = log
    <3>1. task[t].money \in Int
      BY <2>1 DEF WalletRequests
    <3>2. CASE HasWallet(task[t].of)
      BY <1>4, <3>2 DEF InsertWallet, money, TypeInv
    <3>3. CASE ~HasWallet(task[t].of)
      <4>1. /\ wallet' = [u \in DOMAIN wallet \union {task[t].of} |-> IF u = task[t].of THEN task[t].money
                                                                     ELSE wallet[u]]
            /\ opening' = [opening EXCEPT ![task[t].of] = task[t].money]
            /\ log' = log
        BY <1>4, <3>3 DEF InsertWallet
      <4>2. QED BY <3>1, <4>1 DEF TypeInv
    <3>4. QED BY <3>2, <3>3
  <2>4. QED BY <1>4, <2>2, <2>3 DEF InsertWallet, Continue, switches, shares, TypeInv
<1>5. CASE WalletFails(t)
  <2>1. Idle \in Requests
    BY DEF Requests
  <2>2. task' \in [Tasks -> Requests]
    BY <1>5, <2>1, Moved DEF WalletFails, Continue
  <2>3. QED BY <1>5, <2>2 DEF WalletFails, Continue, money, switches, shares, TypeInv
<1>6. QED BY <1>1, <1>2, <1>3, <1>4, <1>5 DEF Creation

LEMMA TypeDecided ==
  ASSUME TypeInv, NEW t \in Tasks, NEW who \in SUBSET Users, NEW on \in BOOLEAN,
         Writes(who, on) \/ Decides(t, who, on)
  PROVE  decided' \subseteq Users \X BOOLEAN /\ due' \in [Tasks -> SUBSET Users]
<1>1. Agreeing(who, on) \subseteq Users \X BOOLEAN /\ Agreeing(who \union due[t], on) \subseteq Users \X BOOLEAN
  BY DEF Agreeing, TypeInv
<1>2. Overrides(who, on) \in [Tasks -> SUBSET Users]
  BY DEF Overrides, TypeInv
<1>3. due[t] \X {on} \subseteq Users \X BOOLEAN
  BY DEF TypeInv
<1>4. CASE Writes(who, on)
  BY <1>1, <1>2, <1>4 DEF Writes
<1>5. CASE Decides(t, who, on)
  BY <1>1, <1>2, <1>3, <1>5 DEF Decides
<1>6. QED BY <1>4, <1>5

\* What a switch asks for, and for whom.
LEMMA Asking ==
  ASSUME TypeInv, NEW t \in Tasks, NEW actor \in Present, NEW target \in Present, NEW on \in BOOLEAN,
         \/ ToggleUserStatus(t, actor, target, on)
         \/ \E include \in BOOLEAN : SetBettingEnabled(t, actor, target, on, include)
  PROVE  \E handler \in {"status", "betting"}, deep \in BOOLEAN :
           /\ Ask(t, Request(handler, target, on, deep))
           /\ due' = [due EXCEPT ![t] = {target} \union IF deep THEN Downline(target) ELSE {}]
           /\ UNCHANGED <<user, money, shares, decided>>
<1>1. CASE ToggleUserStatus(t, actor, target, on)
  <2>1. Ask(t, Request("status", target, on, TRUE)) /\ Concerns(t, Request("status", target, on, TRUE))
    BY <1>1 DEF ToggleUserStatus
  <2>2. due' = [due EXCEPT ![t] = {target} \union IF TRUE THEN Downline(target) ELSE {}]
    BY <2>1 DEF Concerns, Request
  <2>3. QED BY <1>1, <2>1, <2>2 DEF ToggleUserStatus
<1>2. ASSUME NEW include \in BOOLEAN, SetBettingEnabled(t, actor, target, on, include)
      PROVE  \E deep \in BOOLEAN :
               /\ Ask(t, Request("betting", target, on, deep))
               /\ due' = [due EXCEPT ![t] = {target} \union IF deep THEN Downline(target) ELSE {}]
               /\ UNCHANGED <<user, money, shares, decided>>
  <2> DEFINE deep == include \/ (~on /\ user[target].role \in {"AGENT", "ADMIN"})
  <2>1. /\ Ask(t, Request("betting", target, on, deep)) /\ Concerns(t, Request("betting", target, on, deep))
        /\ UNCHANGED <<user, money, shares, decided>>
    BY <1>2 DEF SetBettingEnabled, AppliesToDownline
  <2>2. deep \in BOOLEAN
    OBVIOUS
  <2> HIDE DEF deep
  <2>3. due' = [due EXCEPT ![t] = {target} \union IF deep THEN Downline(target) ELSE {}]
    BY <2>1 DEF Concerns, Request
  <2>4. QED BY <2>1, <2>2, <2>3
<1>3. QED BY <1>1, <1>2

LEMMA RequestTyped ==
  ASSUME NEW handler \in {"status", "betting"}, NEW target \in Users, NEW on \in BOOLEAN, NEW deep \in BOOLEAN
  PROVE  Request(handler, target, on, deep) \in Switches
BY DEF Request, Switches

LEMMA TypeSwitching ==
  ASSUME TypeInv, NEW t \in Tasks, Switching(t)
  PROVE  TypeInv'
<1>1. ASSUME May("switch", t), NEW actor \in Present, NEW target \in Present, NEW on \in BOOLEAN,
             \/ ToggleUserStatus(t, actor, target, on)
             \/ \E include \in BOOLEAN : SetBettingEnabled(t, actor, target, on, include)
      PROVE  TypeInv'
  <2>1. PICK handler \in {"status", "betting"}, deep \in BOOLEAN :
           /\ Ask(t, Request(handler, target, on, deep))
           /\ due' = [due EXCEPT ![t] = {target} \union IF deep THEN Downline(target) ELSE {}]
           /\ UNCHANGED <<user, money, shares, decided>>
    BY <1>1, Asking
  <2>2. Request(handler, target, on, deep) \in Requests
    BY RequestTyped DEF Present, Requests
  <2>3. task' \in [Tasks -> Requests] /\ requests' \in 0..MaxRequests /\ mix' = mix
    BY <1>1, <2>1, <2>2, Moved, Counted DEF May, Ask
  <2>4. due' \in [Tasks -> SUBSET Users]
    <3>1. {target} \union (IF deep THEN Downline(target) ELSE {}) \subseteq Users
      BY DEF Present, Downline
    <3>2. QED BY <2>1, <3>1 DEF TypeInv
  <2>5. QED BY <2>1, <2>3, <2>4 DEF money, shares, TypeInv
<1>2. CASE SwitchTarget(t)
  <2> DEFINE r == task[t]
             next == [r EXCEPT !.pc = "level"]
  <2>1. r \in Switches
    BY <1>2, Kind DEF SwitchTarget
  <2>2. user' \in [Users -> UserRows]
    <3> DEFINE x == r.target
               b == r.on
               active == IF r.handler = "status" THEN r.on ELSE user[x].active
               new == [user[x] EXCEPT !.betting = b, !.active = active]
    <3>1. x \in Users /\ b \in BOOLEAN /\ user[x] \in UserRows
      BY <2>1 DEF Switches, TypeInv
    <3>2. active \in BOOLEAN
      BY <3>1 DEF UserRows
    <3>3. new \in UserRows
      <4> HIDE DEF active, b, x
      <4>1. QED BY <3>1, <3>2 DEF UserRows
    <3>4. user' = [user EXCEPT ![x] = new]
      BY <1>2, <3>1 DEF SwitchTarget, TypeInv
    <3> HIDE DEF new
    <3>5. QED BY <3>1, <3>3, <3>4 DEF TypeInv
  <2>3. next \in Requests /\ Idle \in Requests
    <3>1. next \in Switches
      <4> HIDE DEF r
      <4>1. QED BY <2>1 DEF Switches
    <3>2. QED BY <3>1 DEF Requests
  <2>4. /\ Continue(t, next) \/ Continue(t, Idle)
        /\ Writes({r.target}, r.on) \/ Decides(t, {r.target}, r.on)
        /\ UNCHANGED <<money, shares>>
    BY <1>2 DEF SwitchTarget
  <2>5. decided' \subseteq Users \X BOOLEAN /\ due' \in [Tasks -> SUBSET Users]
    BY <2>1, <2>4, TypeDecided DEF Switches
  <2>6. task' \in [Tasks -> Requests] /\ mix' = mix /\ requests' = requests
    BY <2>3, <2>4, Moved DEF Continue
  <2>7. QED BY <2>2, <2>4, <2>5, <2>6 DEF money, shares, TypeInv
<1>3. CASE ReadLevel(t)
  <2>1. task[t] \in Switches
    BY <1>3, Kind DEF ReadLevel
  <2>2. NextLevel(t) \in Requests
    <3> DEFINE r == task[t]
               found == Children(r.level)
    <3>1. found \subseteq Users
      BY DEF Children, Present
    <3>2. NextLevel(t) = [r EXCEPT !.below = r.below \union found, !.level = found,
                                   !.pc = IF found = {} THEN "downline" ELSE r.pc]
      BY <2>1 DEF NextLevel, Switches
    <3> HIDE DEF r, found
    <3>3. r \in Switches
      BY <2>1 DEF r
    <3>4. NextLevel(t) \in Switches
      BY <3>1, <3>2, <3>3 DEF Switches
    <3>5. QED BY <3>4 DEF Requests
  <2>3. task' \in [Tasks -> Requests]
    BY <1>3, <2>2, Moved DEF ReadLevel, Continue
  <2>4. QED BY <1>3, <2>3 DEF ReadLevel, Continue, money, switches, shares, TypeInv
<1>4. CASE SwitchDownline(t)
  <2> DEFINE r == task[t]
  <2>1. r \in Switches
    BY <1>4, Kind DEF SwitchDownline
  <2>2. user' \in [Users -> UserRows]
    <3>1. r.on \in BOOLEAN
      BY <2>1 DEF Switches
    <3>2. user' = [u \in Users |-> IF u \in r.below THEN [user[u] EXCEPT !.betting = r.on] ELSE user[u]]
      BY <1>4 DEF SwitchDownline
    <3> DEFINE b == r.on
               below == r.below
    <3> HIDE DEF b, below
    <3>3. user' = [u \in Users |-> IF u \in below THEN [user[u] EXCEPT !.betting = b] ELSE user[u]]
      BY <3>2 DEF b, below
    <3>4. \A u \in Users : [user[u] EXCEPT !.betting = b] \in UserRows
      <4> SUFFICES ASSUME NEW u \in Users PROVE [user[u] EXCEPT !.betting = b] \in UserRows
        OBVIOUS
      <4>1. user[u] \in UserRows /\ b \in BOOLEAN
        BY <3>1 DEF TypeInv, b
      <4>2. QED BY <4>1 DEF UserRows
    <3>5. QED BY <3>3, <3>4 DEF TypeInv
  <2>3. Decides(t, r.below, r.on) /\ Continue(t, Idle) /\ UNCHANGED <<money, shares>>
    BY <1>4 DEF SwitchDownline
  <2>4. decided' \subseteq Users \X BOOLEAN /\ due' \in [Tasks -> SUBSET Users]
    BY <2>1, <2>3, TypeDecided DEF Switches
  <2>5. Idle \in Requests
    BY DEF Requests
  <2>6. task' \in [Tasks -> Requests] /\ mix' = mix /\ requests' = requests
    BY <2>3, <2>5, Moved DEF Continue
  <2>7. QED BY <2>2, <2>3, <2>4, <2>6 DEF money, shares, TypeInv
<1>5. QED BY <1>1, <1>2, <1>3, <1>4 DEF Switching

LEMMA TypeTransferring ==
  ASSUME TypeInv, NEW t \in Tasks, Transferring(t)
  PROVE  TypeInv'
<1>1. ASSUME May("transfer", t), NEW actor \in Present, NEW target \in Present, NEW amount \in Amounts,
             NEW up \in BOOLEAN, Transfer(t, actor, target, amount, up)
      PROVE  TypeInv'
  <2> DEFINE r == [pc |-> "wallets", from |-> IF up THEN actor ELSE target,
                   to |-> IF up THEN target ELSE actor, up |-> up, amount |-> amount]
  <2>1. r \in Requests
    <3>1. r \in Asked
      BY HierarchyAssumption DEF Asked, Present
    <3>2. QED BY <3>1 DEF Requests
  <2>2. task' = [task EXCEPT ![t] = r] /\ requests' = requests + 1
    BY <1>1 DEF Transfer, Ask
  <2> HIDE DEF r
  <2>3. task' \in [Tasks -> Requests] /\ requests' \in 0..MaxRequests
    BY <1>1, <2>1, <2>2, Moved, Counted DEF May
  <2>4. QED BY <1>1, <2>3 DEF Transfer, Ask, money, switches, shares, TypeInv
<1>2. CASE ReadWallets(t)
  <2> DEFINE r == task[t]
             missing == {u \in PayingFrom(r) \union {r.to} : ~HasWallet(u)}
             next == [pc |-> "transfer", from |-> r.from, to |-> r.to, up |-> r.up,
                      amount |-> r.amount, made |-> missing]
  <2>1. r \in Asked
    BY <1>2, Kind DEF ReadWallets
  <2>2. next \in Requests /\ Idle \in Requests
    <3>1. missing \subseteq Users
      BY <2>1 DEF PayingFrom, Asked
    <3>2. next \in Transfers
      <4> HIDE DEF r, missing
      <4>1. QED BY <2>1, <3>1 DEF Transfers, Asked
    <3>3. QED BY <3>2 DEF Requests
  <2>3. Continue(t, next) \/ Continue(t, Idle)
    BY <1>2 DEF ReadWallets
  <2> HIDE DEF next
  <2>4. task' \in [Tasks -> Requests] /\ mix' = mix /\ requests' = requests
    BY <2>2, <2>3, Moved DEF Continue
  <2>5. QED BY <1>2, <2>4 DEF ReadWallets, money, switches, shares, TypeInv
<1>3. CASE CommitTransfer(t)
  <2> DEFINE r == task[t]
             entry == [nr |-> Cardinality(log), from |-> r.from, to |-> r.to, amount |-> r.amount, up |-> r.up]
  <2>1. r \in Transfers
    BY <1>3, Kind DEF CommitTransfer
  <2>2. wallet' = [u \in DOMAIN wallet \union PayingFrom(r) \union {r.to} |-> Balance(u) + Paid(r, u)]
    BY <1>3 DEF CommitTransfer
  <2>3. \A u : Balance(u) \in Int /\ Paid(r, u) \in Int
    <3>1. \A u : Balance(u) \in Int
      BY DEF Balance, HasWallet, TypeInv
    <3>2. r.amount \in Int
      BY <2>1 DEF Transfers
    <3>3. \A u : Paid(r, u) \in Int
      BY <3>2 DEF Paid
    <3>4. QED BY <3>1, <3>3
  <2>4. wallet' \in [DOMAIN wallet' -> Int]
    BY <2>2, <2>3
  <2>5. log' = log \union {entry}
    BY <1>3 DEF CommitTransfer
  <2>6. Idle \in Requests
    BY DEF Requests
  <2>7. task' \in [Tasks -> Requests] /\ mix' = mix /\ requests' = requests
    BY <1>3, <2>6, Moved DEF Continue, CommitTransfer
  <2>8. log' \subseteq Entries /\ IsFiniteSet(log')
    <3>1. IsFiniteSet(log) /\ log \subseteq Entries
      BY DEF TypeInv
    <3>2. entry \in Entries
      <4>1. Cardinality(log) \in Nat
        BY <3>1, FS_CardinalityType
      <4> HIDE DEF r
      <4>2. QED BY <2>1, <4>1 DEF Entries, Transfers
    <3> HIDE DEF entry
    <3>3. QED BY <2>5, <3>1, <3>2, FS_AddElement
  <2>9. QED BY <1>3, <2>4, <2>7, <2>8 DEF CommitTransfer, switches, shares, TypeInv
<1>4. CASE TransferFails(t)
  <2>1. Idle \in Requests
    BY DEF Requests
  <2>2. task' \in [Tasks -> Requests]
    BY <1>4, <2>1, Moved DEF TransferFails, Continue
  <2>3. QED BY <1>4, <2>2 DEF TransferFails, Continue, money, switches, shares, TypeInv
<1>5. QED BY <1>1, <1>2, <1>3, <1>4 DEF Transferring

LEMMA TypeDistribution ==
  ASSUME TypeInv, NEW t \in Tasks, Distribution(t)
  PROVE  TypeInv'
<1> DEFINE r == task[t]
<1>1. ASSUME May("distribute", t), NEW client \in Present, NEW net \in {-1, 1}, Distribute(t, client, net)
      PROVE  TypeInv'
  <2> DEFINE doomed == {q \in rows : q.client = client}
             next == [pc |-> "delete", run |-> requests, client |-> client, net |-> net, doomed |-> doomed]
  <2>1. next \in Requests
    <3>1. next \in Deletes
      BY HierarchyAssumption DEF Deletes, Present, TypeInv
    <3>2. QED BY <3>1 DEF Requests
  <2>2. task' = [task EXCEPT ![t] = next] /\ requests' = requests + 1
    BY <1>1 DEF Distribute, Ask
  <2> HIDE DEF next
  <2>3. task' \in [Tasks -> Requests] /\ requests' \in 0..MaxRequests
    BY <1>1, <2>1, <2>2, Moved, Counted DEF May
  <2>4. QED BY <1>1, <2>3 DEF Distribute, Ask, money, switches, TypeInv
<1>2. CASE DeleteRows(t)
  <2> DEFINE next == [pc |-> "walk", run |-> r.run, client |-> r.client, net |-> r.net,
                      doomed |-> r.doomed \intersect rows, at |-> r.client, child |-> 100,
                      total |-> 0, made |-> {}]
  <2>1. r \in Deletes
    BY <1>2, Kind DEF DeleteRows
  <2>2. next \in Requests
    <3>1. next \in Walks
      <4> HIDE DEF r
      <4>1. QED BY <2>1 DEF Deletes, Walks
    <3>2. QED BY <3>1 DEF Requests
  <2>3. task' = [task EXCEPT ![t] = next]
    BY <1>2 DEF DeleteRows, Continue
  <2> HIDE DEF next
  <2>4. task' \in [Tasks -> Requests]
    BY <2>2, <2>3, Moved
  <2>5. QED BY <1>2, <2>4 DEF DeleteRows, Continue, money, switches, shares, TypeInv
<1>3. CASE WalkUp(t)
  <2> DEFINE parent == user[r.at].parent
             amount == (0 - r.net) * (r.child - user[parent].share)
             row == [client |-> r.client, to |-> parent, amount |-> amount,
                     run |-> r.run, net |-> r.net, rest |-> FALSE]
             next == [r EXCEPT !.at = parent, !.child = user[parent].share, !.total = r.total + amount,
                               !.made = r.made \union {row}]
  <2>1. r \in Walks
    BY <1>3, Kind DEF WalkUp
  <2>2. parent \in Users /\ user[parent].share \in Int
    <3>1. r.at \in Users
      BY <2>1 DEF Walks
    <3>2. parent \in Users
      BY <1>3, <3>1 DEF WalkUp, TypeInv, UserRows
    <3> HIDE DEF parent
    <3>3. QED BY <3>2 DEF TypeInv, UserRows
  <2>3. amount \in Int
    <3> DEFINE share == user[parent].share
    <3>1. r.net \in Int /\ r.child \in Int /\ share \in Int
      BY <2>1, <2>2 DEF Walks
    <3> HIDE DEF share
    <3> DEFINE x == r.net
               y == r.child
    <3>2. (0 - x) * (y - share) \in Int
      <4> HIDE DEF x, y
      <4>1. x \in Int /\ y \in Int /\ share \in Int
        BY <3>1 DEF x, y
      <4>2. QED BY <4>1
    <3>3. QED BY <3>2 DEF share
  <2>4. row \in Rows
    <3> HIDE DEF r, parent, amount
    <3>1. QED BY <2>1, <2>2, <2>3 DEF Rows, Walks
  <2>5. next \in Requests
    <3> HIDE DEF r, parent, amount, row
    <3>1. r.made \union {row} \in SUBSET Rows /\ r.total + amount \in Int
      BY <2>1, <2>3, <2>4 DEF Walks
    <3>2. next \in Walks
      BY <2>1, <2>2, <3>1 DEF Walks
    <3>3. QED BY <3>2 DEF Requests
  <2>6. task' = [task EXCEPT ![t] = next]
    BY <1>3, <2>1 DEF WalkUp, Continue, Walks
  <2> HIDE DEF next
  <2>7. task' \in [Tasks -> Requests]
    BY <2>5, <2>6, Moved
  <2>8. QED BY <1>3, <2>7 DEF WalkUp, Continue, money, switches, shares, TypeInv
<1>4. CASE CommitRows(t)
  <2> DEFINE rest == [client |-> r.client, to |-> r.at, amount |-> Remainder(r),
                      run |-> r.run, net |-> r.net, rest |-> TRUE]
  <2>1. r \in Walks
    BY <1>4, Kind DEF CommitRows
  <2>2. rest \in Rows
    <3>1. Remainder(r) \in Int
      BY <2>1 DEF Remainder, Walks
    <3> DEFINE x == Remainder(r)
    <3> HIDE DEF r, x
    <3>2. QED BY <2>1, <3>1 DEF Rows, Walks, x
  <2>3. rows' \subseteq Rows
    <3>1. rows' = (rows \ Deleted(r)) \union r.made \union (IF Remainder(r) = 0 THEN {} ELSE {rest})
      BY <1>4 DEF CommitRows
    <3>2. rows \subseteq Rows /\ r.made \subseteq Rows
      BY <2>1 DEF TypeInv, Walks
    <3> HIDE DEF rest, r
    <3>3. QED BY <2>2, <3>1, <3>2
  <2>4. Idle \in Requests
    BY DEF Requests
  <2>5. task' \in [Tasks -> Requests] /\ mix' = mix /\ requests' = requests
    BY <1>4, <2>4, Moved DEF Continue, CommitRows
  <2>6. QED BY <1>4, <2>3, <2>5 DEF CommitRows, money, switches, TypeInv
<1>5. CASE DistributionFails(t)
  <2>1. Idle \in Requests
    BY DEF Requests
  <2>2. task' \in [Tasks -> Requests]
    BY <1>5, <2>1, Moved DEF DistributionFails, Continue
  <2>3. QED BY <1>5, <2>2 DEF DistributionFails, Continue, money, switches, shares, TypeInv
<1>6. QED BY <1>1, <1>2, <1>3, <1>4, <1>5 DEF Distribution

LEMMA TypeCommission ==
  ASSUME TypeInv, NEW actor \in Present, NEW target \in Present, NEW share \in Shares,
         UpdateCommission(actor, target, share)
  PROVE  TypeInv'
<1>1. user' \in [Users -> UserRows]
  <2>1. target \in Users /\ user[target] \in UserRows /\ share \in 0..100
    BY HierarchyAssumption DEF Present, TypeInv
  <2>2. [user[target] EXCEPT !.share = share] \in UserRows
    BY <2>1 DEF UserRows
  <2>3. user' = [user EXCEPT ![target] = [user[target] EXCEPT !.share = share]]
    BY <2>1 DEF UpdateCommission, TypeInv
  <2>4. QED BY <2>1, <2>2, <2>3 DEF TypeInv
<1>2. requests' \in 0..MaxRequests
  BY Counted DEF UpdateCommission
<1>3. QED BY <1>1, <1>2 DEF UpdateCommission, money, switches, shares, TypeInv

LEMMA TypeStep == TypeInv /\ [Next]_vars => TypeInv'
<1>1. TypeInv /\ UNCHANGED vars => TypeInv'
  BY DEF TypeInv, vars
<1>2. TypeInv /\ Next => TypeInv'
  BY TypeCreation, TypeSwitching, TypeTransferring, TypeDistribution, TypeCommission DEF Next
<1>3. QED BY <1>1, <1>2

THEOREM TypeInvariant == Spec => []TypeInv
BY TypeInit, TypeStep, PTL DEF Spec

-----------------------------------------------------------------------------
(* The tree *)

\* One request moves on.
Goes(t, pcs) ==
  /\ task[t].pc \in pcs /\ task'[t].pc \in pcs
  /\ \A s \in Tasks : s # t => task'[s] = task[s]

SwitchPcs == {"target", "level", "downline"}

LEMMA Moves ==
  ASSUME TypeInv, NEW t \in Tasks, NEW r, Ask(t, r) \/ Continue(t, r)
  PROVE  task'[t] = r /\ \A s \in Tasks : s # t => task'[s] = task[s]
BY DEF TypeInv, Ask, Continue

LEMMA CreationGoes ==
  ASSUME TypeInv, NEW t \in Tasks, Creation(t)
  PROVE  Goes(t, {"idle", "insert", "wallet"})
<1>1. Idle.pc = "idle"
  BY DEF Idle
<1>2. ASSUME May("create", t), NEW creator, NEW n, CreateUser(t, creator, n.role, n.share, n.money)
      PROVE  Goes(t, {"idle", "insert", "wallet"})
  <2> DEFINE r == [pc |-> "insert", role |-> n.role, money |-> n.money,
                   parent |-> IF n.role \in Tops THEN None ELSE creator,
                   share |-> IF n.role \in {"CLIENT", "SETTLEMENT_ADMIN"} THEN 0 ELSE n.share]
  <2>1. Ask(t, r)
    BY <1>2 DEF CreateUser
  <2>2. r.pc = "insert"
    OBVIOUS
  <2> HIDE DEF r
  <2>3. task'[t] = r /\ \A s \in Tasks : s # t => task'[s] = task[s]
    BY <2>1, Moves
  <2>4. QED BY <1>1, <1>2, <2>2, <2>3 DEF May, Goes
<1>3. ASSUME May("create", t), NEW agent, CreateClient(t, agent)
      PROVE  Goes(t, {"idle", "insert", "wallet"})
  <2> DEFINE r == [pc |-> "insert", role |-> "CLIENT", money |-> 0, parent |-> agent, share |-> 100]
  <2>1. Ask(t, r)
    BY <1>3 DEF CreateClient
  <2>2. task'[t] = r /\ \A s \in Tasks : s # t => task'[s] = task[s]
    BY <2>1, Moves
  <2>3. QED BY <1>1, <1>3, <2>2 DEF May, Goes
<1>4. CASE InsertUser(t)
  <2>1. PICK u \in Users \ Present :
          Continue(t, IF task[t].role = "SETTLEMENT_ADMIN" THEN Idle
                      ELSE [pc |-> "wallet", of |-> u, money |-> task[t].money])
    BY <1>4 DEF InsertUser
  <2> DEFINE r == IF task[t].role = "SETTLEMENT_ADMIN" THEN Idle
                  ELSE [pc |-> "wallet", of |-> u, money |-> task[t].money]
  <2>2. r.pc \in {"idle", "wallet"}
    BY <1>1
  <2> HIDE DEF r
  <2>3. task'[t] = r /\ \A s \in Tasks : s # t => task'[s] = task[s]
    BY <2>1, Moves DEF r
  <2>4. QED BY <1>4, <2>2, <2>3 DEF InsertUser, Goes
<1>5. CASE InsertWallet(t) \/ WalletFails(t)
  BY <1>1, <1>5, Moves DEF InsertWallet, WalletFails, Goes
<1>6. QED BY <1>2, <1>3, <1>4, <1>5 DEF Creation

LEMMA SwitchingGoes ==
  ASSUME TypeInv, NEW t \in Tasks, Switching(t)
  PROVE  Goes(t, {"idle"} \union SwitchPcs)
<1>1. Idle.pc = "idle"
  BY DEF Idle
<1>2. ASSUME May("switch", t), NEW actor \in Present, NEW target \in Present, NEW on \in BOOLEAN,
             \/ ToggleUserStatus(t, actor, target, on)
             \/ \E include \in BOOLEAN : SetBettingEnabled(t, actor, target, on, include)
      PROVE  Goes(t, {"idle"} \union SwitchPcs)
  <2>1. PICK handler \in {"status", "betting"}, deep \in BOOLEAN : Ask(t, Request(handler, target, on, deep))
    BY <1>2, Asking
  <2>2. Request(handler, target, on, deep).pc = "target"
    BY DEF Request
  <2>3. QED BY <1>1, <1>2, <2>1, <2>2, Moves DEF May, Goes, SwitchPcs
<1>3. CASE SwitchTarget(t)
  <2> DEFINE r == task[t]
             next == [r EXCEPT !.pc = "level"]
  <2>1. Continue(t, next) \/ Continue(t, Idle)
    BY <1>3 DEF SwitchTarget
  <2>2. next.pc = "level"
    BY <1>3, Kind DEF SwitchTarget, Switches
  <2> HIDE DEF next
  <2>3. QED BY <1>1, <1>3, <2>1, <2>2, Moves DEF SwitchTarget, Goes, SwitchPcs
<1>4. CASE ReadLevel(t)
  <2>1. NextLevel(t).pc \in {"level", "downline"}
    BY <1>4, Kind DEF ReadLevel, NextLevel, Switches
  <2>2. QED BY <1>4, <2>1, Moves DEF ReadLevel, Goes, SwitchPcs
<1>5. CASE SwitchDownline(t)
  BY <1>1, <1>5, Moves DEF SwitchDownline, Goes, SwitchPcs
<1>6. QED BY <1>2, <1>3, <1>4, <1>5 DEF Switching

LEMMA TransferringGoes ==
  ASSUME TypeInv, NEW t \in Tasks, Transferring(t)
  PROVE  Goes(t, {"idle", "wallets", "transfer"})
<1>1. Idle.pc = "idle"
  BY DEF Idle
<1>2. ASSUME May("transfer", t), NEW actor, NEW target, NEW amount, NEW up, Transfer(t, actor, target, amount, up)
      PROVE  Goes(t, {"idle", "wallets", "transfer"})
  <2> DEFINE r == [pc |-> "wallets", from |-> IF up THEN actor ELSE target,
                   to |-> IF up THEN target ELSE actor, up |-> up, amount |-> amount]
  <2>1. Ask(t, r) /\ r.pc = "wallets"
    BY <1>2 DEF Transfer
  <2> HIDE DEF r
  <2>2. QED BY <1>1, <1>2, <2>1, Moves DEF May, Goes
<1>3. CASE ReadWallets(t)
  <2> DEFINE r == task[t]
             missing == {u \in PayingFrom(r) \union {r.to} : ~HasWallet(u)}
             next == [pc |-> "transfer", from |-> r.from, to |-> r.to, up |-> r.up,
                      amount |-> r.amount, made |-> missing]
  <2>1. (Continue(t, next) \/ Continue(t, Idle)) /\ next.pc = "transfer"
    BY <1>3 DEF ReadWallets
  <2> HIDE DEF next
  <2>2. QED BY <1>1, <1>3, <2>1, Moves DEF ReadWallets, Goes
<1>4. CASE CommitTransfer(t) \/ TransferFails(t)
  BY <1>1, <1>4, Moves DEF CommitTransfer, TransferFails, Goes
<1>5. QED BY <1>2, <1>3, <1>4 DEF Transferring

LEMMA DistributionGoes ==
  ASSUME TypeInv, NEW t \in Tasks, Distribution(t)
  PROVE  Goes(t, {"idle", "delete", "walk"})
<1>1. Idle.pc = "idle"
  BY DEF Idle
<1>2. ASSUME May("distribute", t), NEW client, NEW net, Distribute(t, client, net)
      PROVE  Goes(t, {"idle", "delete", "walk"})
  <2> DEFINE r == [pc |-> "delete", run |-> requests, client |-> client, net |-> net,
                   doomed |-> {q \in rows : q.client = client}]
  <2>1. Ask(t, r) /\ r.pc = "delete"
    BY <1>2 DEF Distribute
  <2> HIDE DEF r
  <2>2. QED BY <1>1, <1>2, <2>1, Moves DEF May, Goes
<1>3. CASE DeleteRows(t)
  <2> DEFINE r == task[t]
             next == [pc |-> "walk", run |-> r.run, client |-> r.client, net |-> r.net,
                      doomed |-> r.doomed \intersect rows, at |-> r.client, child |-> 100,
                      total |-> 0, made |-> {}]
  <2>1. Continue(t, next) /\ next.pc = "walk"
    BY <1>3 DEF DeleteRows
  <2> HIDE DEF next
  <2>2. QED BY <1>3, <2>1, Moves DEF DeleteRows, Goes
<1>4. CASE WalkUp(t)
  <2>1. task[t] \in Walks
    BY <1>4, Kind DEF WalkUp
  <2>2. task'[t].pc = "walk" /\ \A s \in Tasks : s # t => task'[s] = task[s]
    BY <1>4, <2>1 DEF WalkUp, Continue, Walks, TypeInv
  <2>3. QED BY <1>4, <2>2 DEF WalkUp, Goes
<1>5. CASE CommitRows(t) \/ DistributionFails(t)
  BY <1>1, <1>5, Moves DEF CommitRows, DistributionFails, Distributing, Goes
<1>6. QED BY <1>2, <1>3, <1>4, <1>5 DEF Distribution

\* Users stay in the tree where they are; only InsertUser adds one.
LEMMA TreeChanges ==
  ASSUME TypeInv, [Next]_vars
  PROVE  \/ \E t \in Tasks : InsertUser(t)
         \/ \A u \in Users : user'[u].role = user[u].role /\ user'[u].parent = user[u].parent
<1> DEFINE Same == \A u \in Users : user'[u].role = user[u].role /\ user'[u].parent = user[u].parent
<1>1. ASSUME NEW t \in Tasks, SwitchTarget(t) PROVE Same
  <2> DEFINE r == task[t]
             active == IF r.handler = "status" THEN r.on ELSE user[r.target].active
             b == r.on
             x == r.target
  <2>1. r \in Switches
    BY <1>1, Kind DEF SwitchTarget
  <2>2. x \in Users
    BY <2>1 DEF Switches
  <2>3. user' = [user EXCEPT ![x] = [user[x] EXCEPT !.betting = b, !.active = active]]
    BY <1>1, <2>2 DEF SwitchTarget, TypeInv
  <2> HIDE DEF x, b, active
  <2>4. user[x] \in UserRows
    BY <2>2 DEF TypeInv
  <2>5. user'[x].role = user[x].role /\ user'[x].parent = user[x].parent
    BY <2>2, <2>3, <2>4 DEF UserRows, TypeInv
  <2>6. \A u \in Users : u # x => user'[u] = user[u]
    BY <2>3 DEF TypeInv
  <2>7. QED BY <2>5, <2>6
<1>2. ASSUME NEW t \in Tasks, SwitchDownline(t) PROVE Same
  <2> DEFINE b == task[t].on
  <2>1. \A u \in Users : user'[u] = IF u \in task[t].below THEN [user[u] EXCEPT !.betting = b] ELSE user[u]
    BY <1>2 DEF SwitchDownline
  <2> HIDE DEF b
  <2>2. ASSUME NEW u \in Users PROVE user'[u].role = user[u].role /\ user'[u].parent = user[u].parent
    <3>1. user[u] \in UserRows
      BY DEF TypeInv
    <3>2. [user[u] EXCEPT !.betting = b].role = user[u].role /\ [user[u] EXCEPT !.betting = b].parent = user[u].parent
      BY <3>1 DEF UserRows
    <3>3. QED BY <2>1, <3>2
  <2>3. QED BY <2>2
<1>3. ASSUME NEW actor, NEW target, NEW share, UpdateCommission(actor, target, share) PROVE Same
  <2>1. user' = [user EXCEPT ![target] = [user[target] EXCEPT !.share = share]]
    BY <1>3 DEF UpdateCommission
  <2>2. ASSUME NEW u \in Users PROVE user'[u].role = user[u].role /\ user'[u].parent = user[u].parent
    <3>1. user[u] \in UserRows
      BY DEF TypeInv
    <3>2. [user[u] EXCEPT !.share = share].role = user[u].role /\ [user[u] EXCEPT !.share = share].parent = user[u].parent
      BY <3>1 DEF UserRows
    <3>3. QED BY <2>1, <3>2 DEF TypeInv
  <2>3. QED BY <2>2
<1>4. user' = user => Same
  OBVIOUS
<1> HIDE DEF Same
<1>5. ASSUME NEW t \in Tasks, Creation(t) PROVE Same \/ InsertUser(t)
  BY <1>4, <1>5 DEF Creation, CreateUser, CreateClient, InsertWallet, WalletFails
<1>6. ASSUME NEW t \in Tasks, Switching(t) PROVE Same
  BY <1>1, <1>2, <1>4, <1>6 DEF Switching, ToggleUserStatus, SetBettingEnabled, ReadLevel
<1>7. ASSUME NEW t \in Tasks, Transferring(t) \/ Distribution(t) PROVE Same
  BY <1>4, <1>7 DEF Transferring, Transfer, ReadWallets, CommitTransfer, TransferFails,
                    Distribution, Distribute, DeleteRows, WalkUp, CommitRows, DistributionFails
<1>8. UNCHANGED vars => Same
  BY <1>4 DEF vars
<1>9. (\E t \in Tasks : InsertUser(t)) \/ Same
  BY <1>3, <1>5, <1>6, <1>7, <1>8 DEF Next
<1>10. QED BY <1>9 DEF Same

Keeps == \A u \in Present : u \in Present' /\ user'[u].role = user[u].role /\ user'[u].parent = user[u].parent

LEMMA UsersStay ==
  ASSUME TypeInv, [Next]_vars
  PROVE  Keeps
<1>1. ASSUME NEW t \in Tasks, InsertUser(t) PROVE Keeps
  BY <1>1 DEF InsertUser, Keeps, TypeInv, Present
<1>2. QED BY <1>1, TreeChanges DEF Keeps, Present

LEMMA TreeInit == Init => TreeInv
<1> SUFFICES ASSUME Init PROVE TreeInv
  OBVIOUS
<1>1. \A t \in Tasks : task[t].pc = "idle"
  BY DEF Init, Idle
<1>2. \A u \in Users : user[u] = IF u \in DOMAIN First THEN First[u] ELSE Absent
  BY DEF Init
<1>3. Present = DOMAIN First
  <2>1. \A u \in DOMAIN First : u \in Users /\ First[u].role \in Roles
    BY HierarchyAssumption DEF UserRecord
  <2>2. Absent.role = None /\ None \notin Roles
    BY DEF Absent, None, Roles
  <2>3. QED BY <1>2, <2>1, <2>2 DEF Present
<1>4. \A u \in Present : Fits(user[u].parent, user[u].role)
  BY <1>2, <1>3, HierarchyAssumption DEF Fits
<1>5. DOMAIN wallet \subseteq Present
  BY <1>3 DEF Init
<1>6. QED BY <1>1, <1>4, <1>5 DEF TreeInv

LEMMA TreeStep == TypeInv /\ TypeInv' /\ TreeInv /\ [Next]_vars => TreeInv'
<1> SUFFICES ASSUME TypeInv, TypeInv', TreeInv, [Next]_vars PROVE TreeInv'
  OBVIOUS
<1>1. Keeps /\ Present \subseteq Present'
  BY UsersStay DEF Keeps
<1>2. ASSUME NEW parent, NEW role, Fits(parent, role) PROVE Fits(parent, role)'
  BY <1>1, <1>2 DEF Fits, Keeps
<1>3. ASSUME NEW u \in Present' PROVE Fits(user[u].parent, user[u].role)'
  <2>1. CASE u \in Present
    <3>1. Fits(user[u].parent, user[u].role)
      BY <2>1 DEF TreeInv
    <3>2. user'[u].role = user[u].role /\ user'[u].parent = user[u].parent
      BY <1>1, <2>1 DEF Keeps
    <3>3. QED BY <1>1, <3>1, <3>2 DEF Fits, Keeps
  <2>2. CASE u \notin Present
    <3>1. PICK t \in Tasks : InsertUser(t)
      BY <2>2, TreeChanges DEF Present
    <3>2. user'[u].role = task[t].role /\ user'[u].parent = task[t].parent
      BY <2>2, <3>1 DEF InsertUser, TypeInv, Present
    <3>3. Fits(task[t].parent, task[t].role)
      BY <3>1 DEF InsertUser, TreeInv
    <3>4. QED BY <1>1, <3>2, <3>3 DEF Fits, Keeps
  <2>3. QED BY <2>1, <2>2
<1> DEFINE Sound(s) ==
      /\ task'[s].pc = "insert" => Fits(task[s].parent, task[s].role)'
      /\ task'[s].pc = "wallet" => (task'[s].of) \in Present'
      /\ task'[s].pc \in {"wallets", "transfer"} => (task'[s].from) \in Present' /\ (task'[s].to) \in Present'
<1>4. ASSUME NEW s \in Tasks, task'[s] = task[s] PROVE Sound(s)
  BY <1>1, <1>4 DEF TreeInv, Fits, Keeps
<1>5. ASSUME NEW t \in Tasks, Creation(t) PROVE Sound(t) /\ DOMAIN wallet' \subseteq Present'
  <2>1. ASSUME NEW creator \in Present, NEW n \in Newcomers, CreateUser(t, creator, n.role, n.share, n.money)
        PROVE  Sound(t)
    <3> DEFINE role == n.role
               parent == IF role \in Tops THEN None ELSE creator
    <3>1. task'[t].pc = "insert" /\ task'[t].parent = parent /\ task'[t].role = role
      BY <2>1, Moves DEF CreateUser
    <3>2. CanCreate(user[creator].role, role)
      BY <2>1 DEF CreateUser
    <3>3. Fits(parent, role)
      BY <3>2, HierarchyAssumption DEF Fits, Present
    <3> HIDE DEF parent, role
    <3>4. QED BY <1>1, <3>1, <3>3 DEF Fits, Keeps
  <2>2. ASSUME NEW agent \in Present, CreateClient(t, agent) PROVE Sound(t)
    <3>1. task'[t].pc = "insert" /\ task'[t].parent = agent /\ task'[t].role = "CLIENT"
      BY <2>2, Moves DEF CreateClient
    <3>2. Fits(agent, "CLIENT")
      BY <2>2, HierarchyAssumption DEF CreateClient, Has, Fits, CanCreate, Tops, Present
    <3>3. QED BY <1>1, <3>1, <3>2 DEF Fits, Keeps
  <2>3. ASSUME InsertUser(t) PROVE Sound(t)
    <3>1. PICK u \in Users \ Present :
            /\ user' = [user EXCEPT ![u] = [role |-> task[t].role, parent |-> task[t].parent,
                                            share |-> task[t].share, active |-> TRUE, betting |-> TRUE]]
            /\ Continue(t, IF task[t].role = "SETTLEMENT_ADMIN" THEN Idle
                           ELSE [pc |-> "wallet", of |-> u, money |-> task[t].money])
      BY <2>3 DEF InsertUser
    <3>2. task[t].role \in Roles
      BY <2>3, Kind DEF InsertUser, Inserts
    <3>3. u \in Present'
      <4>1. user'[u].role = task[t].role
        BY <3>1 DEF TypeInv
      <4>2. QED BY <3>2, <4>1 DEF Present, Roles, None
    <3>4. task'[t] = Idle \/ task'[t] = [pc |-> "wallet", of |-> u, money |-> task[t].money]
      BY <3>1, Moves
    <3>5. CASE task'[t] = Idle
      BY <3>5 DEF Idle
    <3>6. CASE task'[t] = [pc |-> "wallet", of |-> u, money |-> task[t].money]
      BY <3>3, <3>6
    <3>7. QED BY <3>4, <3>5, <3>6
  <2>4. ASSUME InsertWallet(t) \/ WalletFails(t) PROVE Sound(t)
    <3>1. Continue(t, Idle)
      BY <2>4 DEF InsertWallet, WalletFails
    <3>2. task'[t] = Idle
      BY <3>1, Moves
    <3>3. QED BY <3>2 DEF Idle
  <2>5. CASE wallet' = wallet
    BY <1>1, <2>1, <2>2, <2>3, <2>4, <1>5, <2>5 DEF Creation, TreeInv
  <2>6. CASE InsertWallet(t)
    <3>1. task[t].of \in Present
      BY <2>6 DEF InsertWallet, TreeInv
    <3>2. DOMAIN wallet' \subseteq DOMAIN wallet \union {task[t].of}
      BY <2>6 DEF InsertWallet, money
    <3>3. QED BY <1>1, <2>4, <2>6, <3>1, <3>2 DEF TreeInv
  <2>7. wallet' = wallet \/ InsertWallet(t)
    BY <1>5 DEF Creation, CreateUser, CreateClient, InsertUser, WalletFails, money
  <2>8. QED BY <2>5, <2>6, <2>7
<1>6. ASSUME NEW t \in Tasks, Switching(t) PROVE Sound(t) /\ wallet' = wallet
  <2>1. wallet' = wallet
    BY <1>6 DEF Switching, ToggleUserStatus, SetBettingEnabled, SwitchTarget, ReadLevel, SwitchDownline, money
  <2>2. QED BY <1>6, <2>1, SwitchingGoes DEF Goes, SwitchPcs
<1>7. ASSUME NEW t \in Tasks, Transferring(t) PROVE Sound(t) /\ DOMAIN wallet' \subseteq Present'
  <2>1. ASSUME NEW actor \in Present, NEW target \in Present, NEW amount, NEW up, Transfer(t, actor, target, amount, up)
        PROVE  Sound(t) /\ wallet' = wallet
    <3> DEFINE from == IF up THEN actor ELSE target
               to == IF up THEN target ELSE actor
    <3>1. task'[t] = [pc |-> "wallets", from |-> from, to |-> to, up |-> up, amount |-> amount] /\ wallet' = wallet
      BY <2>1, Moves DEF Transfer, money
    <3>2. from \in Present /\ to \in Present
      OBVIOUS
    <3> HIDE DEF from, to
    <3>3. QED BY <1>1, <3>1, <3>2
  <2>2. ASSUME ReadWallets(t) PROVE Sound(t) /\ wallet' = wallet
    <3> DEFINE r == task[t]
               missing == {u \in PayingFrom(r) \union {r.to} : ~HasWallet(u)}
    <3>1. task'[t] = Idle \/ task'[t] = [pc |-> "transfer", from |-> r.from, to |-> r.to, up |-> r.up,
                                         amount |-> r.amount, made |-> missing]
      BY <2>2, Moves DEF ReadWallets
    <3>2. r.from \in Present /\ r.to \in Present /\ wallet' = wallet
      BY <2>2 DEF ReadWallets, TreeInv, money
    <3> HIDE DEF r, missing
    <3>3. QED BY <1>1, <3>1, <3>2 DEF Idle
  <2>3. ASSUME CommitTransfer(t) PROVE Sound(t) /\ DOMAIN wallet' \subseteq Present'
    <3>1. task'[t] = Idle
      BY <2>3, Moves DEF CommitTransfer
    <3>2. task[t].from \in Present /\ task[t].to \in Present
      BY <2>3 DEF CommitTransfer, TreeInv
    <3>3. DOMAIN wallet' = DOMAIN wallet \union PayingFrom(task[t]) \union {task[t].to}
      BY <2>3 DEF CommitTransfer
    <3>4. DOMAIN wallet' \subseteq Present
      BY <3>2, <3>3 DEF PayingFrom, TreeInv
    <3>5. QED BY <1>1, <3>1, <3>4 DEF Idle
  <2>4. ASSUME TransferFails(t) PROVE Sound(t) /\ wallet' = wallet
    BY <2>4, Moves DEF TransferFails, Idle, money
  <2>5. wallet' = wallet => DOMAIN wallet' \subseteq Present'
    BY <1>1 DEF TreeInv
  <2>6. QED BY <1>7, <2>1, <2>2, <2>3, <2>4, <2>5 DEF Transferring
<1>8. ASSUME NEW t \in Tasks, Distribution(t) PROVE Sound(t) /\ wallet' = wallet
  <2>1. wallet' = wallet
    BY <1>8 DEF Distribution, Distribute, DeleteRows, WalkUp, CommitRows, DistributionFails, money
  <2>2. QED BY <1>8, <2>1, DistributionGoes DEF Goes
<1>9. ASSUME NEW actor, NEW target, NEW share, UpdateCommission(actor, target, share) \/ UNCHANGED vars
      PROVE  task' = task /\ wallet' = wallet
  BY <1>9 DEF UpdateCommission, money, vars
<1>10. DOMAIN wallet' \subseteq Present' /\ \A s \in Tasks : Sound(s)
  <2> HIDE DEF Sound
  <2>1. wallet' = wallet => DOMAIN wallet' \subseteq Present'
    BY <1>1 DEF TreeInv
  <2>2. ASSUME NEW t \in Tasks, Creation(t) \/ Switching(t) \/ Transferring(t) \/ Distribution(t)
        PROVE  \A s \in Tasks : s # t => task'[s] = task[s]
    BY <2>2, CreationGoes, SwitchingGoes, TransferringGoes, DistributionGoes DEF Goes
  <2>3. QED BY <1>4, <1>5, <1>6, <1>7, <1>8, <1>9, <2>1, <2>2 DEF Next
<1>11. QED BY <1>3, <1>10 DEF TreeInv

LEMMA TreeInvariant == Spec => [](TypeInv /\ TreeInv)
BY TypeInit, TypeStep, TreeInit, TreeStep, PTL DEF Spec

\* Users, wallets and requests are what the database and the handlers hold, and
\* the tree stays one in which everybody is below somebody who may create it,
\* however creations, their failures and first transfers meet.
THEOREM TypeCorrect == Spec => []TypeOK
<1>1. TypeInv /\ TreeInv => TypeOK
  <2> SUFFICES ASSUME TypeInv, TreeInv PROVE TypeOK
    OBVIOUS
  <2>1. ASSUME NEW u \in Present PROVE user[u] \in UserRecord
    BY DEF TypeInv, UserRows, UserRecord, Present
  <2>2. \A t \in Tasks : task[t].pc \in {"idle", "insert", "wallet", "target", "level", "downline",
                                         "wallets", "transfer", "delete", "walk"}
    BY DEF TypeInv, Requests, Idle, Inserts, WalletRequests, Switches, Asked, Transfers, Deletes, Walks
  <2>3. QED BY <2>1, <2>2 DEF TypeOK, TypeInv, TreeInv, Fits
<1>2. QED BY <1>1, TreeInvariant, PTL

-----------------------------------------------------------------------------
(* Amounts of entries and rows *)

LEMMA AmountType ==
  ASSUME NEW S, IsFiniteSet(S), \A e \in S : e.amount \in Int
  PROVE  AmountOf(S) \in Int
<1> DEFINE f == [e \in S |-> e.amount]
<1>1. \A e \in S : f[e] \in Int
  OBVIOUS
<1> HIDE DEF f
<1>2. Sum(f, S) \in Int
  BY <1>1, SumType
<1>3. QED BY <1>2 DEF AmountOf, f

LEMMA AmountEmpty == AmountOf({}) = 0
BY SumEmpty DEF AmountOf

LEMMA AmountAdd ==
  ASSUME NEW S, IsFiniteSet(S), NEW x, x \notin S, \A e \in S \union {x} : e.amount \in Int
  PROVE  AmountOf(S \union {x}) = AmountOf(S) + x.amount
<1> DEFINE T == S \union {x}
           f == [e \in S |-> e.amount]
           g == [e \in T |-> e.amount]
<1>1. \A e \in S : f[e] \in Int /\ f[e] = g[e]
  OBVIOUS
<1>2. g[x] = x.amount /\ g[x] \in Int /\ \A e \in S : g[e] \in Int
  OBVIOUS
<1> HIDE DEF f, g
<1>3. Sum(g, S \union {x}) = g[x] + Sum(g, S)
  BY <1>2, SumAdd
<1>4. Sum(f, S) = Sum(g, S) /\ Sum(f, S) \in Int
  BY <1>1, SumEqual, SumType
<1>5. Sum(g, S \union {x}) = Sum(f, S) + x.amount
  BY <1>2, <1>3, <1>4
<1>6. QED BY <1>5 DEF AmountOf, f, g

-----------------------------------------------------------------------------
(* Money: every balance is what the log says, and what a transfer under way    *)
(* was checked against is still there unless another one paid from it.         *)

Received(u) == AmountOf({e \in log : e.to = u})
Sent(u) == AmountOf({e \in log : u \in PayingFrom(e)})

AccountInv(u) ==
  /\ Balance(u) = opening[u] + Received(u) - Sent(u)
  /\ ~HasWallet(u) => opening[u] = 0

PaymentInv(t) ==
  task[t].pc = "transfer" => \A u \in PayingFrom(task[t]) : u \in crossed \/ Balance(u) >= task[t].amount

MoneyInv ==
  /\ \A e \in log : e.nr < Cardinality(log)
  /\ \A u \in Users : AccountInv(u)
  /\ OverdrawnOnlyCrossed
  /\ \A t \in Tasks : PaymentInv(t)

LEMMA BalanceType ==
  ASSUME TypeInv, NEW u \in Users
  PROVE  Balance(u) \in Int /\ opening[u] \in Int /\ Received(u) \in Int /\ Sent(u) \in Int
<1>1. \A e \in log : e.amount \in Int
  BY DEF TypeInv, Entries
<1>2. \A S \in SUBSET log : IsFiniteSet(S) /\ AmountOf(S) \in Int
  BY <1>1, FS_Subset, AmountType DEF TypeInv
<1>3. QED BY <1>2 DEF Received, Sent, Balance, HasWallet, TypeInv

LEMMA MoneyInit == Init /\ TypeInv => MoneyInv
<1> SUFFICES ASSUME Init, TypeInv PROVE MoneyInv
  OBVIOUS
<1>1. log = {} /\ \A t \in Tasks : task[t].pc = "idle"
  BY DEF Init, Idle
<1>2. ASSUME NEW u \in Users PROVE AccountInv(u)
  <2>1. Received(u) = 0 /\ Sent(u) = 0
    <3>1. {e \in log : e.to = u} = {} /\ {e \in log : u \in PayingFrom(e)} = {}
      BY <1>1
    <3>2. QED BY <3>1, AmountEmpty DEF Received, Sent
  <2>2. Balance(u) = opening[u] /\ (~HasWallet(u) => opening[u] = 0)
    BY DEF Init, Balance, HasWallet
  <2>3. QED BY <2>1, <2>2, BalanceType DEF AccountInv
<1>3. OverdrawnOnlyCrossed
  BY HierarchyAssumption DEF Init, OverdrawnOnlyCrossed
<1>4. QED BY <1>1, <1>2, <1>3 DEF MoneyInv, PaymentInv

\* Where money does not move.
LEMMA MoneyStays ==
  ASSUME MoneyInv, UNCHANGED money,
         \A t \in Tasks : task'[t] = task[t] \/ task'[t].pc # "transfer" \/ PaymentInv(t)'
  PROVE  MoneyInv'
<1>1. \A u \in Users : AccountInv(u)'
  BY DEF MoneyInv, AccountInv, Balance, HasWallet, Received, Sent, money
<1>2. OverdrawnOnlyCrossed'
  BY DEF MoneyInv, OverdrawnOnlyCrossed, money
<1>3. ASSUME NEW t \in Tasks PROVE PaymentInv(t)'
  <2>1. \A u : Balance(u)' = Balance(u)
    BY DEF Balance, HasWallet, money
  <2>2. CASE task'[t] = task[t]
    <3>1. PaymentInv(t) /\ crossed' = crossed
      BY DEF MoneyInv, money
    <3>2. PayingFrom(task[t])' = PayingFrom(task[t])
      BY <2>2 DEF PayingFrom
    <3>3. QED BY <2>1, <2>2, <3>1, <3>2 DEF PaymentInv
  <2>3. QED BY <2>2 DEF PaymentInv
<1>4. QED BY <1>1, <1>2, <1>3 DEF MoneyInv, money

LEMMA MoneyInsertWallet ==
  ASSUME TypeInv, TypeInv', MoneyInv, NEW t \in Tasks, InsertWallet(t)
  PROVE  MoneyInv'
<1>1. PICK of \in Users, sum \in Nat : of = task[t].of /\ sum = task[t].money
  BY Kind DEF InsertWallet, WalletRequests
<1>2. task'[t] = Idle /\ \A s \in Tasks : s # t => task'[s] = task[s]
  BY Moves DEF InsertWallet
<1>3. CASE HasWallet(of)
  BY <1>1, <1>2, <1>3, MoneyStays DEF InsertWallet, Idle
<1>4. CASE ~HasWallet(of)
  <2>1. /\ wallet' = [u \in DOMAIN wallet \union {of} |-> IF u = of THEN sum ELSE wallet[u]]
        /\ opening' = [opening EXCEPT ![of] = sum]
        /\ log' = log /\ crossed' = crossed
    BY <1>1, <1>4 DEF InsertWallet
  <2>2. Balance(of) = 0 /\ Balance(of)' = sum /\ \A u : u # of => Balance(u)' = Balance(u)
    BY <1>4, <2>1 DEF Balance, HasWallet
  <2>3. ASSUME NEW u \in Users PROVE AccountInv(u)'
    <3>1. Received(u)' = Received(u) /\ Sent(u)' = Sent(u) /\ AccountInv(u)
      BY <2>1 DEF Received, Sent, MoneyInv
    <3>2. CASE u = of
      <4>1. opening[u] = 0 /\ opening'[u] = sum /\ HasWallet(u)'
        BY <1>4, <2>1, <3>1, <3>2 DEF AccountInv, HasWallet, TypeInv
      <4>2. Balance(u) = 0 /\ Balance(u)' = sum
        BY <2>2, <3>2
      <4>3. Received(u) - Sent(u) = 0
        BY <3>1, <4>1, <4>2, BalanceType DEF AccountInv
      <4>4. Balance(u)' = opening'[u] + Received(u)' - Sent(u)'
        <5> DEFINE x == Received(u)
                   y == Sent(u)
        <5>1. x \in Int /\ y \in Int /\ x - y = 0 /\ Received(u)' = x /\ Sent(u)' = y
          BY <3>1, <4>3, BalanceType
        <5> HIDE DEF x, y
        <5>2. QED BY <4>1, <4>2, <5>1
      <4>5. QED BY <4>1, <4>4 DEF AccountInv
    <3>3. CASE u # of
      BY <2>1, <2>2, <3>1, <3>3 DEF AccountInv, HasWallet, TypeInv
    <3>4. QED BY <3>2, <3>3
  <2>4. OverdrawnOnlyCrossed'
    <3>1. \A u \in DOMAIN wallet' : u = of \/ (u \in DOMAIN wallet /\ wallet'[u] = wallet[u])
      BY <2>1
    <3>2. wallet'[of] = sum
      BY <2>1
    <3>3. QED BY <1>1, <2>1, <3>1, <3>2 DEF OverdrawnOnlyCrossed, MoneyInv
  <2>5. ASSUME NEW s \in Tasks PROVE PaymentInv(s)'
    <3>1. CASE s = t
      BY <1>2, <3>1 DEF PaymentInv, Idle
    <3>2. ASSUME s # t, task[s].pc = "transfer", NEW u \in PayingFrom(task[s])
          PROVE  u \in crossed' \/ Balance(u)' >= task[s].amount
      <4>1. u \in crossed \/ Balance(u) >= task[s].amount
        BY <3>2 DEF PaymentInv, MoneyInv
      <4>2. task[s].amount \in Nat /\ u \in Users
        BY <3>2, Kind DEF Transfers, PayingFrom
      <4>3. Balance(u) \in Int
        BY <4>2, BalanceType
      <4>4. QED BY <1>1, <2>1, <2>2, <4>1, <4>2, <4>3
    <3>3. s # t => task'[s] = task[s] /\ PayingFrom(task[s])' = PayingFrom(task[s])
      BY <1>2 DEF PayingFrom
    <3>4. QED BY <3>1, <3>2, <3>3 DEF PaymentInv
  <2>6. QED BY <2>1, <2>3, <2>4, <2>5 DEF MoneyInv
<1>5. QED BY <1>3, <1>4

LEMMA MoneyReadWallets ==
  ASSUME TypeInv, MoneyInv, NEW t \in Tasks, ReadWallets(t)
  PROVE  MoneyInv'
<1> DEFINE r == task[t]
           missing == {u \in PayingFrom(r) \union {r.to} : ~HasWallet(u)}
           next == [pc |-> "transfer", from |-> r.from, to |-> r.to, up |-> r.up,
                    amount |-> r.amount, made |-> missing]
<1>1. UNCHANGED money /\ Continue(t, IF Covered(r) THEN next ELSE Idle)
  BY DEF ReadWallets
<1>2. (task'[t] = IF Covered(r) THEN next ELSE Idle) /\ \A s \in Tasks : s # t => task'[s] = task[s]
  BY <1>1, Moves
<1>3. CASE Covered(r)
  <2>1. task'[t] = next
    BY <1>2, <1>3
  <2>2. PayingFrom(task[t])' = PayingFrom(r)
    BY <2>1 DEF PayingFrom
  <2>3. \A u : Balance(u)' = Balance(u)
    BY <1>1 DEF Balance, HasWallet, money
  <2>4. PaymentInv(t)'
    BY <1>3, <2>1, <2>2, <2>3 DEF PaymentInv, Covered
  <2>5. QED BY <1>1, <1>2, <2>4, MoneyStays
<1>4. CASE ~Covered(r)
  BY <1>1, <1>2, <1>4, MoneyStays DEF Idle
<1>5. QED BY <1>3, <1>4

\* What a transfer's entry adds to the log.
LEMMA LogGrows ==
  ASSUME TypeInv, MoneyInv, NEW r \in Transfers, NEW entry,
         entry = [nr |-> Cardinality(log), from |-> r.from, to |-> r.to, amount |-> r.amount, up |-> r.up],
         log' = log \union {entry}, NEW u \in Users
  PROVE  /\ Cardinality(log') = Cardinality(log) + 1
         /\ Received(u)' = Received(u) + (IF u = r.to THEN r.amount ELSE 0)
         /\ Sent(u)' = Sent(u) + (IF u \in PayingFrom(r) THEN r.amount ELSE 0)
<1>1. IsFiniteSet(log) /\ Cardinality(log) \in Nat
  BY FS_CardinalityType DEF TypeInv
<1>2. entry \notin log
  <2>1. entry.nr = Cardinality(log)
    OBVIOUS
  <2>2. QED BY <1>1, <2>1 DEF MoneyInv
<1>3. \A e \in log \union {entry} : e.amount \in Int
  BY DEF TypeInv, Entries, Transfers
<1>4. entry.amount = r.amount /\ entry.to = r.to /\ PayingFrom(entry) = PayingFrom(r)
  BY DEF PayingFrom
<1>5. Received(u)' = Received(u) + (IF u = r.to THEN r.amount ELSE 0)
  <2> DEFINE S == {e \in log : e.to = u}
  <2>1. {e \in log' : e.to = u} = IF u = r.to THEN S \union {entry} ELSE S
    BY <1>4
  <2>2. IsFiniteSet(S) /\ entry \notin S /\ S \subseteq log
    BY <1>1, <1>2, FS_Subset
  <2>3. AmountOf(S) \in Int /\ AmountOf(S \union {entry}) = AmountOf(S) + r.amount
    <3> HIDE DEF S
    <3>1. QED BY <1>3, <1>4, <2>2, AmountAdd, AmountType
  <2>4. Received(u)' = AmountOf({e \in log' : e.to = u}) /\ Received(u) = AmountOf(S)
    BY DEF Received, AmountOf
  <2>5. Received(u)' = IF u = r.to THEN AmountOf(S \union {entry}) ELSE AmountOf(S)
    BY <2>1, <2>4
  <2> DEFINE x == AmountOf(S)
             y == AmountOf(S \union {entry})
  <2>6. x \in Int /\ y = x + r.amount /\ r.amount \in Int
    BY <1>3, <1>4, <2>3
  <2> HIDE DEF S, x, y
  <2>7. Received(u)' = (IF u = r.to THEN y ELSE x) /\ Received(u) = x
    BY <2>4, <2>5 DEF x, y
  <2>8. QED BY <2>6, <2>7
<1>6. Sent(u)' = Sent(u) + (IF u \in PayingFrom(r) THEN r.amount ELSE 0)
  <2> DEFINE S == {e \in log : u \in PayingFrom(e)}
  <2>1. {e \in log' : u \in PayingFrom(e)} = IF u \in PayingFrom(r) THEN S \union {entry} ELSE S
    BY <1>4
  <2>2. IsFiniteSet(S) /\ entry \notin S /\ S \subseteq log
    BY <1>1, <1>2, FS_Subset
  <2>3. AmountOf(S) \in Int /\ AmountOf(S \union {entry}) = AmountOf(S) + r.amount
    <3> HIDE DEF S
    <3>1. QED BY <1>3, <1>4, <2>2, AmountAdd, AmountType
  <2>4. Sent(u)' = AmountOf({e \in log' : u \in PayingFrom(e)}) /\ Sent(u) = AmountOf(S)
    BY DEF Sent, AmountOf, PayingFrom
  <2>5. Sent(u)' = IF u \in PayingFrom(r) THEN AmountOf(S \union {entry}) ELSE AmountOf(S)
    BY <2>1, <2>4
  <2> DEFINE x == AmountOf(S)
             y == AmountOf(S \union {entry})
  <2>6. x \in Int /\ y = x + r.amount /\ r.amount \in Int
    BY <1>3, <1>4, <2>3
  <2> HIDE DEF S, x, y
  <2>7. Sent(u)' = (IF u \in PayingFrom(r) THEN y ELSE x) /\ Sent(u) = x
    BY <2>4, <2>5 DEF x, y
  <2>8. QED BY <2>6, <2>7
<1>7. QED BY <1>1, <1>2, <1>5, <1>6, FS_AddElement

LEMMA MoneyCommitTransfer ==
  ASSUME TypeInv, TreeInv, TypeInv', MoneyInv, NEW t \in Tasks, CommitTransfer(t)
  PROVE  MoneyInv'
<1>1. PICK r \in Transfers : r = task[t]
  BY Kind DEF CommitTransfer
<1>2. PICK entry : entry = [nr |-> Cardinality(log), from |-> r.from, to |-> r.to, amount |-> r.amount, up |-> r.up]
  OBVIOUS
<1>3. task[t].pc = "transfer" /\ log' = log \union {entry} /\ opening' = opening
  BY <1>1, <1>2 DEF CommitTransfer
<1>4. task'[t] = Idle /\ \A s \in Tasks : s # t => task'[s] = task[s]
  BY Moves DEF CommitTransfer
<1>5. r.amount \in Nat /\ r.to \in Users /\ PayingFrom(r) \subseteq Users
  BY DEF Transfers, PayingFrom
<1>6. wallet' = [u \in DOMAIN wallet \union PayingFrom(r) \union {r.to} |-> Balance(u) + Paid(r, u)]
  BY <1>1 DEF CommitTransfer
<1>7. ASSUME NEW u \in Users PROVE Balance(u)' = Balance(u) + Paid(r, u)
  <2>1. CASE u \in DOMAIN wallet \union PayingFrom(r) \union {r.to}
    BY <1>6, <2>1 DEF Balance, HasWallet
  <2>2. CASE u \notin DOMAIN wallet \union PayingFrom(r) \union {r.to}
    BY <1>6, <2>2 DEF Balance, HasWallet, Paid
  <2>3. QED BY <2>1, <2>2
<1>8. \A u \in PayingFrom(r) : u \in crossed \/ Balance(u) >= r.amount
  BY <1>1, <1>3 DEF MoneyInv, PaymentInv
<1>9. /\ crossed \subseteq crossed'
      /\ \A s \in Tasks : s # t /\ task[s].pc = "transfer" => PayingFrom(r) \intersect PayingFrom(task[s]) \subseteq crossed'
  BY <1>1 DEF CommitTransfer
<1>10. ASSUME NEW u \in Users PROVE AccountInv(u)'
  <2>1. AccountInv(u)
    BY DEF MoneyInv
  <2>2. Balance(u)' = opening'[u] + Received(u)' - Sent(u)'
    <3>1. /\ Received(u)' = Received(u) + (IF u = r.to THEN r.amount ELSE 0)
          /\ Sent(u)' = Sent(u) + (IF u \in PayingFrom(r) THEN r.amount ELSE 0)
      BY <1>2, <1>3, LogGrows
    <3> DEFINE x == Received(u)
               y == Sent(u)
               z == Balance(u)
               o == opening[u]
    <3>2. z = o + x - y /\ x \in Int /\ y \in Int /\ z \in Int /\ o \in Int
      BY <2>1, BalanceType DEF AccountInv
    <3> HIDE DEF x, y, z, o
    <3>3. Balance(u)' = z + Paid(r, u) /\ opening'[u] = o
      BY <1>3, <1>7 DEF z, o
    <3>4. /\ Received(u)' = x + (IF u = r.to THEN r.amount ELSE 0)
          /\ Sent(u)' = y + (IF u \in PayingFrom(r) THEN r.amount ELSE 0)
      BY <3>1 DEF x, y
    <3>5. QED BY <1>5, <3>2, <3>3, <3>4 DEF Paid
  <2>3. ~HasWallet(u)' => opening'[u] = 0
    BY <1>3, <1>6, <2>1 DEF AccountInv, HasWallet
  <2>4. QED BY <2>2, <2>3 DEF AccountInv
<1>11. OverdrawnOnlyCrossed'
  <2> SUFFICES ASSUME NEW u \in DOMAIN wallet', wallet'[u] < 0 PROVE u \in crossed'
    BY DEF OverdrawnOnlyCrossed
  <2>1. u \in Users /\ wallet'[u] = Balance(u) + Paid(r, u)
    <3>1. DOMAIN wallet \subseteq Users
      BY DEF TreeInv, Present
    <3>2. QED BY <1>5, <1>6, <3>1
  <2>2. Balance(u) \in Int
    BY <2>1, BalanceType
  <2>3. Balance(u) < 0 => u \in crossed
    BY DEF MoneyInv, OverdrawnOnlyCrossed, Balance, HasWallet
  <2>4. CASE u \in PayingFrom(r)
    BY <1>5, <1>8, <1>9, <2>1, <2>2, <2>3, <2>4 DEF Paid
  <2>5. CASE u \notin PayingFrom(r)
    BY <1>5, <1>9, <2>1, <2>2, <2>3, <2>5 DEF Paid
  <2>6. QED BY <2>4, <2>5
<1>12. ASSUME NEW s \in Tasks PROVE PaymentInv(s)'
  <2>1. CASE s = t
    BY <1>4, <2>1 DEF PaymentInv, Idle
  <2>2. ASSUME s # t, task[s].pc = "transfer", NEW u \in PayingFrom(task[s])
        PROVE  u \in crossed' \/ Balance(u)' >= task[s].amount
    <3>1. u \in crossed \/ Balance(u) >= task[s].amount
      BY <2>2 DEF PaymentInv, MoneyInv
    <3>2. task[s].amount \in Nat /\ u \in Users
      BY <2>2, Kind DEF Transfers, PayingFrom
    <3>3. Balance(u) \in Int /\ Balance(u)' = Balance(u) + Paid(r, u)
      BY <1>7, <3>2, BalanceType
    <3>4. CASE u \in PayingFrom(r)
      BY <1>9, <2>2, <3>4
    <3>5. CASE u \notin PayingFrom(r)
      <4>1. Paid(r, u) \in Nat
        BY <1>5, <3>5 DEF Paid
      <4>2. QED BY <1>9, <3>1, <3>2, <3>3, <4>1
    <3>6. QED BY <3>4, <3>5
  <2>3. s # t => task'[s] = task[s] /\ PayingFrom(task[s])' = PayingFrom(task[s])
    BY <1>4 DEF PayingFrom
  <2>4. QED BY <2>1, <2>2, <2>3 DEF PaymentInv
<1>13. \A e \in log' : e.nr < Cardinality(log')
  <2>1. Cardinality(log') = Cardinality(log) + 1
    <3>1. IsFiniteSet(log) /\ Cardinality(log) \in Nat /\ entry \notin log
      BY <1>2, FS_CardinalityType DEF TypeInv, MoneyInv
    <3>2. QED BY <1>3, <3>1, FS_AddElement
  <2>2. Cardinality(log) \in Nat /\ \A e \in log : e.nr \in Nat /\ e.nr < Cardinality(log)
    BY FS_CardinalityType DEF TypeInv, MoneyInv, Entries
  <2>3. entry.nr = Cardinality(log)
    BY <1>2
  <2>4. QED BY <1>3, <2>1, <2>2, <2>3
<1>14. QED BY <1>10, <1>11, <1>12, <1>13 DEF MoneyInv

LEMMA MoneyStep == TypeInv /\ TypeInv' /\ TreeInv /\ MoneyInv /\ [Next]_vars => MoneyInv'
<1> SUFFICES ASSUME TypeInv, TypeInv', TreeInv, MoneyInv, [Next]_vars PROVE MoneyInv'
  OBVIOUS
<1>1. ASSUME NEW t \in Tasks, Goes(t, {"idle", "insert", "wallet"} \union SwitchPcs \union {"delete", "walk"}),
             UNCHANGED money
      PROVE  MoneyInv'
  BY <1>1, MoneyStays DEF Goes, SwitchPcs
<1>2. ASSUME NEW t \in Tasks, Creation(t) PROVE MoneyInv'
  <2>1. UNCHANGED money \/ InsertWallet(t)
    BY <1>2 DEF Creation, CreateUser, CreateClient, InsertUser, WalletFails
  <2>2. QED BY <1>1, <1>2, <2>1, CreationGoes, MoneyInsertWallet DEF Goes
<1>3. ASSUME NEW t \in Tasks, Switching(t) PROVE MoneyInv'
  <2>1. UNCHANGED money
    BY <1>3 DEF Switching, ToggleUserStatus, SetBettingEnabled, SwitchTarget, ReadLevel, SwitchDownline
  <2>2. QED BY <1>1, <1>3, <2>1, SwitchingGoes DEF Goes
<1>4. ASSUME NEW t \in Tasks, Distribution(t) PROVE MoneyInv'
  <2>1. UNCHANGED money
    BY <1>4 DEF Distribution, Distribute, DeleteRows, WalkUp, CommitRows, DistributionFails
  <2>2. QED BY <1>1, <1>4, <2>1, DistributionGoes DEF Goes
<1>5. ASSUME NEW t \in Tasks, NEW actor, NEW target, NEW amount, NEW up, Transfer(t, actor, target, amount, up)
      PROVE  MoneyInv'
  <2> DEFINE r == [pc |-> "wallets", from |-> IF up THEN actor ELSE target,
                   to |-> IF up THEN target ELSE actor, up |-> up, amount |-> amount]
  <2>1. Ask(t, r) /\ r.pc = "wallets" /\ UNCHANGED money
    BY <1>5 DEF Transfer
  <2> HIDE DEF r
  <2>2. QED BY <2>1, Moves, MoneyStays
<1>6. ASSUME NEW t \in Tasks, TransferFails(t) PROVE MoneyInv'
  BY <1>6, Moves, MoneyStays DEF TransferFails, Idle
<1>7. ASSUME NEW t \in Tasks, Transferring(t) PROVE MoneyInv'
  BY <1>5, <1>6, <1>7, MoneyReadWallets, MoneyCommitTransfer DEF Transferring
<1>8. ASSUME UNCHANGED vars \/ \E actor, target, share : UpdateCommission(actor, target, share)
      PROVE  MoneyInv'
  BY <1>8, MoneyStays DEF UpdateCommission, vars, money
<1>9. QED BY <1>2, <1>3, <1>4, <1>7, <1>8 DEF Next

LEMMA MoneyInvariant == Spec => []MoneyInv
<1>1. Init => TypeInv /\ MoneyInv
  BY TypeInit, MoneyInit
<1>2. QED BY <1>1, TypeStep, MoneyStep, TreeInvariant, PTL DEF Spec

\* Every wallet is what it was created with and what the transfer log says came
\* and went, whatever creations, transfers and failures meet.
THEOREM BalancesExplained == Spec => []LogExplainsBalance
<1>1. TreeInv /\ MoneyInv => LogExplainsBalance
  <2> SUFFICES ASSUME TreeInv, MoneyInv, NEW u \in DOMAIN wallet
               PROVE  wallet[u] = opening[u] + Received(u) - Sent(u)
    BY DEF LogExplainsBalance, Received, Sent
  <2>1. u \in Users /\ wallet[u] = Balance(u)
    BY DEF TreeInv, Present, Balance, HasWallet
  <2>2. QED BY <2>1 DEF MoneyInv, AccountInv
<1>2. QED BY <1>1, MoneyInvariant, TreeInvariant, PTL

\* Nobody is overdrawn except where two transfers from one wallet were under
\* way at once: the balance compared before the transaction is not locked.
THEOREM OverdrawnByCrossing == Spec => []OverdrawnOnlyCrossed
<1>1. MoneyInv => OverdrawnOnlyCrossed
  BY DEF MoneyInv
<1>2. QED BY <1>1, MoneyInvariant, PTL

-----------------------------------------------------------------------------
(* Who is above whom *)

Parent(u) == user[u].parent

\* Those above u where the users' rows are P.
AboveIn(P, S) == {P[u].parent : u \in S} \ {None}
UplineIn(P, u) ==
  LET up == AboveIn(P, {u}) IN up \union AboveIn(P, up) \union AboveIn(P, AboveIn(P, up))

LEMMA UplineNow == \A u : Upline(u) = UplineIn(user, u) /\ Upline(u)' = UplineIn(user', u)
BY DEF Upline, Above, UplineIn, AboveIn

LEMMA UplineIs ==
  ASSUME NEW P, NEW u, NEW p, NEW q, NEW w, p = P[u].parent, q = P[p].parent, w = P[q].parent
  PROVE  \A x : x \in UplineIn(P, u) <=>
           /\ x # None
           /\ x = p \/ (p # None /\ x = q) \/ (p # None /\ q # None /\ x = w)
<1> DEFINE up == AboveIn(P, {u})
<1>1. \A S, y : y \in AboveIn(P, S) <=> y # None /\ \E c \in S : y = P[c].parent
  BY DEF AboveIn
<1>2. UplineIn(P, u) = up \union AboveIn(P, up) \union AboveIn(P, AboveIn(P, up))
  BY DEF UplineIn
<1>3. \A y : y \in up <=> y # None /\ y = p
  BY <1>1
<1> HIDE DEF up
<1>4. \A y : y \in AboveIn(P, up) <=> y # None /\ p # None /\ y = q
  BY <1>1, <1>3
<1>5. \A y : y \in AboveIn(P, AboveIn(P, up)) <=> y # None /\ p # None /\ q # None /\ y = w
  BY <1>1, <1>4
<1>6. QED BY <1>2, <1>3, <1>4, <1>5

LEMMA ParentsPresent ==
  ASSUME TreeInv, NEW u \in Present, Parent(u) # None
  PROVE  Parent(u) \in Present
BY DEF TreeInv, Fits, Parent

LEMMA UplineStays ==
  ASSUME TreeInv, Keeps, NEW u \in Present
  PROVE  Upline(u)' = Upline(u) /\ Upline(u) \subseteq Present
<1>1. \A v \in Present : user'[v].parent = user[v].parent /\ (user[v].parent # None => user[v].parent \in Present)
  BY ParentsPresent DEF Keeps, Parent
<1>2. PICK p, q, w : p = user[u].parent /\ q = user[p].parent /\ w = user[q].parent
  OBVIOUS
<1>3. PICK y, z : y = user'[p].parent /\ z = user'[y].parent
  OBVIOUS
<1>4. p = user'[u].parent /\ (p # None => p \in Present /\ y = q)
  BY <1>1, <1>2, <1>3
<1>5. p # None /\ q # None => q \in Present /\ z = w /\ (w # None => w \in Present)
  BY <1>1, <1>2, <1>3, <1>4
<1>6. \A x : x \in Upline(u) <=> x # None /\ (x = p \/ (p # None /\ x = q) \/ (p # None /\ q # None /\ x = w))
  BY <1>2, UplineIs, UplineNow
<1>7. \A x : x \in Upline(u)' <=> x # None /\ (x = p \/ (p # None /\ x = y) \/ (p # None /\ y # None /\ x = z))
  BY <1>3, <1>4, UplineIs, UplineNow
<1>8. \A x : x \in Upline(u)' <=> x \in Upline(u)
  BY <1>4, <1>5, <1>6, <1>7
<1>9. Upline(u) \subseteq Present
  BY <1>1, <1>2, <1>4, <1>5, <1>6
<1>10. QED BY <1>8, <1>9

\* Whoever is above a user is its parent, or above it by way of a child.
LEMMA UplineNext ==
  ASSUME TreeInv, NEW u \in Present, NEW x \in Upline(u)
  PROVE  x = Parent(u) \/ \E c \in Present : Parent(c) = x /\ c \in Upline(u)
<1>1. PICK p, q, w : p = Parent(u) /\ q = Parent(p) /\ w = Parent(q)
  OBVIOUS
<1>2. \A v : v \in Upline(u) <=> v # None /\ (v = p \/ (p # None /\ v = q) \/ (p # None /\ q # None /\ v = w))
  BY <1>1, UplineIs, UplineNow DEF Parent
<1>3. (p # None => p \in Present) /\ (p # None /\ q # None => q \in Present)
  BY <1>1, ParentsPresent
<1>4. QED BY <1>1, <1>2, <1>3

\* And the parent of one above a user, or of the user, is above it - except for
\* the third.
LEMMA UplineUp ==
  ASSUME NEW u, Parent(u) # None
  PROVE  /\ Parent(u) \in Upline(u)
         /\ Parent(Parent(u)) # None =>
              /\ Parent(Parent(u)) \in Upline(u)
              /\ Parent(Parent(Parent(u))) # None => Parent(Parent(Parent(u))) \in Upline(u)
<1>1. PICK p, q, w : p = Parent(u) /\ q = Parent(p) /\ w = Parent(q)
  OBVIOUS
<1>2. \A v : v \in Upline(u) <=> v # None /\ (v = p \/ (p # None /\ v = q) \/ (p # None /\ q # None /\ v = w))
  BY <1>1, UplineIs, UplineNow DEF Parent
<1>3. QED BY <1>1, <1>2

-----------------------------------------------------------------------------
(* Switches: whoever a switch under way is about and it has not reached yet is *)
(* below the level it is at                                                    *)

SwitchInv(t) ==
  LET r == task[t] IN
  /\ due[t] # {} => r.pc \in SwitchPcs
  /\ due[t] \subseteq Present
  /\ r.pc = "target" => r.level = {r.target} /\ r.below = {}
  /\ r.pc = "target" /\ r.deep = FALSE => due[t] \subseteq {r.target}
  /\ r.pc \in {"level", "downline"} /\ r.target \in due[t] => user[r.target].betting = r.on
  /\ (r.pc = "target" /\ r.deep = TRUE) \/ r.pc = "level" =>
       \A d \in due[t] : d = r.target \/ d \in r.below \/ \E l \in r.level : l \in Upline(d)
  /\ r.pc = "downline" => \A d \in due[t] : d = r.target \/ d \in r.below

DecidedInv == \A d \in decided : d[1] \in Present /\ user[d[1]].betting = d[2]

SwitchesInv == DecidedInv /\ \A t \in Tasks : SwitchInv(t)

LEMMA SwitchesInit == Init => SwitchesInv
BY DEF Init, Idle, SwitchesInv, DecidedInv, SwitchInv, SwitchPcs

\* A request that stays as it was, about as many users or fewer, some of whose
\* switches did not change.
LEMMA SwitchWaits ==
  ASSUME TreeInv, Keeps, NEW t \in Tasks, SwitchInv(t), task'[t] = task[t], due'[t] \subseteq due[t],
         task[t].target \in due'[t] => user'[task[t].target].betting = user[task[t].target].betting
                                       \/ user'[task[t].target].betting = task[t].on
  PROVE  SwitchInv(t)'
<1>1. \A d \in due[t] : d \in Present /\ d \in Present' /\ Upline(d)' = Upline(d)
  BY UplineStays DEF SwitchInv, Keeps
<1>2. PICK r : r = task[t] /\ r = task'[t]
  OBVIOUS
<1>3. due'[t] # {} => r.pc \in SwitchPcs
  BY <1>2 DEF SwitchInv
<1>4. due'[t] \subseteq Present'
  BY <1>1
<1>5. r.pc = "target" => r.level = {r.target} /\ r.below = {}
  BY <1>2 DEF SwitchInv
<1>6. r.pc = "target" /\ r.deep = FALSE => due'[t] \subseteq {r.target}
  BY <1>2 DEF SwitchInv
<1>7. r.pc \in {"level", "downline"} /\ r.target \in due'[t] => user'[r.target].betting = r.on
  BY <1>2 DEF SwitchInv
<1>8. (r.pc = "target" /\ r.deep = TRUE) \/ r.pc = "level" =>
         \A d \in due'[t] : d = r.target \/ d \in r.below \/ \E l \in r.level : l \in Upline(d)'
  BY <1>1, <1>2 DEF SwitchInv
<1>9. r.pc = "downline" => \A d \in due'[t] : d = r.target \/ d \in r.below
  BY <1>2 DEF SwitchInv
<1>10. QED BY <1>2, <1>3, <1>4, <1>5, <1>6, <1>7, <1>8, <1>9 DEF SwitchInv

LEMMA SwitchesStay ==
  ASSUME TreeInv, Keeps, SwitchesInv, UNCHANGED switches, \A u \in Present : user'[u].betting = user[u].betting,
         \A t \in Tasks : task'[t] = task[t] \/ (task[t].pc \notin SwitchPcs /\ task'[t].pc \notin SwitchPcs)
  PROVE  SwitchesInv'
<1>1. DecidedInv'
  BY DEF SwitchesInv, DecidedInv, switches, Keeps
<1>2. ASSUME NEW t \in Tasks PROVE SwitchInv(t)'
  <2>1. SwitchInv(t) /\ due'[t] = due[t]
    BY DEF SwitchesInv, switches
  <2>2. CASE task'[t] = task[t]
    BY <2>1, <2>2, SwitchWaits DEF SwitchInv
  <2>3. CASE task[t].pc \notin SwitchPcs /\ task'[t].pc \notin SwitchPcs
    BY <2>1, <2>3 DEF SwitchInv, SwitchPcs
  <2>4. QED BY <2>2, <2>3
<1>3. QED BY <1>1, <1>2 DEF SwitchesInv

LEMMA SwitchesAsked ==
  ASSUME TypeInv, TreeInv, Keeps, SwitchesInv, NEW t \in Tasks, May("switch", t),
         NEW actor \in Present, NEW target \in Present, NEW on \in BOOLEAN,
         \/ ToggleUserStatus(t, actor, target, on)
         \/ \E include \in BOOLEAN : SetBettingEnabled(t, actor, target, on, include)
  PROVE  SwitchesInv'
<1>1. PICK handler \in {"status", "betting"}, deep \in BOOLEAN :
           /\ Ask(t, Request(handler, target, on, deep))
           /\ due' = [due EXCEPT ![t] = {target} \union IF deep THEN Downline(target) ELSE {}]
           /\ UNCHANGED <<user, money, shares, decided>>
  BY Asking
<1>2. task'[t] = Request(handler, target, on, deep) /\ \A s \in Tasks : s # t => task'[s] = task[s]
  BY <1>1, Moves
<1>3. PICK r : r = Request(handler, target, on, deep)
  OBVIOUS
<1>4. r.pc = "target" /\ r.target = target /\ r.level = {target} /\ r.below = {} /\ r.deep = deep /\ r.on = on
  BY <1>3 DEF Request
<1>5. due'[t] = {target} \union (IF deep THEN Downline(target) ELSE {})
  BY <1>1 DEF TypeInv
<1>6. \A d \in due'[t] : d \in Present /\ (d # target => deep = TRUE /\ target \in Upline(d))
  BY <1>5 DEF Downline
<1>7. \A d \in due'[t] : d \in Present' /\ Upline(d)' = Upline(d)
  BY <1>6, UplineStays DEF Keeps
<1>8. SwitchInv(t)'
  <2>1. due'[t] \subseteq Present'
    BY <1>7
  <2>2. r.deep = FALSE => due'[t] \subseteq {r.target}
    BY <1>4, <1>6
  <2>3. \A d \in due'[t] : d = r.target \/ \E l \in r.level : l \in Upline(d)'
    BY <1>4, <1>6, <1>7
  <2>4. task'[t] = r
    BY <1>2, <1>3
  <2>5. QED BY <1>4, <2>1, <2>2, <2>3, <2>4 DEF SwitchInv, SwitchPcs
<1>9. ASSUME NEW s \in Tasks, s # t PROVE SwitchInv(s)'
  <2>1. due'[s] = due[s] /\ user' = user /\ task'[s] = task[s]
    BY <1>1, <1>2, <1>9 DEF TypeInv
  <2>2. QED BY <2>1, SwitchWaits DEF SwitchesInv
<1>10. DecidedInv'
  BY <1>1, TypeInv DEF SwitchesInv, DecidedInv, Present
<1>11. QED BY <1>8, <1>9, <1>10 DEF SwitchesInv

\* What a write does to the requests of others and to what was decided.
LEMMA WriteOthers ==
  ASSUME TypeInv, TreeInv, Keeps, SwitchesInv, NEW t \in Tasks, NEW who, NEW on,
         \A u \in Users : user'[u].betting = IF u \in who THEN on ELSE user[u].betting,
         NEW s \in Tasks, task'[s] = task[s], due'[s] = Overrides(who, on)[s]
  PROVE  SwitchInv(s)'
<1>1. SwitchInv(s) /\ due'[s] \subseteq due[s]
  BY DEF Overrides, SwitchesInv
<1>2. ASSUME task[s].target \in due'[s]
      PROVE  user'[task[s].target].betting = user[task[s].target].betting
             \/ user'[task[s].target].betting = task[s].on
  <2>1. task[s].target \in Users
    BY <1>1, <1>2 DEF SwitchInv, Present
  <2>2. task[s].on # on => task[s].target \notin who
    BY <1>1, <1>2 DEF Overrides
  <2>3. QED BY <2>1, <2>2
<1>3. QED BY <1>1, <1>2, SwitchWaits

LEMMA WriteDecided ==
  ASSUME TypeInv, Keeps, SwitchesInv, NEW who, NEW on, NEW W, who \subseteq W,
         \A u \in Users : user'[u].betting = IF u \in who THEN on ELSE user[u].betting,
         NEW d \in Agreeing(W, on)
  PROVE  d[1] \in Present' /\ user'[d[1]].betting = d[2]
<1>1. d \in decided /\ (d[1] \in W => d[2] = on)
  BY DEF Agreeing
<1>2. d[1] \in Present /\ user[d[1]].betting = d[2]
  BY <1>1 DEF SwitchesInv, DecidedInv
<1>3. QED BY <1>1, <1>2 DEF Keeps, Present

\* A switch that ends has decided what it was about.
LEMMA SwitchEnds ==
  ASSUME TypeInv, TreeInv, Keeps, SwitchesInv, NEW t \in Tasks, NEW who, NEW on,
         Decides(t, who, on), Continue(t, Idle),
         \A u \in Users : user'[u].betting = IF u \in who THEN on ELSE user[u].betting,
         \A u \in due[t] : u \in who \/ user[u].betting = on
  PROVE  SwitchesInv'
<1>1. task'[t] = Idle /\ \A s \in Tasks : s # t => task'[s] = task[s]
  BY Moves
<1>2. due' = [Overrides(who, on) EXCEPT ![t] = {}]
  BY DEF Decides
<1>3. SwitchInv(t)'
  <2>1. due'[t] = {}
    BY <1>2 DEF Overrides
  <2>2. QED BY <1>1, <2>1 DEF SwitchInv, Idle
<1>4. ASSUME NEW s \in Tasks, s # t PROVE SwitchInv(s)'
  <2>1. due'[s] = Overrides(who, on)[s]
    BY <1>2, <1>4 DEF Overrides
  <2>2. QED BY <1>1, <1>4, <2>1, WriteOthers
<1>5. DecidedInv'
  <2> SUFFICES ASSUME NEW d \in decided' PROVE d[1] \in Present' /\ user'[d[1]].betting = d[2]
    BY DEF DecidedInv
  <2>1. CASE d \in Agreeing(who \union due[t], on)
    <3>1. PICK W : W = who \union due[t]
      OBVIOUS
    <3>2. who \subseteq W /\ d \in Agreeing(W, on)
      BY <2>1, <3>1
    <3>3. QED BY <3>2, WriteDecided
  <2>2. CASE d \in due[t] \X {on}
    <3>1. d[1] \in due[t] /\ d[2] = on
      BY <2>2
    <3>2. d[1] \in Present
      BY <3>1 DEF SwitchesInv, SwitchInv
    <3>3. QED BY <3>1, <3>2 DEF Keeps, Present
  <2>3. QED BY <2>1, <2>2 DEF Decides
<1>6. QED BY <1>3, <1>4, <1>5 DEF SwitchesInv

LEMMA SwitchesTarget ==
  ASSUME TypeInv, TreeInv, Keeps, SwitchesInv, NEW t \in Tasks, SwitchTarget(t)
  PROVE  SwitchesInv'
<1>1. PICK r \in Switches : r = task[t]
  BY Kind DEF SwitchTarget
<1>2. PICK x \in Users, on \in BOOLEAN : x = r.target /\ on = r.on
  BY DEF Switches
<1>3. r.pc = "target" /\ SwitchInv(t)
  BY <1>1 DEF SwitchTarget, SwitchesInv
<1>4. \A u \in Users : user'[u].betting = IF u \in {x} THEN on ELSE user[u].betting
  <2> DEFINE active == IF r.handler = "status" THEN r.on ELSE user[x].active
  <2>1. user' = [user EXCEPT ![x] = [user[x] EXCEPT !.betting = on, !.active = active]]
    BY <1>1, <1>2 DEF SwitchTarget, TypeInv
  <2> HIDE DEF active
  <2>2. user[x] \in UserRows
    BY DEF TypeInv
  <2>3. user'[x].betting = on
    BY <2>1, <2>2 DEF UserRows, TypeInv
  <2>4. \A u \in Users : u # x => user'[u] = user[u]
    BY <2>1 DEF TypeInv
  <2>5. QED BY <2>3, <2>4
<1>5. CASE r.deep = FALSE
  <2>1. Continue(t, Idle) /\ Decides(t, {x}, on)
    BY <1>1, <1>2, <1>5 DEF SwitchTarget
  <2>2. due[t] \subseteq {x}
    BY <1>1, <1>2, <1>3, <1>5 DEF SwitchInv
  <2>3. QED BY <1>4, <2>1, <2>2, SwitchEnds
<1>6. CASE r.deep = TRUE
  <2>1. Continue(t, [r EXCEPT !.pc = "level"]) /\ Writes({x}, on)
    BY <1>1, <1>2, <1>6 DEF SwitchTarget
  <2>2. PICK n : n = [r EXCEPT !.pc = "level"]
    OBVIOUS
  <2>3. task'[t] = n /\ \A s \in Tasks : s # t => task'[s] = task[s]
    BY <2>1, <2>2, Moves
  <2>4. /\ n.pc = "level" /\ n.target = x /\ n.on = on /\ n.level = r.level /\ n.below = r.below
    BY <1>2, <2>2 DEF Switches
  <2>5. \A s \in Tasks : due'[s] = Overrides({x}, on)[s]
    BY <2>1 DEF Writes
  <2>6. due'[t] = due[t]
    BY <1>1, <1>2, <2>5 DEF Overrides
  <2>7. \A d \in due[t] : d \in Present /\ d \in Present' /\ Upline(d)' = Upline(d)
    BY <1>3, UplineStays DEF SwitchInv, Keeps
  <2>8. SwitchInv(t)'
    <3>1. \A d \in due[t] : d = n.target \/ d \in n.below \/ \E l \in n.level : l \in Upline(d)
      BY <1>1, <1>2, <1>3, <1>6, <2>4 DEF SwitchInv
    <3>2. user'[n.target].betting = n.on
      BY <1>4, <2>4
    <3>3. due'[t] \subseteq Present' /\ \A d \in due'[t] : d = n.target \/ d \in n.below \/ \E l \in n.level : l \in Upline(d)'
      BY <2>6, <2>7, <3>1
    <3>4. QED BY <2>3, <2>4, <3>2, <3>3 DEF SwitchInv, SwitchPcs
  <2>9. ASSUME NEW s \in Tasks, s # t PROVE SwitchInv(s)'
    BY <1>4, <2>3, <2>5, <2>9, WriteOthers
  <2>10. DecidedInv'
    <3>1. PICK who : who = {x}
      OBVIOUS
    <3>2. decided' = Agreeing(who, on)
      BY <2>1, <3>1 DEF Writes
    <3>3. \A u \in Users : user'[u].betting = IF u \in who THEN on ELSE user[u].betting
      BY <1>4, <3>1
    <3>4. ASSUME NEW d \in Agreeing(who, on) PROVE d[1] \in Present' /\ user'[d[1]].betting = d[2]
      <4>1. d \in decided /\ (d[1] \in who => d[2] = on)
        BY DEF Agreeing
      <4>2. d[1] \in Present /\ user[d[1]].betting = d[2]
        BY <4>1 DEF SwitchesInv, DecidedInv
      <4>3. QED BY <3>3, <4>1, <4>2 DEF Keeps, Present
    <3>5. QED BY <3>2, <3>4 DEF DecidedInv
  <2>11. QED BY <2>8, <2>9, <2>10 DEF SwitchesInv
<1>7. QED BY <1>5, <1>6 DEF Switches

LEMMA SwitchesReadLevel ==
  ASSUME TypeInv, TreeInv, Keeps, SwitchesInv, NEW t \in Tasks, ReadLevel(t)
  PROVE  SwitchesInv'
<1>1. PICK r \in Switches : r = task[t]
  BY Kind DEF ReadLevel
<1>2. PICK found : found = Children(r.level)
  OBVIOUS
<1>3. PICK n : n = [r EXCEPT !.below = r.below \union found, !.level = found,
                             !.pc = IF found = {} THEN "downline" ELSE r.pc]
  OBVIOUS
<1>4. task'[t] = n /\ (\A s \in Tasks : s # t => task'[s] = task[s]) /\ r.pc = "level"
  <2>1. NextLevel(t) = n
    BY <1>1, <1>2, <1>3 DEF NextLevel, Switches
  <2>2. QED BY <1>1, <2>1, Moves DEF ReadLevel
<1>5. /\ n.target = r.target /\ n.on = r.on /\ n.level = found /\ n.below = r.below \union found
      /\ n.pc = IF found = {} THEN "downline" ELSE "level"
  BY <1>3, <1>4 DEF Switches
<1>6. UNCHANGED switches /\ user' = user
  BY DEF ReadLevel
<1>7. ASSUME NEW d \in due[t], d # r.target, d \notin n.below
      PROVE  \E c \in found : c \in Upline(d)
  <2>1. d \in Present /\ \E l \in r.level : l \in Upline(d)
    BY <1>1, <1>4, <1>5, <1>7 DEF SwitchesInv, SwitchInv
  <2>2. PICK l \in r.level : l \in Upline(d)
    BY <2>1
  <2>3. \A c \in Present : Parent(c) = l => c \in found
    BY <1>2, <2>2 DEF Children, Parent
  <2>4. QED BY <1>5, <1>7, <2>1, <2>2, <2>3, UplineNext
<1>8. SwitchInv(t)'
  <2>1. SwitchInv(t) /\ due'[t] = due[t]
    BY <1>6 DEF SwitchesInv, switches
  <2>2. \A d \in due[t] : d \in Present /\ d \in Present' /\ Upline(d)' = Upline(d)
    BY <2>1, UplineStays DEF SwitchInv, Keeps
  <2>3. n.target \in due[t] => user'[n.target].betting = n.on
    BY <1>1, <1>4, <1>5, <1>6, <2>1 DEF SwitchInv
  <2>4. \A d \in due'[t] : d = n.target \/ d \in n.below \/ \E l \in n.level : l \in Upline(d)'
    BY <1>5, <1>7, <2>1, <2>2
  <2>5. n.pc = "downline" => \A d \in due'[t] : d = n.target \/ d \in n.below
    BY <1>5, <1>7, <2>1
  <2>6. due'[t] \subseteq Present' /\ n.pc \in {"level", "downline"}
    BY <1>5, <2>1, <2>2
  <2>7. QED BY <1>4, <2>1, <2>3, <2>4, <2>5, <2>6 DEF SwitchInv, SwitchPcs
<1>9. ASSUME NEW s \in Tasks, s # t PROVE SwitchInv(s)'
  <2>1. due'[s] = due[s] /\ task'[s] = task[s]
    BY <1>4, <1>6, <1>9 DEF switches
  <2>2. QED BY <1>6, <2>1, SwitchWaits DEF SwitchesInv
<1>10. DecidedInv'
  BY <1>6 DEF SwitchesInv, DecidedInv, Present, switches
<1>11. QED BY <1>8, <1>9, <1>10 DEF SwitchesInv

LEMMA SwitchesDownline ==
  ASSUME TypeInv, TreeInv, Keeps, SwitchesInv, NEW t \in Tasks, SwitchDownline(t)
  PROVE  SwitchesInv'
<1>1. PICK r \in Switches : r = task[t]
  BY Kind DEF SwitchDownline
<1>2. PICK who, on : who = r.below /\ on = r.on
  OBVIOUS
<1>3. \A u \in Users : user'[u].betting = IF u \in who THEN on ELSE user[u].betting
  <2> SUFFICES ASSUME NEW u \in Users PROVE user'[u].betting = IF u \in who THEN on ELSE user[u].betting
    OBVIOUS
  <2>1. user'[u] = IF u \in who THEN [user[u] EXCEPT !.betting = on] ELSE user[u]
    BY <1>1, <1>2 DEF SwitchDownline
  <2>2. user[u] \in UserRows
    BY DEF TypeInv
  <2>3. [user[u] EXCEPT !.betting = on].betting = on
    BY <2>2 DEF UserRows
  <2>4. QED BY <2>1, <2>3
<1>4. Decides(t, who, on) /\ Continue(t, Idle)
  BY <1>1, <1>2 DEF SwitchDownline
<1>5. \A u \in due[t] : u \in who \/ user[u].betting = on
  BY <1>1, <1>2 DEF SwitchDownline, SwitchesInv, SwitchInv
<1>6. QED BY <1>3, <1>4, <1>5, SwitchEnds


LEMMA BettingKept ==
  ASSUME TypeInv, [Next]_vars, \A t \in Tasks : ~SwitchTarget(t) /\ ~SwitchDownline(t)
  PROVE  \A u \in Present : user'[u].betting = user[u].betting
<1> DEFINE Kept == \A u \in Present : user'[u].betting = user[u].betting
<1>1. ASSUME NEW t \in Tasks, InsertUser(t) PROVE Kept
  <2>1. PICK v \in Users \ Present : \E new : user' = [user EXCEPT ![v] = new]
    BY <1>1 DEF InsertUser
  <2>2. QED BY <2>1 DEF TypeInv, Present
<1>2. ASSUME NEW actor, NEW target, NEW share, UpdateCommission(actor, target, share) PROVE Kept
  <2>1. user' = [user EXCEPT ![target] = [user[target] EXCEPT !.share = share]]
    BY <1>2 DEF UpdateCommission
  <2>2. ASSUME NEW u \in Present PROVE user'[u].betting = user[u].betting
    <3>1. user[u] \in UserRows /\ u \in Users
      BY DEF TypeInv, Present
    <3>2. [user[u] EXCEPT !.share = share].betting = user[u].betting
      BY <3>1 DEF UserRows
    <3>3. QED BY <2>1, <3>1, <3>2 DEF TypeInv
  <2>3. QED BY <2>2
<1>3. user' = user => Kept
  OBVIOUS
<1> HIDE DEF Kept
<1>4. ASSUME NEW t \in Tasks, Creation(t) PROVE Kept
  BY <1>1, <1>3, <1>4 DEF Creation, CreateUser, CreateClient, InsertWallet, WalletFails
<1>5. ASSUME NEW t \in Tasks, Switching(t) PROVE Kept
  BY <1>3, <1>5 DEF Switching, ToggleUserStatus, SetBettingEnabled, ReadLevel
<1>6. ASSUME NEW t \in Tasks, Transferring(t) \/ Distribution(t) PROVE Kept
  BY <1>3, <1>6 DEF Transferring, Transfer, ReadWallets, CommitTransfer, TransferFails,
                    Distribution, Distribute, DeleteRows, WalkUp, CommitRows, DistributionFails
<1>7. UNCHANGED vars => Kept
  BY <1>3 DEF vars
<1>8. Kept
  BY <1>2, <1>4, <1>5, <1>6, <1>7 DEF Next
<1>9. QED BY <1>8 DEF Kept

LEMMA SwitchesStep == TypeInv /\ TreeInv /\ SwitchesInv /\ [Next]_vars => SwitchesInv'
<1> SUFFICES ASSUME TypeInv, TreeInv, SwitchesInv, [Next]_vars PROVE SwitchesInv'
  OBVIOUS
<1>1. Keeps
  BY UsersStay
<1>2. ASSUME NEW t \in Tasks, Switching(t) PROVE SwitchesInv'
  BY <1>1, <1>2, SwitchesAsked, SwitchesTarget, SwitchesReadLevel, SwitchesDownline DEF Switching
<1>3. CASE \E t \in Tasks : SwitchTarget(t) \/ SwitchDownline(t)
  BY <1>2, <1>3 DEF Switching
<1>4. ASSUME ~(\E t \in Tasks : SwitchTarget(t) \/ SwitchDownline(t)) PROVE SwitchesInv'
  <2>1. \A u \in Present : user'[u].betting = user[u].betting
    BY <1>4, BettingKept
  <2>2. ASSUME NEW t \in Tasks, Creation(t) \/ Transferring(t) \/ Distribution(t)
        PROVE  UNCHANGED switches
    BY <2>2 DEF Creation, CreateUser, CreateClient, InsertUser, InsertWallet, WalletFails,
                Transferring, Transfer, ReadWallets, CommitTransfer, TransferFails,
                Distribution, Distribute, DeleteRows, WalkUp, CommitRows, DistributionFails
  <2>3. ASSUME NEW t \in Tasks, Creation(t) \/ Transferring(t) \/ Distribution(t)
        PROVE  \A s \in Tasks : task'[s] = task[s] \/ (task[s].pc \notin SwitchPcs /\ task'[s].pc \notin SwitchPcs)
    BY <2>3, CreationGoes, TransferringGoes, DistributionGoes DEF Goes, SwitchPcs
  <2>4. ASSUME UNCHANGED vars \/ \E actor, target, share : UpdateCommission(actor, target, share)
        PROVE  task' = task /\ UNCHANGED switches
    BY <2>4 DEF UpdateCommission, vars, switches
  <2>5. QED BY <1>1, <1>2, <2>1, <2>2, <2>3, <2>4, SwitchesStay DEF Next
<1>5. QED BY <1>3, <1>4

LEMMA SwitchesInvariant == Spec => []SwitchesInv
BY SwitchesInit, SwitchesStep, TreeInvariant, PTL DEF Spec

\* What a switch that has ended decided - for a stopped agent or admin about all
\* that were below it when it was asked for - stands until another switch says
\* otherwise, whoever is created meanwhile and however switches meet.
THEOREM SwitchesHold == Spec => []SwitchHolds
<1>1. SwitchesInv => SwitchHolds
  BY DEF SwitchesInv, DecidedInv, SwitchHolds
<1>2. QED BY <1>1, SwitchesInvariant, PTL


-----------------------------------------------------------------------------
(* Distributions: what one has written so far adds up and went up the tree, and *)
(* rows it does not find belong to one that was under way at the same time      *)

Distributes(r) == r.pc \in {"delete", "walk"}

Rank(u) ==
  IF user[u].role = "CLIENT" THEN 0 ELSE IF user[u].role = "AGENT" THEN 1
  ELSE IF user[u].role = "ADMIN" THEN 2 ELSE 3

RunInv(r) ==
  Distributes(r) =>
    /\ r.run < requests /\ r.client \in Present /\ user[r.client].role = "CLIENT"
    /\ \A d \in r.doomed : d.run < requests

WalkInv(r) ==
  r.pc = "walk" =>
    /\ IsFiniteSet(r.made) /\ AmountOf(r.made) = r.total
    /\ (r.at = r.client /\ r.made = {}) \/ r.at \in Upline(r.client)
    /\ \A q \in r.made :
         /\ q.client = r.client /\ q.run = r.run /\ q.net = r.net /\ q.rest = FALSE
         /\ q.to \in Upline(r.client) /\ Rank(q.to) <= Rank(r.at)

\* Two requests, and a row and a request, where the distributions in O met.
Parted(O, r, q) ==
  Distributes(r) /\ Distributes(q) =>
    /\ r.run # q.run
    /\ r.client = q.client => {r.run, q.run} \in O
    /\ \A d \in q.doomed : d.run # r.run

Known(O, p, r) ==
  Distributes(r) =>
    /\ p.run # r.run
    /\ p.client = r.client => p \in r.doomed \/ {p.run, r.run} \in O
    /\ \A d \in r.doomed : d.client = p.client /\ d.run = p.run => p \in r.doomed

Written(client, run) == {q \in rows : q.client = client /\ q.run = run}

RowInv(p) ==
  /\ p.run < requests /\ p.client \in Present /\ p.to \in Upline(p.client)
  /\ AmountOf(Written(p.client, p.run)) = (0 - 100) * p.net

RowsInv ==
  /\ IsFiniteSet(rows) /\ DistributedOnce
  /\ \A p \in rows : RowInv(p)
  /\ \A t \in Tasks : RunInv(task[t]) /\ WalkInv(task[t])
  /\ \A s, t \in Tasks : s # t => Parted(overlaps, task[s], task[t])
  /\ \A p \in rows, t \in Tasks : Known(overlaps, p, task[t])

LEMMA RowsInit == Init => RowsInv
<1> SUFFICES ASSUME Init PROVE RowsInv
  OBVIOUS
<1>1. rows = {} /\ \A t \in Tasks : task[t] = Idle
  BY DEF Init
<1>2. Idle.pc = "idle"
  BY DEF Idle
<1>3. \A t \in Tasks : RunInv(task[t]) /\ WalkInv(task[t])
  BY <1>1, <1>2 DEF RunInv, WalkInv, Distributes
<1>4. \A s, t \in Tasks : s # t => Parted(overlaps, task[s], task[t])
  BY <1>1, <1>2 DEF Parted, Distributes
<1>5. QED BY <1>1, <1>3, <1>4, FS_EmptySet DEF RowsInv, DistributedOnce

\* A request that goes on, and a row that stays.
LEMMA RequestStays ==
  ASSUME TypeInv, TreeInv, Keeps, requests \in Int, requests' \in Int, requests <= requests',
         NEW r \in Requests, RunInv(r), WalkInv(r)
  PROVE  RunInv(r)' /\ WalkInv(r)'
<1>1. RunInv(r)'
  <2> SUFFICES ASSUME Distributes(r)
               PROVE  /\ r.run < requests' /\ r.client \in Present' /\ user'[r.client].role = "CLIENT"
                      /\ \A d \in r.doomed : d.run < requests'
    BY DEF RunInv, Distributes
  <2>1. r.run \in Int /\ \A d \in r.doomed : d.run \in Int
    BY DEF Distributes, Requests, Idle, Inserts, WalletRequests, Switches, Asked, Transfers, Deletes, Walks, Rows
  <2>2. r.run < requests /\ r.client \in Present /\ user[r.client].role = "CLIENT" /\ \A d \in r.doomed : d.run < requests
    BY DEF RunInv
  <2>3. r.client \in Present' /\ user'[r.client].role = "CLIENT"
    BY <2>2 DEF Keeps
  <2>4. QED BY <2>1, <2>2, <2>3
<1>2. WalkInv(r)'
  <2> SUFFICES ASSUME r.pc = "walk" PROVE WalkInv(r)'
    BY DEF WalkInv
  <2>1. r.client \in Present
    BY DEF RunInv, Distributes
  <2>2. Upline(r.client)' = Upline(r.client) /\ Upline(r.client) \subseteq Present
    BY <2>1, UplineStays
  <2>3. \A u \in Present : Rank(u)' = Rank(u)
    BY DEF Rank, Keeps
  <2>4. r.at \in Present
    BY <2>1, <2>2 DEF WalkInv
  <2>5. AmountOf(r.made)' = AmountOf(r.made)
    BY DEF AmountOf
  <2>6. QED BY <2>2, <2>3, <2>4, <2>5 DEF WalkInv
<1>3. QED BY <1>1, <1>2

LEMMA RowStays ==
  ASSUME TypeInv, TreeInv, Keeps, requests \in Int, requests' \in Int, requests <= requests',
         NEW p \in Rows, RowInv(p), Written(p.client, p.run)' = Written(p.client, p.run)
  PROVE  RowInv(p)'
<1>1. p.run \in Int
  BY DEF Rows
<1>2. Upline(p.client)' = Upline(p.client)
  BY UplineStays DEF RowInv
<1>3. p.client \in Present'
  BY DEF RowInv, Keeps
<1>4. AmountOf(Written(p.client, p.run))' = AmountOf(Written(p.client, p.run))
  BY DEF AmountOf
<1>5. QED BY <1>1, <1>2, <1>3, <1>4 DEF RowInv


\* What the invariant says of one request.
AloneInv(t) ==
  /\ RunInv(task[t]) /\ WalkInv(task[t])
  /\ \A s \in Tasks : s # t => Parted(overlaps, task[s], task[t]) /\ Parted(overlaps, task[t], task[s])
  /\ \A p \in rows : Known(overlaps, p, task[t])

LEMMA PartedGrows ==
  ASSUME NEW O, NEW Q, O \subseteq Q, NEW r, NEW q, Parted(O, r, q)
  PROVE  Parted(Q, r, q)
BY DEF Parted

LEMMA KnownGrows ==
  ASSUME NEW O, NEW Q, O \subseteq Q, NEW p, NEW r, Known(O, p, r)
  PROVE  Known(Q, p, r)
BY DEF Known

\* Where no row is written or deleted.
LEMMA RowsMove ==
  ASSUME TypeInv, TypeInv', TreeInv, Keeps, RowsInv, rows' = rows, overlaps \subseteq overlaps', requests <= requests',
         \A t \in Tasks : task'[t] = task[t] \/ AloneInv(t)'
  PROVE  RowsInv'
<1>1. requests \in Int /\ requests' \in Int
  BY HierarchyAssumption DEF TypeInv
<1>2. ASSUME NEW p \in rows PROVE RowInv(p)'
  <2>1. Written(p.client, p.run)' = Written(p.client, p.run)
    BY DEF Written
  <2>2. RowInv(p) /\ p \in Rows
    BY DEF RowsInv, TypeInv
  <2>3. QED BY <1>1, <2>1, <2>2, RowStays
<1>3. ASSUME NEW t \in Tasks PROVE RunInv(task[t])' /\ WalkInv(task[t])'
  <2>1. CASE task'[t] = task[t]
    <3>1. PICK r : r = task[t]
      OBVIOUS
    <3>2. r \in Requests /\ RunInv(r) /\ WalkInv(r)
      BY <3>1 DEF RowsInv, TypeInv
    <3>3. RunInv(r)' /\ WalkInv(r)'
      BY <1>1, <3>2, RequestStays
    <3>4. task'[t] = r
      BY <2>1, <3>1
    <3>5. QED BY <3>3, <3>4 DEF RunInv, WalkInv
  <2>2. CASE AloneInv(t)'
    BY <2>2 DEF AloneInv
  <2>3. QED BY <2>1, <2>2
<1>4. ASSUME NEW s \in Tasks, NEW t \in Tasks, s # t PROVE Parted(overlaps', task'[s], task'[t])
  <2>1. CASE AloneInv(t)' \/ AloneInv(s)'
    BY <1>4, <2>1 DEF AloneInv
  <2>2. CASE task'[s] = task[s] /\ task'[t] = task[t]
    <3>1. Parted(overlaps, task[s], task[t])
      BY <1>4 DEF RowsInv
    <3>2. QED BY <2>2, <3>1, PartedGrows
  <2>3. QED BY <2>1, <2>2
<1>5. ASSUME NEW p \in rows, NEW t \in Tasks PROVE Known(overlaps', p, task'[t])
  <2>1. CASE AloneInv(t)'
    BY <2>1 DEF AloneInv
  <2>2. CASE task'[t] = task[t]
    <3>1. Known(overlaps, p, task[t])
      BY DEF RowsInv
    <3>2. QED BY <2>2, <3>1, KnownGrows
  <2>3. QED BY <2>1, <2>2
<1>6. IsFiniteSet(rows') /\ DistributedOnce'
  BY DEF RowsInv, DistributedOnce
<1>7. QED BY <1>2, <1>3, <1>4, <1>5, <1>6 DEF RowsInv

LEMMA AloneIdle ==
  ASSUME NEW t \in Tasks, ~Distributes(task'[t])
  PROVE  AloneInv(t)'
BY DEF AloneInv, RunInv, WalkInv, Parted, Known, Distributes

LEMMA RowsDistribute ==
  ASSUME TypeInv, TypeInv', TreeInv, Keeps, RowsInv, NEW t \in Tasks, NEW client \in Present, NEW net \in {-1, 1},
         May("distribute", t), Distribute(t, client, net)
  PROVE  RowsInv'
<1>1. PICK r : r = [pc |-> "delete", run |-> requests, client |-> client, net |-> net,
                    doomed |-> {q \in rows : q.client = client}]
  OBVIOUS
<1>2. Ask(t, r) /\ rows' = rows /\ user' = user
  BY <1>1 DEF Distribute
<1>3. task'[t] = r /\ \A s \in Tasks : s # t => task'[s] = task[s]
  BY <1>2, Moves
<1>4. requests \in Int /\ requests' = requests + 1
  BY <1>2, HierarchyAssumption DEF Ask, TypeInv
<1>5. overlaps' = overlaps \union {{task[s].run, requests} :
                                   s \in {s \in Tasks : Distributing(s) /\ task[s].client = client}}
  BY DEF Distribute
<1>6. r.pc = "delete" /\ r.run = requests /\ r.client = client /\ r.doomed = {q \in rows : q.client = client}
  BY <1>1
<1>7. \A p \in rows : p.run \in Int /\ p.run < requests
  BY DEF RowsInv, RowInv, TypeInv, Rows
<1>8. RunInv(r)' /\ WalkInv(r)'
  <2>1. user'[client].role = "CLIENT" /\ client \in Present'
    BY <1>2 DEF Distribute, Has, Keeps
  <2>2. \A d \in r.doomed : d.run < requests'
    BY <1>4, <1>6, <1>7
  <2>3. QED BY <1>4, <1>6, <2>1, <2>2 DEF RunInv, WalkInv, Distributes
<1>9. ASSUME NEW s \in Tasks, s # t PROVE Parted(overlaps', task[s], r) /\ Parted(overlaps', r, task[s])
  <2> SUFFICES ASSUME Distributes(task[s]) PROVE Parted(overlaps', task[s], r) /\ Parted(overlaps', r, task[s])
    BY DEF Parted
  <2>1. task[s].run < requests /\ \A d \in task[s].doomed : d.run < requests
    BY DEF RowsInv, RunInv
  <2>2. task[s].run \in Int /\ \A d \in task[s].doomed : d.run \in Int
    BY Kind DEF Distributes, Deletes, Walks, Rows
  <2>3. task[s].run # requests /\ \A d \in task[s].doomed : d.run # requests
    BY <1>4, <2>1, <2>2
  <2>4. task[s].client = client => {task[s].run, requests} \in overlaps'
    BY <1>5 DEF Distributes, Distributing
  <2>5. {task[s].run, requests} = {requests, task[s].run}
    OBVIOUS
  <2>6. \A d \in r.doomed : d.run # task[s].run
    BY <1>6 DEF RowsInv, Known
  <2>7. QED BY <1>6, <2>3, <2>4, <2>5, <2>6 DEF Parted
<1>10. ASSUME NEW p \in rows PROVE Known(overlaps', p, r)
  <2>1. p.run # requests
    BY <1>4, <1>7
  <2>2. QED BY <1>6, <2>1 DEF Known
<1>11. AloneInv(t)'
  BY <1>2, <1>3, <1>8, <1>9, <1>10 DEF AloneInv, RunInv, WalkInv
<1>12. overlaps \subseteq overlaps' /\ requests <= requests'
  BY <1>4, <1>5
<1>13. QED BY <1>2, <1>3, <1>11, <1>12, RowsMove

LEMMA RowsDelete ==
  ASSUME TypeInv, TypeInv', TreeInv, Keeps, RowsInv, NEW t \in Tasks, DeleteRows(t)
  PROVE  RowsInv'
<1>1. PICK r \in Deletes : r = task[t]
  BY Kind DEF DeleteRows
<1>2. PICK n : n = [pc |-> "walk", run |-> r.run, client |-> r.client, net |-> r.net,
                    doomed |-> r.doomed \intersect rows, at |-> r.client, child |-> 100,
                    total |-> 0, made |-> {}]
  OBVIOUS
<1>3. Continue(t, n) /\ UNCHANGED <<user, shares>> /\ r.pc = "delete"
  BY <1>1, <1>2 DEF DeleteRows
<1>4. task'[t] = n /\ \A s \in Tasks : s # t => task'[s] = task[s]
  BY <1>3, Moves
<1>5. requests \in Int /\ requests' = requests /\ rows' = rows /\ overlaps' = overlaps
  BY <1>3, HierarchyAssumption DEF Continue, TypeInv, shares
<1>6. /\ n.pc = "walk" /\ n.run = r.run /\ n.client = r.client /\ n.doomed = r.doomed \intersect rows
      /\ n.at = n.client /\ n.made = {} /\ n.total = 0
  BY <1>2
<1>7. AloneInv(t)
  BY DEF RowsInv, AloneInv
<1>8. RunInv(n)' /\ WalkInv(n)'
  <2>1. RunInv(n)
    BY <1>1, <1>3, <1>6, <1>7 DEF AloneInv, RunInv, Distributes
  <2>2. WalkInv(n)
    BY <1>6, AmountEmpty, FS_EmptySet DEF WalkInv
  <2>3. n \in Requests
    BY <1>4 DEF TypeInv
  <2>4. QED BY <1>5, <2>1, <2>2, <2>3, RequestStays
<1>9. ASSUME NEW s \in Tasks, s # t PROVE Parted(overlaps, task[s], n) /\ Parted(overlaps, n, task[s])
  BY <1>1, <1>3, <1>6, <1>7, <1>9 DEF AloneInv, Parted, Distributes
<1>10. ASSUME NEW p \in rows PROVE Known(overlaps, p, n)
  BY <1>1, <1>3, <1>6, <1>7 DEF AloneInv, Known, Distributes
<1>11. AloneInv(t)'
  BY <1>4, <1>5, <1>8, <1>9, <1>10 DEF AloneInv, RunInv, WalkInv
<1>12. QED BY <1>4, <1>5, <1>11, RowsMove


\* Whoever is above may create what is below, so three levels are all there are
\* above a client.
LEMMA RankUp ==
  ASSUME TypeInv, TreeInv, NEW u \in Present, Parent(u) # None
  PROVE  Rank(u) \in Nat /\ Rank(Parent(u)) \in Nat /\ Rank(u) < Rank(Parent(u)) /\ Rank(Parent(u)) <= 3
<1>1. PICK p, above, role : p = Parent(u) /\ above = user[p].role /\ role = user[u].role
  OBVIOUS
<1>2. Fits(p, role)
  BY <1>1 DEF TreeInv, Parent
<1>3. CanCreate(above, role) /\ role \notin Tops
  BY <1>1, <1>2 DEF Fits
<1>4. Rank(u) = (IF role = "CLIENT" THEN 0 ELSE IF role = "AGENT" THEN 1 ELSE IF role = "ADMIN" THEN 2 ELSE 3)
      /\ Rank(p) = (IF above = "CLIENT" THEN 0 ELSE IF above = "AGENT" THEN 1 ELSE IF above = "ADMIN" THEN 2 ELSE 3)
  BY <1>1 DEF Rank
<1>5. QED BY <1>1, <1>3, <1>4 DEF CanCreate, Tops, Roles

LEMMA UplineClosed ==
  ASSUME TypeInv, TreeInv, NEW c \in Present, NEW x, x = c \/ x \in Upline(c), Parent(x) # None
  PROVE  x \in Present /\ Parent(x) \in Upline(c)
<1>1. PICK p, q, w : p = Parent(c) /\ q = Parent(p) /\ w = Parent(q)
  OBVIOUS
<1>2. \A v : v \in Upline(c) <=> v # None /\ (v = p \/ (p # None /\ v = q) \/ (p # None /\ q # None /\ v = w))
  BY <1>1, UplineIs, UplineNow DEF Parent
<1>3. (p # None => p \in Present) /\ (p # None /\ q # None => q \in Present)
      /\ (p # None /\ q # None /\ w # None => w \in Present)
  BY <1>1, ParentsPresent
<1>4. CASE x = c
  BY <1>1, <1>2, <1>4
<1>5. CASE x = p
  BY <1>1, <1>2, <1>3, <1>5, <1>4
<1>6. CASE x = q /\ p # None
  BY <1>1, <1>2, <1>3, <1>6, <1>5
<1>7. ASSUME x = w, w # None, q # None, p # None PROVE FALSE
  <2>1. Rank(c) < Rank(p) /\ Rank(p) < Rank(q) /\ Rank(q) < Rank(w) /\ Rank(c) \in Nat /\ Rank(p) \in Nat
        /\ Rank(q) \in Nat /\ Rank(w) \in Nat
    BY <1>1, <1>3, <1>7, RankUp
  <2>2. Rank(w) < Rank(Parent(w)) /\ Rank(Parent(w)) <= 3 /\ Rank(Parent(w)) \in Nat
    BY <1>3, <1>7, RankUp
  <2>3. QED BY <2>1, <2>2
<1>8. QED BY <1>2, <1>4, <1>5, <1>6, <1>7

LEMMA RowsWalkUp ==
  ASSUME TypeInv, TypeInv', TreeInv, Keeps, RowsInv, NEW t \in Tasks, WalkUp(t)
  PROVE  RowsInv'
<1>1. PICK r \in Walks : r = task[t]
  BY Kind DEF WalkUp
<1>2. PICK parent : parent = user[r.at].parent
  OBVIOUS
<1>3. PICK child : child = user[parent].share
  OBVIOUS
<1>4. PICK amount : amount = (0 - r.net) * (r.child - child)
  OBVIOUS
<1>5. PICK row : row = [client |-> r.client, to |-> parent, amount |-> amount,
                        run |-> r.run, net |-> r.net, rest |-> FALSE]
  OBVIOUS
<1>6. PICK n : n = [r EXCEPT !.at = parent, !.child = child, !.total = r.total + amount,
                             !.made = r.made \union {row}]
  OBVIOUS
<1>7. Continue(t, n) /\ UNCHANGED <<user, shares>> /\ r.pc = "walk" /\ parent # None
  <2>1. r.total = task[t].total /\ r.made = task[t].made
    BY <1>1
  <2>2. QED BY <1>1, <1>2, <1>3, <1>4, <1>5, <1>6, <2>1 DEF WalkUp, Walks
<1>8. task'[t] = n /\ \A s \in Tasks : s # t => task'[s] = task[s]
  BY <1>7, Moves
<1>9. requests \in Int /\ requests' = requests /\ rows' = rows /\ overlaps' = overlaps
  BY <1>7, HierarchyAssumption DEF Continue, TypeInv, shares
<1>10. /\ n.pc = "walk" /\ n.run = r.run /\ n.client = r.client /\ n.doomed = r.doomed /\ n.net = r.net
       /\ n.at = parent /\ n.made = r.made \union {row} /\ n.total = r.total + amount
  BY <1>6, <1>7 DEF Walks
<1>11. AloneInv(t)
  BY DEF RowsInv, AloneInv
<1>12. RunInv(r) /\ WalkInv(r)
  BY <1>1, <1>11 DEF AloneInv
<1>13. r.client \in Present
  BY <1>7, <1>12 DEF RunInv, Distributes
<1>14. r.at \in Present /\ parent \in Upline(r.client) /\ parent = Parent(r.at)
  BY <1>2, <1>7, <1>12, <1>13, UplineClosed DEF WalkInv, Parent
<1>15. Rank(r.at) \in Nat /\ Rank(parent) \in Nat /\ Rank(r.at) < Rank(parent)
  BY <1>7, <1>14, RankUp
<1>16. WalkInv(n)
  <2>1. IsFiniteSet(r.made) /\ AmountOf(r.made) = r.total
    BY <1>7, <1>12 DEF WalkInv
  <2>2. \A q \in r.made : /\ q.client = r.client /\ q.run = r.run /\ q.net = r.net /\ q.rest = FALSE
                          /\ q.to \in Upline(r.client) /\ Rank(q.to) <= Rank(r.at)
    BY <1>7, <1>12 DEF WalkInv
  <2>3. row.client = r.client /\ row.to = parent /\ row.run = r.run /\ row.net = r.net /\ row.rest = FALSE
        /\ row.amount = amount
    BY <1>5
  <2>4. \A q \in r.made : Rank(q.to) \in Int /\ Rank(q.to) <= Rank(parent) /\ q.to # parent
    <3>1. \A u : Rank(u) \in Int
      BY DEF Rank
    <3>2. QED BY <1>15, <2>2, <3>1
  <2>5. row \notin r.made
    BY <2>3, <2>4
  <2>6. AmountOf(r.made \union {row}) = r.total + amount
    <3>1. n.made \subseteq Rows
      BY <1>8, <1>10, Kind DEF TypeInv, Requests, Idle, Inserts, WalletRequests, Switches, Asked, Transfers, Deletes, Walks
    <3>2. \A q \in r.made \union {row} : q.amount \in Int
      BY <1>10, <3>1 DEF Rows
    <3>3. QED BY <2>1, <2>3, <2>5, <3>2, AmountAdd
  <2>7. IsFiniteSet(n.made)
    BY <1>10, <2>1, FS_AddElement
  <2>8. Rank(row.to) <= Rank(n.at)
    BY <1>10, <1>15, <2>3
  <2>9. ASSUME NEW q \in n.made
        PROVE  /\ q.client = n.client /\ q.run = n.run /\ q.net = n.net /\ q.rest = FALSE
               /\ q.to \in Upline(n.client) /\ Rank(q.to) <= Rank(n.at)
    BY <1>10, <1>14, <2>2, <2>3, <2>4, <2>8
  <2>10. n.at \in Upline(n.client)
    BY <1>10, <1>14
  <2>11. QED BY <1>10, <2>6, <2>7, <2>9, <2>10 DEF WalkInv
<1>17. RunInv(n)' /\ WalkInv(n)'
  <2>1. RunInv(n)
    BY <1>7, <1>10, <1>12 DEF RunInv, Distributes
  <2>2. n \in Requests
    BY <1>8 DEF TypeInv
  <2>3. QED BY <1>9, <1>16, <2>1, <2>2, RequestStays
<1>18. ASSUME NEW s \in Tasks, s # t PROVE Parted(overlaps, task[s], n) /\ Parted(overlaps, n, task[s])
  BY <1>1, <1>7, <1>10, <1>11, <1>18 DEF AloneInv, Parted, Distributes
<1>19. ASSUME NEW p \in rows PROVE Known(overlaps, p, n)
  BY <1>1, <1>7, <1>10, <1>11 DEF AloneInv, Known, Distributes
<1>20. AloneInv(t)'
  BY <1>8, <1>9, <1>17, <1>18, <1>19 DEF AloneInv, RunInv, WalkInv
<1>21. QED BY <1>8, <1>9, <1>20, RowsMove


LEMMA RowsCommit ==
  ASSUME TypeInv, TypeInv', TreeInv, Keeps, RowsInv, NEW t \in Tasks, CommitRows(t)
  PROVE  RowsInv'
<1>1. PICK r \in Walks : r = task[t]
  BY Kind DEF CommitRows
<1>2. PICK remainder : remainder = Remainder(r)
  OBVIOUS
<1>3. PICK row : row = [client |-> r.client, to |-> r.at, amount |-> remainder,
                        run |-> r.run, net |-> r.net, rest |-> TRUE]
  OBVIOUS
<1>4. PICK new : new = r.made \union (IF remainder = 0 THEN {} ELSE {row})
  OBVIOUS
<1>5. /\ rows' = (rows \ r.doomed) \union new /\ Continue(t, Idle) /\ user' = user /\ overlaps' = overlaps
      /\ r.pc = "walk" /\ user[r.at].parent = None
  BY <1>1, <1>2, <1>3, <1>4 DEF CommitRows, Deleted
<1>6. task'[t] = Idle /\ \A s \in Tasks : s # t => task'[s] = task[s]
  BY <1>5, Moves
<1>7. requests \in Int /\ requests' = requests
  BY <1>5, HierarchyAssumption DEF Continue, TypeInv
<1>8. AloneInv(t)
  BY DEF RowsInv, AloneInv
<1>9. RunInv(r) /\ WalkInv(r) /\ \A p \in rows : Known(overlaps, p, r)
  BY <1>1, <1>8 DEF AloneInv
<1>10. r.client \in Present /\ r.run < requests /\ user[r.client].role = "CLIENT"
  BY <1>5, <1>9 DEF RunInv, Distributes
<1>11. r.at \in Upline(r.client)
  <2>1. r.at # r.client
    BY <1>5, <1>10 DEF TreeInv, Fits, Tops
  <2>2. QED BY <1>5, <1>9, <2>1 DEF WalkInv
<1>12. /\ IsFiniteSet(r.made) /\ AmountOf(r.made) = r.total
       /\ \A q \in r.made : /\ q.client = r.client /\ q.run = r.run /\ q.net = r.net /\ q.rest = FALSE
                            /\ q.to \in Upline(r.client)
  BY <1>5, <1>9 DEF WalkInv
<1>13. row.client = r.client /\ row.run = r.run /\ row.net = r.net /\ row.rest = TRUE /\ row.to = r.at
       /\ row.amount = remainder
  BY <1>3
<1>14. \A q \in new : q.client = r.client /\ q.run = r.run /\ q.net = r.net /\ q.to \in Upline(r.client)
  BY <1>4, <1>11, <1>12, <1>13
<1>15. IsFiniteSet(new) /\ AmountOf(new) = (0 - 100) * r.net
  <2>1. remainder = (0 - r.net) * 100 - r.total /\ r.net \in Int /\ r.total \in Int
    BY <1>2 DEF Remainder, Walks
  <2>2. CASE remainder = 0
    <3>1. new = r.made
      BY <1>4, <2>2
    <3>2. r.total = (0 - 100) * r.net
      BY <2>1, <2>2
    <3>3. QED BY <1>12, <3>1, <3>2
  <2>3. CASE remainder # 0
    <3>1. new = r.made \union {row} /\ row \notin r.made
      BY <1>4, <1>12, <1>13, <2>3
    <3>2. \A q \in r.made \union {row} : q.amount \in Int
      BY <1>13, <2>1 DEF Walks, Rows
    <3>3. AmountOf(new) = r.total + remainder
      BY <1>12, <1>13, <3>1, <3>2, AmountAdd
    <3>4. IsFiniteSet(new)
      BY <1>12, <3>1, FS_AddElement
    <3>5. r.total + remainder = (0 - 100) * r.net
      BY <2>1
    <3>6. QED BY <3>3, <3>4, <3>5
  <2>4. QED BY <2>2, <2>3
<1>16. IsFiniteSet(rows')
  <2>1. IsFiniteSet(rows \ r.doomed)
    BY FS_Subset DEF RowsInv
  <2>2. QED BY <1>5, <1>15, <2>1, FS_Union
<1>17. Upline(r.client)' = Upline(r.client)
  BY <1>10, UplineStays
<1>18. \A p \in rows : p.run # r.run /\ (p.client = r.client => p \in r.doomed \/ {p.run, r.run} \in overlaps)
                       /\ \A d \in r.doomed : d.client = p.client /\ d.run = p.run => p \in r.doomed
  BY <1>5, <1>9 DEF Known, Distributes
<1>19. ASSUME NEW p \in rows, p \notin r.doomed PROVE RowInv(p)'
  <2>1. Written(p.client, p.run)' = Written(p.client, p.run)
    BY <1>5, <1>14, <1>18, <1>19 DEF Written
  <2>2. RowInv(p) /\ p \in Rows
    BY DEF RowsInv, TypeInv
  <2>3. QED BY <1>7, <2>1, <2>2, RowStays
<1>20. ASSUME NEW p \in new PROVE RowInv(p)'
  <2>1. p.client = r.client /\ p.run = r.run /\ p.net = r.net /\ p.to \in Upline(r.client)
    BY <1>14
  <2>2. Written(p.client, p.run)' = new
    BY <1>5, <1>14, <1>18, <2>1 DEF Written
  <2>3. AmountOf(Written(p.client, p.run))' = AmountOf(new)
    BY <2>2 DEF AmountOf
  <2>4. p.client \in Present'
    BY <1>10, <2>1 DEF Keeps
  <2>5. Upline(p.client)' = Upline(r.client)
    BY <1>17, <2>1
  <2>6. QED BY <1>7, <1>10, <1>15, <2>1, <2>3, <2>4, <2>5 DEF RowInv
<1>21. \A p \in rows' : RowInv(p)'
  BY <1>5, <1>19, <1>20
<1>22. DistributedOnce'
  <2> SUFFICES ASSUME NEW p \in rows', NEW q \in rows', p.client = q.client, p.run # q.run
               PROVE  {p.run, q.run} \in overlaps
    BY <1>5 DEF DistributedOnce
  <2>1. CASE p \in rows /\ q \in rows
    BY <2>1 DEF RowsInv, DistributedOnce
  <2>2. CASE p \in rows \ r.doomed /\ q \in new
    BY <1>14, <1>18, <2>2
  <2>3. CASE p \in new /\ q \in rows \ r.doomed
    <3>1. {q.run, r.run} \in overlaps /\ p.run = r.run
      BY <1>14, <1>18, <2>3
    <3>2. {q.run, p.run} = {p.run, q.run}
      OBVIOUS
    <3>3. QED BY <3>1, <3>2
  <2>4. CASE p \in new /\ q \in new
    BY <1>14, <2>4
  <2>5. QED BY <1>5, <2>1, <2>2, <2>3, <2>4
<1>23. Idle.pc = "idle"
  BY DEF Idle
<1>24. ASSUME NEW s \in Tasks PROVE RunInv(task[s])' /\ WalkInv(task[s])'
  <2>1. CASE s = t
    BY <1>6, <1>23, <2>1 DEF RunInv, WalkInv, Distributes
  <2>2. CASE s # t
    <3>1. PICK q : q = task[s]
      OBVIOUS
    <3>2. q \in Requests /\ RunInv(q) /\ WalkInv(q)
      BY <3>1 DEF RowsInv, TypeInv
    <3>3. RunInv(q)' /\ WalkInv(q)'
      BY <1>7, <3>2, RequestStays
    <3>4. task'[s] = q
      BY <1>6, <2>2, <3>1
    <3>5. QED BY <3>3, <3>4 DEF RunInv, WalkInv
  <2>3. QED BY <2>1, <2>2
<1>25. ASSUME NEW s \in Tasks, NEW u \in Tasks, s # u PROVE Parted(overlaps', task'[s], task'[u])
  BY <1>5, <1>6, <1>23, <1>25 DEF RowsInv, Parted, Distributes
<1>26. ASSUME NEW s \in Tasks, s # t, NEW p \in new, Distributes(task[s]) PROVE Known(overlaps, p, task[s])
  <2>1. Parted(overlaps, task[s], r) /\ Parted(overlaps, r, task[s]) /\ Distributes(r)
    BY <1>1, <1>5, <1>8, <1>26 DEF AloneInv, Distributes
  <2>2. r.run # task[s].run /\ \A d \in task[s].doomed : d.run # r.run
    BY <1>26, <2>1 DEF Parted
  <2>3. r.client = task[s].client => {r.run, task[s].run} \in overlaps
    BY <1>26, <2>1 DEF Parted
  <2>4. p.client = r.client /\ p.run = r.run
    BY <1>14
  <2>5. QED BY <2>2, <2>3, <2>4 DEF Known
<1>27. ASSUME NEW p \in rows', NEW s \in Tasks PROVE Known(overlaps', p, task'[s])
  <2>1. CASE s = t
    BY <1>6, <1>23, <2>1 DEF Known, Distributes
  <2>2. CASE s # t /\ ~Distributes(task[s])
    BY <1>6, <2>2 DEF Known
  <2>3. CASE s # t /\ p \in rows
    BY <1>5, <1>6, <2>3 DEF RowsInv
  <2>4. CASE s # t /\ Distributes(task[s]) /\ p \in new
    BY <1>5, <1>6, <1>26, <2>4
  <2>5. QED BY <1>5, <2>1, <2>2, <2>3, <2>4
<1>28. QED BY <1>16, <1>21, <1>22, <1>24, <1>25, <1>27 DEF RowsInv

LEMMA RowsStep == TypeInv /\ TypeInv' /\ TreeInv /\ RowsInv /\ [Next]_vars => RowsInv'
<1> SUFFICES ASSUME TypeInv, TypeInv', TreeInv, RowsInv, [Next]_vars PROVE RowsInv'
  OBVIOUS
<1>1. Keeps
  BY UsersStay
<1>2. ASSUME NEW t \in Tasks, Creation(t) \/ Switching(t) \/ Transferring(t) PROVE RowsInv'
  <2>1. UNCHANGED shares
    BY <1>2 DEF Creation, CreateUser, CreateClient, InsertUser, InsertWallet, WalletFails,
                Switching, ToggleUserStatus, SetBettingEnabled, SwitchTarget, ReadLevel, SwitchDownline,
                Transferring, Transfer, ReadWallets, CommitTransfer, TransferFails
  <2>2. requests' = requests \/ requests' = requests + 1
    BY <1>2 DEF Ask, Continue, Creation, CreateUser, CreateClient, InsertUser, InsertWallet, WalletFails,
                Switching, ToggleUserStatus, SetBettingEnabled, SwitchTarget, ReadLevel, SwitchDownline,
                Transferring, Transfer, ReadWallets, CommitTransfer, TransferFails
  <2>3. requests <= requests'
    BY <2>2, HierarchyAssumption DEF TypeInv
  <2>4. task'[t].pc \notin {"delete", "walk"} /\ \A s \in Tasks : s # t => task'[s] = task[s]
    BY <1>2, CreationGoes, SwitchingGoes, TransferringGoes DEF Goes, SwitchPcs
  <2>5. AloneInv(t)'
    BY <2>4, AloneIdle DEF Distributes
  <2>6. QED BY <1>1, <2>1, <2>3, <2>4, <2>5, RowsMove DEF shares
<1>3. ASSUME NEW t \in Tasks, DistributionFails(t) PROVE RowsInv'
  <2>1. UNCHANGED shares /\ requests' = requests /\ Continue(t, Idle)
    BY <1>3 DEF DistributionFails, Continue
  <2>2. task'[t] = Idle /\ \A s \in Tasks : s # t => task'[s] = task[s]
    BY <2>1, Moves
  <2>3. AloneInv(t)'
    BY <2>2, AloneIdle DEF Distributes, Idle
  <2>4. requests <= requests'
    BY <2>1, HierarchyAssumption DEF TypeInv
  <2>5. QED BY <1>1, <2>1, <2>2, <2>3, <2>4, RowsMove DEF shares
<1>4. ASSUME NEW t \in Tasks, Distribution(t) PROVE RowsInv'
  BY <1>1, <1>3, <1>4, RowsDistribute, RowsDelete, RowsWalkUp, RowsCommit DEF Distribution
<1>5. ASSUME UNCHANGED vars \/ \E actor, target, share : UpdateCommission(actor, target, share)
      PROVE  RowsInv'
  <2>1. UNCHANGED shares /\ task' = task /\ (requests' = requests \/ requests' = requests + 1)
    BY <1>5 DEF UpdateCommission, vars, shares
  <2>2. requests <= requests'
    BY <2>1, HierarchyAssumption DEF TypeInv
  <2>3. QED BY <1>1, <2>1, <2>2, RowsMove DEF shares
<1>6. QED BY <1>2, <1>4, <1>5 DEF Next

LEMMA RowsInvariant == Spec => []RowsInv
<1>1. TypeInv /\ TreeInv /\ RowsInv /\ [Next]_vars => RowsInv'
  BY TypeStep, RowsStep
<1>2. QED BY <1>1, RowsInit, TreeInvariant, PTL DEF Spec

\* What one distribution wrote adds up to the client's result and went to those
\* above the client, whoever is created or given another commission while it
\* walks up.
THEOREM ResultsPassUp == Spec => []ResultPassesUp
<1>1. RowsInv => ResultPassesUp
  BY DEF RowsInv, RowInv, Written, ResultPassesUp
<1>2. QED BY <1>1, RowsInvariant, PTL

\* Rows of two distributions of a client's result are there at once only if the
\* two were under way at once: the rows to delete are looked up before the
\* transaction writes, and nothing locks the client.
THEOREM DistributionsOnce == Spec => []DistributedOnce
<1>1. RowsInv => DistributedOnce
  BY DEF RowsInv
<1>2. QED BY <1>1, RowsInvariant, PTL
=============================================================================
