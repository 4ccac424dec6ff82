------------------------------- MODULE Escrow -------------------------------
(***************************************************************************)
(* What a client's wallet promises: money funded to the client is either   *)
(* free to bet and to withdraw, or held against open bets.  Bets only move *)
(* it from one side to the other and an agent's vault pays what is funded. *)
(***************************************************************************)
EXTENDS Integers

CONSTANTS Clients, Funds, VaultFunds

VARIABLES
  free,      \* per client, what may be bet or withdrawn
  held,      \* per client, what open bets hold
  funded,    \* per client, what was funded less what was withdrawn
  vault      \* the agent's money

vars == <<free, held, funded, vault>>

Init == /\ free = Funds
        /\ held = [c \in Clients |-> 0]
        /\ funded = Funds
        /\ vault = VaultFunds

\* Money held against a bet is money that was free.
Hold(c, amount) ==
  /\ amount <= free[c]
  /\ free' = [free EXCEPT ![c] = @ - amount]
  /\ held' = [held EXCEPT ![c] = @ + amount]
  /\ UNCHANGED <<funded, vault>>

\* One operation may release money of several clients: amounts[c] each.
Release(amounts) ==
  /\ \A c \in Clients : amounts[c] <= held[c]
  /\ free' = [c \in Clients |-> free[c] + amounts[c]]
  /\ held' = [c \in Clients |-> held[c] - amounts[c]]
  /\ UNCHANGED <<funded, vault>>

Fund(c, amount) ==
  /\ amount <= vault
  /\ vault' = vault - amount
  /\ free' = [free EXCEPT ![c] = @ + amount]
  /\ funded' = [funded EXCEPT ![c] = @ + amount]
  /\ UNCHANGED held

Withdraw(c, amount) ==
  /\ amount <= free[c]
  /\ vault' = vault + amount
  /\ free' = [free EXCEPT ![c] = @ - amount]
  /\ funded' = [funded EXCEPT ![c] = @ - amount]
  /\ UNCHANGED held

Amounts == UNION {0 .. held[c] : c \in Clients}

Next ==
  \/ \E c \in Clients : \/ \E amount \in 0 .. free[c] : Hold(c, amount) \/ Withdraw(c, amount)
                       \/ \E amount \in 0 .. vault : Fund(c, amount)
  \/ \E amounts \in [Clients -> Amounts] : Release(amounts)

Spec == Init /\ [][Next]_vars
=============================================================================
