------------------------------- MODULE Purse -------------------------------
(***************************************************************************)
(* A villager's spending purse: a PDA created and funded on Solana (L1),   *)
(* delegated to the ephemeral rollup (ER) where bids spend it, and brought *)
(* back to L1 to be withdrawn (programs/sinbazaar/src/lib.rs, deposit_purse*)
(* to withdraw_purse and undelegate_purse).                                *)
(*                                                                         *)
(* Lamports other than rent are modelled: what a wallet holds, and the two *)
(* counters of the Purse account.  The total supply bounds every sum, so   *)
(* the checked_add calls of the code cannot fail here and have no branch.  *)
(***************************************************************************)
EXTENDS Integers

CONSTANTS
  Bidders,    \* villagers who may own a purse
  Funds,      \* lamports each wallet starts with
  Transfers   \* the amounts a villager may deposit or withdraw at once

ASSUME PurseAssumption ==
  /\ Funds \in Nat
  /\ Transfers \subseteq Nat

VARIABLES
  wallet,     \* lamports in each villager's L1 wallet
  purse       \* the Purse account of each villager, and where it lives

purseVars == <<wallet, purse>>

\* "none": never created.  "L1": owned by the program on Solana.  "ER":
\* delegated, writable on the rollup only.  "returning": undelegation is
\* scheduled; neither layer can write the account until it lands.
PurseLayers == {"none", "L1", "ER", "returning"}

PurseRecord == [available : Nat, locked : Nat, layer : PurseLayers]

PurseInit ==
  /\ wallet = [b \in Bidders |-> Funds]
  /\ purse = [b \in Bidders |-> [available |-> 0, locked |-> 0, layer |-> "none"]]

DepositPurse(b, amount) ==
  /\ amount > 0
  /\ wallet[b] >= amount
  /\ purse[b].layer \in {"none", "L1"}
  /\ wallet' = [wallet EXCEPT ![b] = @ - amount]
  /\ purse' = [purse EXCEPT ![b].available = @ + amount, ![b].layer = "L1"]

DelegatePurse(b) ==
  /\ purse[b].layer = "L1"
  /\ purse' = [purse EXCEPT ![b].layer = "ER"]
  /\ UNCHANGED wallet

WithdrawPurse(b, amount) ==
  /\ amount > 0
  /\ purse[b].layer = "L1"
  /\ purse[b].locked = 0
  /\ purse[b].available >= amount
  /\ purse' = [purse EXCEPT ![b].available = @ - amount]
  /\ wallet' = [wallet EXCEPT ![b] = @ + amount]

\* Mutant: the purse may leave the rollup while bids still lock part of it.
UndelegatableWhileLocked(b) == purse[b].layer = "ER"

Undelegatable(b) == purse[b].layer = "ER" /\ purse[b].locked = 0

\* The handler checks `locked` and schedules commit_and_undelegate.
UndelegatePurse(b) ==
  /\ Undelegatable(b)
  /\ purse' = [purse EXCEPT ![b].layer = "returning"]
  /\ UNCHANGED wallet

\* The scheduled undelegation lands: L1 owns the purse again.
PurseReturns(b) ==
  /\ purse[b].layer = "returning"
  /\ purse' = [purse EXCEPT ![b].layer = "L1"]
  /\ UNCHANGED wallet

PurseNext ==
  \E b \in Bidders :
    \/ \E amount \in Transfers : DepositPurse(b, amount) \/ WithdrawPurse(b, amount)
    \/ DelegatePurse(b)
    \/ UndelegatePurse(b)
    \/ PurseReturns(b)

----------------------------------------------------------------------------
(* What a bid does to its bidder's purse, on the rollup.                   *)

\* fund_bid: the stake moves from `available` to `locked`.
Lock(b, amount) ==
  /\ purse[b].layer = "ER"
  /\ purse[b].available >= amount
  /\ purse' = [purse EXCEPT ![b].available = @ - amount, ![b].locked = @ + amount]

\* u64::saturating_sub
SatSub(x, y) == IF x >= y THEN x - y ELSE 0

\* settle_bid: the payout becomes available and the stake is no longer locked.
Release(b, staked, payout) ==
  /\ purse[b].layer = "ER"
  /\ purse' = [purse EXCEPT ![b].available = @ + payout,
                            ![b].locked = SatSub(@, staked)]
============================================================================
