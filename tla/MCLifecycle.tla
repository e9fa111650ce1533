---------------------------- MODULE MCLifecycle ----------------------------
(***************************************************************************)
(* Lifecycle on a small instance for TLC, and beside it the strip of a     *)
(* market's transactions (History), which is another market's: they share  *)
(* nothing, so that a behaviour has one of them.                           *)
(***************************************************************************)
EXTENDS Reading, History, TLC

BidderSymmetry == Permutations(Bidders)

\* A ransom that one seal bid meets, and one it meets only for a while.
TwoRansoms == {[floor |-> 1, slope |-> 0], [floor |-> 0, slope |-> 1]}

OnScreen == strip # "hidden"

\* Every purse funded and delegated, which deposits and delegations reach.
FundedLifeInit ==
  /\ MarketInit
  /\ wallet = [b \in Bidders |-> 0]
  /\ purse = [b \in Bidders |-> [available |-> Funds, locked |-> 0, layer |-> "ER"]]
  /\ LifeInit
  /\ HistoryInit
  /\ OnScreen => market.room = "GuiltMarket" /\ market.ransom.slope = 0

LifeOrStripNext ==
  \/ LifeNext /\ ~OnScreen /\ UNCHANGED historyVars
  \/ HistoryNext /\ OnScreen /\ UNCHANGED allVars

FundedLifeSpec == FundedLifeInit /\ [][LifeOrStripNext]_<<allVars, historyVars>>

\* Bounds of the instance: bid permissions and purse movements, which module
\* Market's own run explores, are left out.
OnlyTheBook ==
  \A b \in Bidders : ~bids'[b].private /\ purse'[b].layer = "ER"
============================================================================
