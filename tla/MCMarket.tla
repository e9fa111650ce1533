------------------------------ MODULE MCMarket ------------------------------
(***************************************************************************)
(* Market on small instances for TLC.                                      *)
(***************************************************************************)
EXTENDS Offers, TLC

\* Villagers are interchangeable: no action and no property names one.
BidderSymmetry == Permutations(Bidders)

\* A flat ransom, one that rises while the oracle is silent, and none at all.
Curves == {[floor |-> 2, slope |-> 0], [floor |-> 0, slope |-> 1], [floor |-> 0, slope |-> 0]}

\* The curve is read in the blackmail room only; elsewhere one value will do.
OneCurvePerRoom ==
  market.room # "BlackmailEscrow" => market.ransom = [floor |-> 0, slope |-> 0]

MCInit == Init /\ OneCurvePerRoom

MCSpec == MCInit /\ [][Next]_vars

\* From here on for the larger instance: every purse funded and delegated, a
\* state that Init reaches by deposits and delegations alone.
FundedInit ==
  /\ MarketInit
  /\ OneCurvePerRoom
  /\ wallet = [b \in Bidders |-> 0]
  /\ purse = [b \in Bidders |-> [available |-> Funds, locked |-> 0, layer |-> "ER"]]

\* The live instance has no rumor, whose author owes nobody a verdict.
FundedLiveSpec == FundedInit /\ [][Next]_vars /\ Fairness

FundedSpec == FundedInit /\ [][Next]_vars

\* Bounds of the larger instance: the steps whose interleavings the smaller one
\* explores in full are left out - bid permissions, which nothing else in this
\* module reads, and purses leaving the rollup.
OnlyTheBook ==
  \A b \in Bidders : ~bids'[b].private /\ purse'[b].layer = "ER"
============================================================================
