----------------------------- MODULE MCVillage -----------------------------
(***************************************************************************)
(* The village on a small instance: two makers, up to two markets standing *)
(* from before.                                                            *)
(***************************************************************************)
EXTENDS Village, TLC

\* The ids two seeds can come to beside the two that stand.
SixIds == 0..5
LowIds == {0, 1}

\* One that may stand, one that a seed may claim.
DrawnIds == {0, 2}

\* Bound: of the markets only the one that is probed goes home; nobody sees the others.
ProbedGoesHome ==
  \A i \in Ids : market[i].home = "back" => probe.at # "idle" /\ probe.id = i

\* The makers differ in what they do, which is state.
MakersAlike == Permutations(Makers)
============================================================================
