----------------------------- MODULE MCSession ------------------------------
(***************************************************************************)
(* Session on a small instance: two tabs, two of the villager's keys, whose*)
(* purses are funded and delegated.                                        *)
(***************************************************************************)
EXTENDS Session, TLC

\* Neither tabs nor keys are named by an action or a property.
TabSymmetry == Permutations(Tabs) \cup Permutations(Bidders)

\* The ransom plays no part here.
NoRansom == {[floor |-> 0, slope |-> 0]}
=============================================================================
