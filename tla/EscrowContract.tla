--------------------------- MODULE EscrowContract ---------------------------
(***************************************************************************)
(* What a market promises the villagers who put money in it, with nothing  *)
(* said of rooms, randomness, expiry or accounts: stakes are taken while   *)
(* the book is open and never after the verdict; every stake is answered   *)
(* exactly once, after the verdict, out of the money staked; and the book  *)
(* is closed only when every stake has been answered.                      *)
(***************************************************************************)
EXTENDS Integers

CONSTANT Bidders

VARIABLES
  phase,      \* "open", then "decided", then "closed"
  stake,      \* what each villager has put in: 0 before it does
  answered,   \* whether its stake has been paid out, refunded or forfeited
  held        \* what the book still holds

contractVars == <<phase, stake, answered, held>>

Init ==
  /\ phase = "open"
  /\ stake = [b \in Bidders |-> 0]
  /\ answered = [b \in Bidders |-> FALSE]
  /\ held = 0

TakeStake(b) ==
  /\ phase = "open"
  /\ stake[b] = 0
  /\ stake'[b] > 0
  /\ stake' = [stake EXCEPT ![b] = stake'[b]]
  /\ held' = held + stake'[b]
  /\ UNCHANGED <<phase, answered>>

Decide ==
  /\ phase = "open"
  /\ phase' = "decided"
  /\ UNCHANGED <<stake, answered, held>>

\* The payout is whatever leaves the book: never more than the book holds,
\* and nothing for a villager who staked nothing.
Answer(b) ==
  /\ phase = "decided"
  /\ ~answered[b]
  /\ answered' = [answered EXCEPT ![b] = TRUE]
  /\ held' \in 0..held
  /\ stake[b] = 0 => held' = held
  /\ UNCHANGED <<phase, stake>>

Close ==
  /\ phase = "decided"
  /\ \A b \in Bidders : stake[b] > 0 => answered[b]
  /\ phase' = "closed"
  /\ UNCHANGED <<stake, answered, held>>

Next ==
  \/ Decide
  \/ Close
  \/ \E b \in Bidders : TakeStake(b) \/ Answer(b)

Spec == Init /\ [][Next]_contractVars
============================================================================
