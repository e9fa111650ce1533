------------------------------- MODULE Offers -------------------------------
(***************************************************************************)
(* What the market's page lets a villager press: the bid, the retry of the *)
(* oracle and the resolution (app/src/app/market/[address]/page.tsx,       *)
(* app/src/components/VrfGrace.tsx).  The page works out from the accounts *)
(* and its own clock what the program would take; nothing here acts.       *)
(*                                                                         *)
(* The page has read the market as it is; that it comes to do so is module *)
(* Feed's.  Its clock shows nothing until its first tick.                  *)
(***************************************************************************)
EXTENDS Market

Unmeasured == {}
Measured == {now}
Clocks == {Unmeasured, Measured}

\* `dead`: a clock that shows nothing has not passed anything.
TimerDead(clock) == \E t \in clock : t >= Duration

\* The two sides of each live room.
SidesOf(room) == IF room = "WhisperIpo" THEN {"Yes", "No"} ELSE {"Seal", "Read"}

PurseReady(b) == purse[b].layer = "ER"

\* Mutant: a bid that is not paid yet is taken for none.
MyBidIfPaid(b, heard) ==
  IF ~heard THEN "unknown"
  ELSE IF bids[b].account = "open" /\ bids[b].funded THEN "exists" ELSE "none"

\* readMyBid, of a rollup that reads every account out, as a local validator does;
\* `heard` says whether it answered.
MyBid(b, heard) ==
  IF ~heard THEN "unknown"
  ELSE IF bids[b].account = "open" THEN "exists" ELSE "none"

\* `canBid`: the buttons of both sides.
BidOffered(b, clock, mine) ==
  market.status = "Open" /\ ~TimerDead(clock) /\ PurseReady(b) /\ mine # "exists"

\* The line under the buttons.
Warning(mine) ==
  CASE mine = "exists" -> "one bid per villager"
    [] mine = "unknown" -> "may be refused"
    [] OTHER -> "none"

\* The grace is over, as far as the page has measured.
Elapsed(clock) == \E t \in clock : t >= Duration + VrfGrace

RetryOffered(clock) == market.status = "VrfPending" /\ Elapsed(clock)

\* retryVrf: anyone may send it.
Retries == RetryVrf

\* "resolve the market", which sends whichever of the cranks applies.  No tombstone
\* is carved while the market is in this module.
ResolveOffered(clock) == TimerDead(clock)

Cranks ==
  \/ ExpireMarket
  \/ RequestResolutionVrf
  \/ \E b \in Bidders : SettleBid(b)
  \/ CloseBook

----------------------------------------------------------------------------
(* Property.                                                               *)

\* A button the page offers does not fail, and a step that waits for somebody to
\* send it has a button, the page's rules and the program's being written twice:
\* a bid on either side is one the program takes, unless the villager was told that
\* it may be refused; the oracle may be asked again exactly when the page offers
\* it, and never on a clock that has not been read; and a confession's crank is
\* always offered.  Left out are two things the page does not look at before a bid,
\* what the purse holds and whether the book is full; a page in its first instant,
\* which offers bids before it knows the time; and a rumor its author decides early,
\* whose bids nobody is offered to settle until the timer is dead (market
\* page:303-309, 482-489, 515-531, VrfGrace.tsx:48-51, place_bid, retry_vrf).
OffersMatchTheProgram ==
  /\ \A b \in Bidders, heard \in BOOLEAN :
       /\ BidOffered(b, Measured, MyBid(b, heard))
       /\ market.bid_count < MaxBidders
       /\ Warning(MyBid(b, heard)) = "none"
       => \A side \in SidesOf(market.room), amount \in Amounts :
            amount <= purse[b].available => ENABLED PlaceAndFund(b, side, amount)
  /\ \A clock \in Clocks : RetryOffered(clock) => ENABLED Retries
  /\ ENABLED Retries => RetryOffered(Measured)
  /\ IsConfession(market) /\ ENABLED Cranks => ResolveOffered(Measured)
=============================================================================
