------------------------------- MODULE Crank --------------------------------
(***************************************************************************)
(* The clients that walk a market to its tombstone, racing each other: the *)
(* keeper's loop (scripts/keeper.ts) and one browser at a time, in which a *)
(* villager runs the resolve flow (app/src/lib/flows.ts).  The program is  *)
(* module Lifecycle's; its book is a confession's, as both clients leave a *)
(* rumor to its author.  A client looks at a market once and then sends     *)
(* transactions it may be too late for; a transaction that the program     *)
(* refuses changes nothing; a client may lose a call or die between any    *)
(* two.  Both are bounded, so that liveness means: once calls get through. *)
(*                                                                         *)
(* Both read the rollup through one endpoint, which may filter or not.      *)
(*                                                                         *)
(* A browser's read and the transaction it sends on the strength of it are *)
(* one step: a race lost in between fails the flow, as a lost call does.   *)
(***************************************************************************)
EXTENDS Lifecycle, Sequences

CONSTANTS
  KeeperGrace,   \* VRF_GRACE_MS, in the program's seconds
  MaxFaults      \* bound: times a client dies, loses a call or gives up waiting

\* The clients find a confession that has been sealed, once at least.
ASSUME CrankAssumption ==
  /\ KeeperGrace \in Nat
  /\ MaxFaults \in Nat
  /\ MaxSeals >= 1

VARIABLES
  keeper,   \* where the keeper's tick is, and the bids it has yet to handle
  flow,     \* who runs resolveMarket, and at which step
  filters,  \* the rollup answers a reader without a token as the permissions say
  crashes,  \* how many clients have died
  lost      \* how many calls were lost

faultVars == <<crashes, lost>>
crankVars == <<allVars, keeper, flow, filters, faultVars>>

\* resolveMarket's steps, in their order.
RESOLVE_STEPS == <<"expire", "request", "callback", "settle", "close_book",
                   "grant", "finalize", "await", "carve">>

Resting == [at |-> "idle", todo |-> {}, unsettled |-> {}, bid |-> Nobody]
NoFlow == [at |-> "idle", who |-> Nobody]

CrankInit ==
  /\ keeper = Resting
  /\ flow = NoFlow
  /\ filters \in BOOLEAN
  /\ crashes = 0
  /\ lost = 0

----------------------------------------------------------------------------
(* What a client reads, and what becomes of a transaction that it sends.   *)

\* Mutant: every reader goes through the filter, also where none is needed.
SeenThroughFilter(b) == bids[b].account = "open" /\ ~bids[b].private

\* The bids that the rollup returns.  The keeper and the flow ask one endpoint, and
\* neither shows it a token: if it filters, a private bid is not there for the keeper,
\* nor for the browser of its own bidder.
Seen(b) == bids[b].account = "open" /\ (filters => ~bids[b].private)

\* A transaction on the book, where the rollup holds the market.
OnRollup(A) == home = "ER" /\ A /\ UNCHANGED lifeVars

\* A call that never arrives.
Lost == crashes + lost < MaxFaults /\ lost' = lost + 1 /\ UNCHANGED <<allVars, crashes>>

\* One that arrives, and whose confirmation does not.
Unheard(A) == A /\ crashes + lost < MaxFaults /\ lost' = lost + 1 /\ UNCHANGED crashes

\* What sending a transaction may come to.
Lands(A) == A /\ UNCHANGED faultVars
Refused(A) == ~ENABLED A /\ UNCHANGED <<allVars, faultVars>>

----------------------------------------------------------------------------
(* The keeper.  Every step of its tick is wrapped: one that fails is       *)
(* skipped, finalize_market excepted, which ends the market's turn.        *)

Dead == now >= Duration

\* Mutant: a settled market is taken for a finished one.
BranchToSettled ==
  CASE market.status = "Open" /\ Dead -> "expire"
    [] market.status = "Expired" /\ IsConfession(market) -> "request"
    [] market.status = "VrfPending" /\ now - Duration > KeeperGrace -> "retry"
    [] market.status = "Resolved" -> "list"
    [] OTHER -> "idle"

Branch ==
  CASE market.status = "Open" /\ Dead -> "expire"
    [] market.status = "Expired" /\ market.outcome = "Pending" /\ IsConfession(market) -> "request"
    [] market.status = "VrfPending" /\ now - Duration > KeeperGrace -> "retry"
    [] market.status = "Resolved" -> "list"
    [] market.status = "Settled" /\ ~tombstoned -> "grant"
    [] OTHER -> "idle"

Go(step) == keeper' = [Resting EXCEPT !.at = step] /\ UNCHANGED flow

\* The market's turn in a tick: its status is read here and never again.
KeeperLooks ==
  /\ keeper.at = "idle"
  /\ home = "ER"
  /\ Branch # "idle"
  /\ Go(Branch)
  /\ UNCHANGED <<allVars, faultVars>>

\* A wrapped step: whatever comes of it, the tick goes on.
Wrapped(step, A, next) ==
  /\ keeper.at = step
  /\ Lands(A) \/ Refused(A) \/ Lost
  /\ Go(next)

\* Mutant: a settled bid is passed over, though it still has to be closed.
ListedUnsettled == {b \in Bidders : Seen(b) /\ ~bids[b].settled}

\* What bid.all finds.
Listed == {b \in Bidders : Seen(b)}

\* bid.all; when it fails, the tick goes on without bids.
KeeperLists ==
  /\ keeper.at = "list"
  /\ \/ /\ UNCHANGED <<allVars, faultVars>>
        /\ keeper' = [keeper EXCEPT !.at = "settle", !.todo = Listed,
                                    !.unsettled = {b \in Listed : ~bids[b].settled}]
     \/ Lost /\ keeper' = [keeper EXCEPT !.at = "settle"]
  /\ UNCHANGED flow

\* settle_bid, unless the listing said that the bid is settled; close_bid anyway.
KeeperSettles(b) ==
  /\ keeper.at = "settle"
  /\ b \in keeper.todo
  /\ IF b \in keeper.unsettled
     THEN Lands(OnRollup(SettleBid(b))) \/ Refused(OnRollup(SettleBid(b))) \/ Lost
     ELSE UNCHANGED <<allVars, faultVars>>
  /\ keeper' = [keeper EXCEPT !.at = "close", !.bid = b]
  /\ UNCHANGED flow

KeeperCloses(b) ==
  /\ keeper.at = "close"
  /\ b = keeper.bid
  /\ Lands(OnRollup(CloseBid(b))) \/ Refused(OnRollup(CloseBid(b))) \/ Lost
  /\ keeper' = [keeper EXCEPT !.at = "settle", !.bid = Nobody,
                              !.todo = @ \ {b}, !.unsettled = @ \ {b}]
  /\ UNCHANGED flow

KeeperClosesBook ==
  /\ keeper.todo = {}
  /\ Wrapped("settle", OnRollup(CloseBook), "idle")

Grant == \E b \in Bidders : GrantReader(b)

\* grant_reader, to whomever the market names; it fails where there is no one to
\* let in, which is ~ENABLED Grant spelled out.
KeeperGrants ==
  /\ keeper.at = "grant"
  /\ \/ Lands(Grant)
     \/ (\A b \in Bidders : ~Admissible(b)) /\ UNCHANGED <<allVars, faultVars>>
     \/ Lost
  /\ Go("finalize")

\* Only a finalize_market that was seen to succeed is followed to Solana.
KeeperFinalizes ==
  /\ keeper.at = "finalize"
  /\ \/ Lands(FinalizeMarket) /\ Go("await")
     \/ Refused(FinalizeMarket) /\ Go("idle")
     \/ (Unheard(FinalizeMarket) \/ Lost) /\ Go("idle")

\* Mutant: the keeper carves as soon as finalize_market is confirmed.
KeeperAwaitsNothing ==
  /\ keeper.at = "await"
  /\ Go("carve")
  /\ UNCHANGED <<allVars, faultVars>>

\* Thirty looks at the base layer, a second apart; then it carves regardless.
KeeperAwaits ==
  /\ keeper.at = "await"
  /\ \/ home = "L1" /\ UNCHANGED <<allVars, faultVars>>
     \/ home # "L1" /\ Lost
  /\ Go("carve")

KeeperStep ==
  \/ KeeperLooks
  \/ Wrapped("expire", OnRollup(ExpireMarket), "idle")
  \/ Wrapped("request", OnRollup(RequestResolutionVrf), "idle")
  \/ Wrapped("retry", OnRollup(RetryVrf), "idle")
  \/ KeeperLists
  \/ \E b \in Bidders : KeeperSettles(b) \/ KeeperCloses(b)
  \/ KeeperClosesBook
  \/ KeeperGrants
  \/ KeeperFinalizes
  \/ KeeperAwaits
  \/ Wrapped("carve", WriteTombstone, "idle")

KeeperDies ==
  /\ keeper.at # "idle"
  /\ crashes + lost < MaxFaults
  /\ crashes' = crashes + 1
  /\ Go("idle")
  /\ UNCHANGED <<allVars, lost>>

----------------------------------------------------------------------------
(* resolveMarket: each step reads the market, returns early where it has   *)
(* nothing to do, and throws when its transaction fails.                   *)

Following(step) ==
  LET n == CHOOSE i \in DOMAIN RESOLVE_STEPS : RESOLVE_STEPS[i] = step
  IN  IF n = Len(RESOLVE_STEPS) THEN "idle" ELSE RESOLVE_STEPS[n + 1]

Done(step) == flow' = [flow EXCEPT !.at = Following(step)] /\ UNCHANGED keeper
Throw == flow' = NoFlow /\ UNCHANGED keeper

\* The page offers the flow once the timer is dead and nothing is carved.
FlowStarts(b) ==
  /\ flow.at = "idle"
  /\ home # "none" /\ Dead /\ ~tombstoned
  /\ flow' = [at |-> Head(RESOLVE_STEPS), who |-> b]
  /\ UNCHANGED <<allVars, keeper, faultVars>>

FlowStep(step, skip, A) ==
  /\ flow.at = step
  /\ \/ skip /\ UNCHANGED <<allVars, faultVars>> /\ Done(step)
     \/ ~skip /\ Lands(A) /\ Done(step)
     \/ ~skip /\ Refused(A) /\ Throw

\* The oracle's answer is awaited for 90 s.
FlowAwaitsCallback ==
  /\ flow.at = "callback"
  /\ \/ market.status \in {"Resolved", "Settled"} /\ Done("callback")
     \/ market.status \notin {"Resolved", "Settled"} /\ Throw
  /\ UNCHANGED <<allVars, faultVars>>

FlowAwaitsBase ==
  /\ flow.at = "await"
  /\ home = "L1"
  /\ Done("await")
  /\ UNCHANGED <<allVars, faultVars>>

\* Mutant: only one of the two verdicts that name a reader is thought of.
NoSoleReader == market.outcome # "SoleReader"

NoReaderToGrant == market.outcome \notin {"SoleReader", "Inherited"}

FlowNext ==
  \/ FlowStep("expire", market.status # "Open", OnRollup(ExpireMarket))
  \/ FlowStep("request", market.status # "Expired", OnRollup(RequestResolutionVrf))
  \/ FlowAwaitsCallback
  \/ FlowStep("settle", ~Seen(flow.who), OnRollup(SettleAndClose(flow.who)))
  \/ FlowStep("close_book", market.status = "Settled", OnRollup(CloseBook))
  \/ FlowStep("grant", NoReaderToGrant, Grant)
  \/ FlowStep("finalize", FALSE, FinalizeMarket)
  \/ FlowAwaitsBase
  \/ FlowStep("carve", tomb.account # "none", WriteTombstone)

\* The tab is closed, a call of the flow is lost, or it has waited long enough for
\* the market to come home: all end it in the same way.
FlowDies ==
  /\ flow.at # "idle"
  /\ crashes + lost < MaxFaults
  /\ crashes' = crashes + 1
  /\ Throw
  /\ UNCHANGED <<allVars, lost>>

----------------------------------------------------------------------------
(* Everyone else: bidders, the oracle, the clock, the delegation program,  *)
(* and whoever presses VrfGrace.tsx's button.  A bid is made private by a  *)
(* second transaction, sooner, later or never.                             *)

Answer == OnRollup(\E draw \in Draws, coin \in BOOLEAN : CallbackResolve(draw, coin))

World ==
  \/ \E b \in Bidders, side \in Sides, amount \in Amounts :
       OnRollup(PlaceAndFund(b, side, amount))
  \/ \E b \in Bidders : OnRollup(InitBidPermission(b))
  \/ OnRollup(Tick)
  \/ Answer
  \/ OnRollup(RetryVrf)
  \/ (CallbackRejected \/ OracleFails) /\ UNCHANGED lifeVars
  \/ MarketReturns

CrankNext ==
  /\ UNCHANGED filters
  /\ \/ World /\ UNCHANGED <<keeper, flow, faultVars>>
     \/ KeeperStep
     \/ KeeperDies
     \/ \E b \in Bidders : FlowStarts(b)
     \/ FlowNext
     \/ FlowDies

\* The keeper's loop and a started flow go on; the delegation program and the clock
\* do their part; of requests asked for again and again the oracle answers one.
\* Nothing is assumed of villagers: who opens the page, if anyone, is their affair.
CrankFairness ==
  LET Alone(A) == A /\ UNCHANGED <<keeper, flow, filters, faultVars>> IN
  /\ WF_crankVars(KeeperStep /\ UNCHANGED filters)
  /\ WF_crankVars(FlowNext /\ UNCHANGED filters)
  /\ WF_crankVars(Alone(OnRollup(Tick)))
  /\ WF_crankVars(Alone(MarketReturns))
  /\ WF_crankVars(Alone(CallbackRejected /\ UNCHANGED lifeVars))
  /\ SF_crankVars(Alone(Answer))

\* Where the clients find the market: a sealed confession on the rollup, purses
\* funded and delegated, which module Lifecycle reaches from creation.
SealedInit ==
  /\ MarketInit
  /\ wallet = [b \in Bidders |-> 0]
  /\ purse = [b \in Bidders |-> [available |-> Funds, locked |-> 0, layer |-> "ER"]]
  /\ home = "ER"
  /\ commitment = 1
  /\ revealed = NoReveal
  /\ tombstoned = FALSE
  /\ read_at = FALSE
  /\ secret = [layer |-> "ER", body |-> 1, permission |-> "private", members |-> {Author}]
  /\ tomb = BlankTomb
  /\ action = FALSE
  /\ earned = 0
  /\ CrankInit

CrankSpec == SealedInit /\ [][CrankNext]_crankVars /\ CrankFairness

----------------------------------------------------------------------------
(* Properties.                                                             *)

\* A stake in the book is answered by the clients themselves, whatever they lose and
\* however they overtake each other, unless its bid is private on a rollup that
\* filters: that one no client of this repository can settle (keeper.ts:140-162,
\* flows.ts:526-552; see the README).
StakesAreAnswered ==
  \A b \in Bidders :
    (bids[b].funded /\ ~bids[b].settled) ~>
      (bids[b].settled \/ (filters /\ bids[b].private))

\* A decided book goes home, also when a bid in it was settled by a tick that did not
\* live to close it, or was made private between two looks (keeper.ts:147-189).  The
\* exceptions: a bid that the clients do not see, and one that has no permission for
\* close_bid to close.
BooksGoHome ==
  market.status = "Resolved" ~>
    (home = "L1" \/ \E b \in Bidders : bids[b].account = "open" /\ (filters \/ ~bids[b].private))

\* However keeper and browser race through a settled market, the one that takes it
\* home also carves it, unless it dies or a call of its is lost: losing the race
\* for finalize_market never leaves the market to nobody.
CarvedUnlessInterrupted ==
  market.status = "Settled" ~> (tombstoned \/ crashes + lost > 0)

\* The reader whom the draw named is let in before the market leaves the rollup,
\* where grant_reader must run: no crank overtakes another's grant with its
\* finalize_market, and a crank that dies leaves the market to one that grants
\* again (keeper.ts:199-212, flows.ts:578-595).  Only a lost grant shuts them out.
ReaderIsLetIn ==
  home \in {"returning", "L1"} /\ market.sole_reader # Nobody /\ lost = 0 =>
    market.sole_reader \in secret.members
============================================================================
