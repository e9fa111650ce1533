------------------------------- MODULE Market -------------------------------
(***************************************************************************)
(* One market's life on the ephemeral rollup: villagers bid, the book      *)
(* expires, the oracle (or, for a rumor, the author) decides, and every    *)
(* bid is settled, closed and accounted for (programs/sinbazaar/src/lib.rs,*)
(* place_bid to close_book).  The market is delegated throughout; creating *)
(* it, and what happens once it is Settled, belong to other modules.       *)
(*                                                                         *)
(* A transaction is atomic and anyone may send most of them, so one action *)
(* per instruction, and one for each pair that the clients send together,  *)
(* in any order is every interleaving there is.                            *)
(* Time counts seconds from created_at = 0.  Amounts are bounded by the    *)
(* supply, so checked and saturating additions never reach their limit.    *)
(***************************************************************************)
EXTENDS Purse, FiniteSets, Functions

CONSTANTS
  Rooms,          \* rooms the market may be created in
  RansomCurves,   \* [floor, slope] pairs it may be created with
  Duration,       \* duration_secs: expires_at - created_at
  VrfGrace,       \* VRF_GRACE_SECS
  MaxBidders,     \* MAX_BIDDERS
  Amounts,        \* amounts a bid may carry
  Draws,          \* values the oracle's random u64 may take
  Nobody,         \* Pubkey::default()
  MaxNow,         \* bound: the clock stops here
  MaxRequests     \* bound: VRF requests in flight at once

LiveRooms == {"GuiltMarket", "BlackmailEscrow", "WhisperIpo"}
ConfessionRooms == {"GuiltMarket", "BlackmailEscrow"}   \* Room::is_confession_market

ASSUME MarketAssumption ==
  /\ IsFiniteSet(Bidders)
  /\ Rooms \subseteq LiveRooms
  /\ RansomCurves \subseteq [floor : Nat, slope : Nat]
  /\ Duration \in Nat \ {0}
  /\ VrfGrace \in Nat
  /\ MaxBidders \in 0..254
  /\ Amounts \subseteq Nat
  /\ Draws \subseteq Nat
  /\ Nobody \notin Bidders
  /\ MaxNow \in Nat
  /\ MaxRequests \in Nat

VARIABLES
  market,   \* the Market account
  bids,     \* the Bid account of each villager on this market
  now,      \* Clock::unix_timestamp
  vrf       \* VRF requests the oracle has neither answered nor dropped

marketVars == <<market, bids, now, vrf>>
vars == <<purseVars, marketVars>>

Statuses == {"Open", "Expired", "VrfPending", "Resolved", "Settled"}
Outcomes == {"Pending", "Buried", "SoleReader", "RandomReveal", "PublicLeak",
             "Inherited", "Forgiven", "Slashed"}
Sides == {"Seal", "Read", "Yes", "No"}
NoRank == 255   \* u8::MAX

MarketRecord ==
  [room : LiveRooms, ransom : [floor : Nat, slope : Nat],
   status : Statuses, outcome : Outcomes, pot : [Sides -> Nat],
   bid_count : 0..MaxBidders, closed_bid_count : 0..MaxBidders,
   read_bid_count : 0..MaxBidders, sole_reader : Bidders \cup {Nobody},
   randomness : Nat, resolved_at : Nat, rumor_result : 0..2,
   escrow_lamports : Nat, author_payout : Nat]

\* `account` says whether the ephemeral account exists; a closed bid keeps its
\* last contents here so that properties can speak of them.  `private` is the
\* bid's permission account.
BidRecord ==
  [account : {"none", "open", "closed"}, side : Sides, amount : Nat,
   index : 0..MaxBidders, read_rank : 0..255, funded : BOOLEAN,
   settled : BOOLEAN, private : BOOLEAN]

NoBid == [account |-> "none", side |-> "Seal", amount |-> 0, index |-> 0,
          read_rank |-> NoRank, funded |-> FALSE, settled |-> FALSE,
          private |-> FALSE]

\* create_market's values.
MarketInit ==
  /\ \E room \in Rooms, ransom \in RansomCurves :
       market = [room |-> room, ransom |-> ransom,
                 status |-> "Open", outcome |-> "Pending", pot |-> [s \in Sides |-> 0],
                 bid_count |-> 0, closed_bid_count |-> 0, read_bid_count |-> 0,
                 sole_reader |-> Nobody, randomness |-> 0, resolved_at |-> 0,
                 rumor_result |-> 0, escrow_lamports |-> 0, author_payout |-> 0]
  /\ bids = [b \in Bidders |-> NoBid]
  /\ now = 0
  /\ vrf = 0

Init == PurseInit /\ MarketInit

IsConfession(m) == m.room \in ConfessionRooms
RansomDue(m, t) == m.ransom.floor + m.ransom.slope * t

----------------------------------------------------------------------------
(* Bidding.                                                                *)

CheckBiddable(side, amount) ==
  /\ amount > 0
  /\ market.status = "Open"
  /\ now < Duration
  /\ market.bid_count < MaxBidders
  /\ side \in IF market.room = "WhisperIpo" THEN {"Yes", "No"} ELSE {"Seal", "Read"}

OpenBid(side, amount) ==
  [NoBid EXCEPT !.account = "open", !.side = side, !.amount = amount,
                !.index = market.bid_count]

\* Mutant: the rank is taken at recording, from a counter that funding advances.
RecordBidRanked(b, side, amount) ==
  /\ bids' = [bids EXCEPT ![b] = [OpenBid(side, amount) EXCEPT !.read_rank = market.read_bid_count]]
  /\ market' = [market EXCEPT !.bid_count = @ + 1]

RecordBid(b, side, amount) ==
  /\ bids' = [bids EXCEPT ![b] = OpenBid(side, amount)]
  /\ market' = [market EXCEPT !.bid_count = @ + 1]

\* place_bid; the purse is checked, not charged.
PlaceBid(b, side, amount) ==
  /\ CheckBiddable(side, amount)
  /\ purse[b].layer = "ER"
  /\ purse[b].available >= amount
  /\ bids[b].account # "open"
  /\ RecordBid(b, side, amount)
  /\ UNCHANGED <<purseVars, now, vrf>>

\* Mutant: money may enter the book in any status.
FundableAnyTime(b) == bids[b].account = "open" /\ ~bids[b].funded

\* The status is all fund_bid checks of the market: it does not read the clock.
Fundable(b) ==
  /\ market.status = "Open"
  /\ bids[b].account = "open"
  /\ ~bids[b].funded

FundBid(b) ==
  /\ Fundable(b)
  /\ Lock(b, bids[b].amount)
  /\ bids' = [bids EXCEPT ![b].funded = TRUE,
                          ![b].read_rank = IF bids[b].side = "Read"
                                           THEN market.read_bid_count ELSE @]
  /\ market' = [market EXCEPT !.escrow_lamports = @ + bids[b].amount,
                              !.pot[bids[b].side] = @ + bids[b].amount,
                              !.read_bid_count = IF bids[b].side = "Read" THEN @ + 1 ELSE @]
  /\ UNCHANGED <<wallet, now, vrf>>

\* Both in one transaction, which is how every client bids.
PlaceAndFund(b, side, amount) ==
  /\ CheckBiddable(side, amount)
  /\ bids[b].account # "open"
  /\ Lock(b, amount)
  /\ bids' = [bids EXCEPT ![b] = [OpenBid(side, amount) EXCEPT !.funded = TRUE,
                !.read_rank = IF side = "Read" THEN market.read_bid_count ELSE @]]
  /\ market' = [market EXCEPT !.bid_count = @ + 1,
                              !.escrow_lamports = @ + amount, !.pot[side] = @ + amount,
                              !.read_bid_count = IF side = "Read" THEN @ + 1 ELSE @]
  /\ UNCHANGED <<wallet, now, vrf>>

\* init_bid_permission; a second call finds the permission and does nothing.
InitBidPermission(b) ==
  /\ bids[b].account = "open"
  /\ ~bids[b].private
  /\ bids' = [bids EXCEPT ![b].private = TRUE]
  /\ UNCHANGED <<purseVars, market, now, vrf>>

----------------------------------------------------------------------------
(* Expiry and the verdict.                                                 *)

\* The clock is read by nothing below once the verdict is in, so it stops there.
Tick ==
  /\ now < MaxNow
  /\ market.status \in {"Open", "Expired", "VrfPending"}
  /\ now' = now + 1
  /\ UNCHANGED <<purseVars, market, bids, vrf>>

\* expire_market: an unpaid confession leaks at once.
ExpireMarket ==
  /\ market.status = "Open"
  /\ now >= Duration
  /\ market' =
       IF IsConfession(market) /\ market.pot["Seal"] = 0 /\ market.pot["Read"] = 0
       THEN [market EXCEPT !.status = "Resolved", !.outcome = "PublicLeak",
                           !.resolved_at = now]
       ELSE [market EXCEPT !.status = "Expired"]
  /\ UNCHANGED <<purseVars, bids, now, vrf>>

\* Mutant: a rumor may be sent to the oracle.
RequestableInAnyRoom == market.status = "Expired" /\ market.outcome = "Pending"

Requestable ==
  /\ market.status = "Expired"
  /\ market.outcome = "Pending"
  /\ IsConfession(market)

RequestResolutionVrf ==
  /\ Requestable
  /\ vrf < MaxRequests
  /\ vrf' = vrf + 1
  /\ market' = [market EXCEPT !.status = "VrfPending"]
  /\ UNCHANGED <<purseVars, bids, now>>

\* callback_resolve's choice of outcome in each confession room.
GuiltVerdict(m) ==
  IF m.pot["Seal"] > 0 THEN "Buried"
  ELSE IF m.pot["Read"] > 0 THEN "SoleReader" ELSE "PublicLeak"

BlackmailVerdict(m, t, coin) ==
  LET due == RansomDue(m, t) IN
  IF m.pot["Seal"] >= due /\ due > 0 THEN "Buried"
  ELSE IF coin THEN "RandomReveal"
  ELSE IF m.read_bid_count > 0 \/ m.bid_count > 0 THEN "Inherited" ELSE "PublicLeak"

Verdict(m, t, coin) ==
  IF m.room = "GuiltMarket" THEN GuiltVerdict(m) ELSE BlackmailVerdict(m, t, coin)

\* Mutant: a late answer is recorded whatever the market's status.
AwaitedInAnyStatus == vrf > 0 /\ IsConfession(market)

\* callback_resolve accepts an answer: to any one of the requests in flight.
Awaited ==
  /\ vrf > 0
  /\ market.status = "VrfPending"
  /\ IsConfession(market)

CallbackResolve(draw, coin) ==
  /\ Awaited
  /\ vrf' = vrf - 1
  /\ market' = [market EXCEPT !.status = "Resolved", !.outcome = Verdict(market, now, coin),
                              !.randomness = draw, !.resolved_at = now]
  /\ UNCHANGED <<purseVars, bids, now>>

\* callback_resolve's early returns: the answer is spent and nothing changes.
CallbackRejected ==
  /\ vrf > 0
  /\ ~Awaited
  /\ vrf' = vrf - 1
  /\ UNCHANGED <<purseVars, market, bids, now>>

\* The oracle never answers one request.
OracleFails ==
  /\ vrf > 0
  /\ vrf' = vrf - 1
  /\ UNCHANGED <<purseVars, market, bids, now>>

\* Mutant: the grace period is taken for a deadline.
RetryVrfBeforeGrace ==
  /\ market.status = "VrfPending"
  /\ now < Duration + VrfGrace
  /\ market' = [market EXCEPT !.status = "Expired"]
  /\ UNCHANGED <<purseVars, bids, now, vrf>>

RetryVrf ==
  /\ market.status = "VrfPending"
  /\ now >= Duration + VrfGrace
  /\ market' = [market EXCEPT !.status = "Expired"]
  /\ UNCHANGED <<purseVars, bids, now, vrf>>

\* resolve_rumor, signed by the author: 1 is YES, 2 is NO.
ResolveRumor(result) ==
  /\ market.room = "WhisperIpo"
  /\ result \in {1, 2}
  /\ market.status \in {"Open", "Expired"}
  /\ market' = [market EXCEPT !.rumor_result = result,
                              !.outcome = IF result = 1 THEN "Forgiven" ELSE "Slashed",
                              !.status = "Resolved", !.resolved_at = now]
  /\ UNCHANGED <<purseVars, bids, now, vrf>>

----------------------------------------------------------------------------
(* Settlement.                                                             *)

\* Mutant: the reader is drawn by arrival order among all bids.
IsChosenByIndex(m, bid) ==
  /\ bid.funded
  /\ \/ /\ m.outcome = "SoleReader"
        /\ m.read_bid_count > 0
        /\ bid.side = "Read"
        /\ bid.index = m.randomness % m.read_bid_count
     \/ /\ m.outcome = "Inherited"
        /\ m.bid_count > 0
        /\ bid.index = m.randomness % m.bid_count

IsChosenBid(m, bid) ==
  /\ bid.funded
  /\ \/ /\ m.outcome = "SoleReader"
        /\ m.read_bid_count > 0
        /\ bid.side = "Read"
        /\ bid.read_rank = m.randomness % m.read_bid_count
     \/ /\ m.outcome = "Inherited"
        /\ m.bid_count > 0
        /\ bid.index = m.randomness % m.bid_count

\* A rumor's two-sided book: stake plus a floored pro-rata share of the losers'.
Winnings(m, bid) ==
  LET win  == IF m.outcome = "Forgiven" THEN "Yes" ELSE "No"
      lose == IF m.outcome = "Forgiven" THEN "No" ELSE "Yes"
  IN  IF m.pot[win] = 0 THEN bid.amount
      ELSE IF bid.side = win THEN bid.amount + (bid.amount * m.pot[lose]) \div m.pot[win]
      ELSE 0

ComputePayout(m, bid) ==
  IF m.outcome = "Buried" THEN IF bid.side = "Seal" THEN 0 ELSE bid.amount
  ELSE IF m.outcome = "SoleReader"
  THEN IF bid.side = "Read" /\ IsChosenBid(m, bid) THEN 0 ELSE bid.amount
  ELSE IF m.outcome \in {"RandomReveal", "Inherited"}
  THEN IF bid.side = "Seal" THEN bid.amount ELSE 0
  ELSE IF m.outcome \in {"Forgiven", "Slashed"} THEN Winnings(m, bid)
  ELSE bid.amount

Staked(bid) == IF bid.funded THEN bid.amount ELSE 0
PayoutOf(m, bid) == IF bid.funded THEN ComputePayout(m, bid) ELSE 0

\* What the author keeps of a bid in a one-sided book.
Shortfall(m, bid) == SatSub(Staked(bid), PayoutOf(m, bid))

\* Mutant: the author keeps every stake, refunded or not.
ForfeitedWhole(m, bid) == IF m.outcome \in {"Forgiven", "Slashed"} THEN 0 ELSE Staked(bid)

\* Mutant: a rumor's losing stakes are credited to the author as well.
ForfeitedInEveryRoom(m, bid) == Shortfall(m, bid)

\* settle_bid's `forfeited`: a two-sided book owes the author nothing.
Forfeited(m, bid) == IF m.outcome \in {"Forgiven", "Slashed"} THEN 0 ELSE Shortfall(m, bid)

\* Mutant: a bid can be settled again.
SettleableAgain(b) == market.status = "Resolved" /\ bids[b].account = "open"

Settleable(b) ==
  /\ market.status = "Resolved"
  /\ bids[b].account = "open"
  /\ ~bids[b].settled

\* settle_bid.  IsChosenBid is false for every outcome but SoleReader and
\* Inherited, the two the handler tests for.
SettleBid(b) ==
  LET bid == bids[b] IN
  /\ Settleable(b)
  /\ Release(b, Staked(bid), PayoutOf(market, bid))
  /\ market' = [market EXCEPT
       !.sole_reader = IF IsChosenBid(market, bid) THEN b ELSE @,
       !.escrow_lamports = SatSub(@, PayoutOf(market, bid)),
       !.author_payout = @ + Forfeited(market, bid)]
  /\ bids' = [bids EXCEPT ![b].settled = TRUE]
  /\ UNCHANGED <<wallet, now, vrf>>

\* Mutant: an unsettled bid may be closed.
CloseableUnsettled(b) == bids[b].account = "open"

Closeable(b) == bids[b].account = "open" /\ bids[b].settled

\* close_bid: permission first, then the account.  Whether the permission
\* program accepts a bid that was never given a permission is not decided
\* here; only the fairness of the live specification assumes that there is one.
CloseBid(b) ==
  /\ Closeable(b)
  /\ bids' = [bids EXCEPT ![b].account = "closed", ![b].private = FALSE]
  /\ market' = [market EXCEPT !.closed_bid_count = @ + 1]
  /\ UNCHANGED <<purseVars, now, vrf>>

\* settle_bid and close_bid in one transaction, which is how a bidder's own
\* browser and the scripts settle: both or neither.
SettleAndClose(b) ==
  LET bid == bids[b] IN
  /\ Settleable(b)
  /\ Release(b, Staked(bid), PayoutOf(market, bid))
  /\ market' = [market EXCEPT
       !.sole_reader = IF IsChosenBid(market, bid) THEN b ELSE @,
       !.escrow_lamports = SatSub(@, PayoutOf(market, bid)),
       !.author_payout = @ + Forfeited(market, bid),
       !.closed_bid_count = @ + 1]
  /\ bids' = [bids EXCEPT ![b].settled = TRUE, ![b].account = "closed", ![b].private = FALSE]
  /\ UNCHANGED <<wallet, now, vrf>>

CloseBook ==
  /\ market.status = "Resolved"
  /\ market.closed_bid_count = market.bid_count
  /\ market.escrow_lamports = market.author_payout
  /\ market' = [market EXCEPT !.status = "Settled"]
  /\ UNCHANGED <<purseVars, bids, now, vrf>>

----------------------------------------------------------------------------
BidStep(b) ==
  \/ \E side \in Sides, amount \in Amounts :
       PlaceBid(b, side, amount) \/ PlaceAndFund(b, side, amount)
  \/ FundBid(b)
  \/ InitBidPermission(b)

VerdictStep ==
  \/ ExpireMarket
  \/ RequestResolutionVrf
  \/ \E draw \in Draws, coin \in BOOLEAN : CallbackResolve(draw, coin)
  \/ CallbackRejected
  \/ OracleFails
  \/ RetryVrf
  \/ \E result \in 1..2 : ResolveRumor(result)

SettleStep ==
  \/ \E b \in Bidders : SettleBid(b) \/ CloseBid(b) \/ SettleAndClose(b)
  \/ CloseBook

Next ==
  \/ PurseNext /\ UNCHANGED marketVars
  \/ \E b \in Bidders : BidStep(b)
  \/ Tick
  \/ VerdictStep
  \/ SettleStep

Spec == Init /\ [][Next]_vars

\* The cranks are permissionless and keeper.ts sends each of them on every
\* tick, so one that stays possible is sent.  For settle_bid and close_bid this
\* counts on someone who can name the bid: the keeper if it can list it, else
\* the bidder's own client (flows.ts, resolveMarket).  A bid's account is only
\* sure to close if it has the permission close_bid closes with it.  The oracle
\* is not down for good: a market that asks it again and again is answered.
\* Nobody owes a bid, a purse instruction or, for a rumor, a verdict.
Fairness ==
  /\ WF_vars(Tick)
  /\ WF_vars(ExpireMarket)
  /\ WF_vars(RequestResolutionVrf)
  /\ WF_vars(RetryVrf)
  /\ WF_vars(CallbackRejected)
  /\ SF_vars(\E draw \in Draws, coin \in BOOLEAN : CallbackResolve(draw, coin))
  /\ \A b \in Bidders :
       /\ WF_vars(SettleBid(b))
       /\ WF_vars(bids[b].private /\ CloseBid(b))
  /\ WF_vars(CloseBook)

LiveSpec == Spec /\ Fairness

----------------------------------------------------------------------------
(* Properties.                                                             *)

TypeOK ==
  /\ wallet \in [Bidders -> Nat]
  /\ purse \in [Bidders -> PurseRecord]
  /\ market \in MarketRecord
  /\ bids \in [Bidders -> BidRecord]
  /\ now \in Nat
  /\ vrf \in Nat

Placed(b) == bids[b].account # "none"

\* The part of a bid's stake that is still in the book.
LiveStake(b) == IF bids[b].settled THEN 0 ELSE Staked(bids[b])

\* In whatever order bids are settled, and by whatever crank, the escrow answers
\* them all.  Except under a rumor's verdict it is at every step exactly the
\* unsettled stakes and what the author is owed: no lamport is stranded or
\* overdrawn.  Under a rumor's verdict, whose shares are floored, it always covers
\* the payouts still to be made and the author's due: no late winner is left short,
\* and nothing is paid out of the market's rent (settle_bid's arithmetic, which
\* close_book relies on; move_lamports).
EscrowCoversClaims ==
  LET Owed(Claim(_)) ==
        market.author_payout +
          SumFunction([b \in Bidders |-> IF bids[b].settled THEN 0 ELSE Claim(b)])
      Payout(b) == PayoutOf(market, bids[b])
  IN  IF market.outcome \in {"Forgiven", "Slashed"}
      THEN market.escrow_lamports >= Owed(Payout)
      ELSE market.escrow_lamports = Owed(LiveStake)

\* Deposits, bids, settlements and withdrawals only move lamports: wallets,
\* purses and the escrow together hold what the village started with.
MoneyIsConserved ==
  SumFunction(wallet) + SumFunction([b \in Bidders |-> purse[b].available])
    + market.escrow_lamports = Funds * Cardinality(Bidders)

\* A purse's `locked` is exactly its unsettled stake, and while there is one the
\* purse stays on the rollup: settle_bid, which must write the purse there, can
\* never be shut out by undelegate_purse or withdraw_purse.
PursesBackBids ==
  \A b \in Bidders :
    /\ purse[b].locked = LiveStake(b)
    /\ LiveStake(b) > 0 => purse[b].layer = "ER"

\* Each rank the draw can hit is held by one bid and that bid has paid, in
\* whatever order bids are placed and funded: one reader can be chosen, and
\* never one that did not pay (fund_bid assigns read_rank).
ReadRanksAreDense ==
  \A r \in 0..(market.read_bid_count - 1) :
    \E b \in Bidders :
      /\ Placed(b)
      /\ bids[b].funded
      /\ bids[b].side = "Read"
      /\ bids[b].read_rank = r
      /\ \A c \in Bidders : Placed(c) /\ bids[c].read_rank = r => c = b

\* A market that ends with a sole reader has named one who bid to read and
\* paid, and the author is owed that one stake and no other (is_chosen_bid,
\* compute_payout, settle_bid).
SoleReaderPays ==
  market.status = "Settled" /\ market.outcome = "SoleReader" =>
    /\ market.sole_reader \in Bidders
    /\ bids[market.sole_reader].side = "Read"
    /\ bids[market.sole_reader].funded
    /\ market.author_payout = bids[market.sole_reader].amount

\* Anyone can recompute a confession's verdict from what the market records:
\* the pots it was decided on are never changed afterwards, by a bid funded
\* late or otherwise (expire_market, callback_resolve, fund_bid).
VerdictFollowsBook ==
  market.outcome # "Pending" /\ IsConfession(market) =>
    IF market.pot["Seal"] = 0 /\ market.pot["Read"] = 0
    THEN market.outcome = "PublicLeak"
    ELSE \E coin \in BOOLEAN : market.outcome = Verdict(market, market.resolved_at, coin)

\* Only a paid, undecided confession ever waits for the oracle: a rumor can't
\* be locked there, and callback_resolve never meets a book nobody paid into.
OnlyPaidConfessionsAwaitOracle ==
  market.status = "VrfPending" =>
    /\ IsConfession(market)
    /\ market.outcome = "Pending"
    /\ market.pot["Seal"] + market.pot["Read"] > 0

\* A book is closed only when nothing is left to do on the rollup: every bid is
\* settled and its account gone, no purse has anything locked, and the escrow
\* is what the author is owed (close_book's checks).
SettledMeansDone ==
  market.status = "Settled" =>
    /\ \A b \in Bidders : Placed(b) => bids[b].account = "closed" /\ bids[b].settled
    /\ \A b \in Bidders : purse[b].locked = 0
    /\ market.escrow_lamports = market.author_payout

\* A verdict is given once: a late or duplicate answer of the oracle, a retry
\* or a second crank never changes an outcome, the draw that decided it, or the
\* reader that was named.
VerdictIsFinal ==
  [][ /\ market.outcome # "Pending" =>
           /\ market'.outcome = market.outcome
           /\ market'.randomness = market.randomness
           /\ market'.resolved_at = market.resolved_at
      /\ market.sole_reader # Nobody => market'.sole_reader = market.sole_reader ]_vars

\* The market implements the escrow contract.
Contract == INSTANCE EscrowContract WITH
  phase    <- CASE market.status = "Resolved" -> "decided"
                [] market.status = "Settled" -> "closed"
                [] OTHER -> "open",
  stake    <- [b \in Bidders |-> Staked(bids[b])],
  answered <- [b \in Bidders |-> bids[b].settled],
  held     <- market.escrow_lamports

\* Stakes are taken only before the verdict, each is answered exactly once and
\* out of what is held, and the book closes only when all are answered.
ImplementsContract == Contract!Spec

\* A market whose timer runs gets a verdict: lost requests are retried until
\* one is answered (retry_vrf).
VerdictArrives == (market.outcome = "Pending") ~> (market.outcome # "Pending")

\* A decided book in which every bid was paid and made private is closed, which
\* finalize_market waits for (close_bid, close_book).
PaidBooksClose ==
  (market.status = "Resolved" /\
     \A b \in Bidders : bids[b].account = "open" => bids[b].funded /\ bids[b].private)
    ~> market.status = "Settled"

----------------------------------------------------------------------------
(* A statement of the documentation that the code does not keep.           *)

\* lib.rs:1205, at close_book: "Every bid is closed, so the only escrow left
\* must be what the author is owed".
OnlyAuthorsDueIsLeft ==
  market.status = "Resolved" /\ market.closed_bid_count = market.bid_count =>
    market.escrow_lamports = market.author_payout
============================================================================
