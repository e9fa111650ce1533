----------------------------- MODULE CrankProofs -----------------------------
(***************************************************************************)
(* Proofs about modules Crank and Scripts.                                 *)
(*                                                                         *)
(* The reader named by the draw is let in before the market leaves the     *)
(* rollup, whatever the keeper and the browser do to each other: the two   *)
(* clients' positions are related to the market's verdict, and the verdict *)
(* to who is let in.                                                       *)
(*                                                                         *)
(* The clients send nothing but the program's instructions, so what was    *)
(* proved of a market's life holds of their races.                         *)
(*                                                                         *)
(* A script's exit code 0 is evidence: each step it has behind it is done, *)
(* stays done, and was its own or one that the keeper did for it.  A bid   *)
(* that it passed over unseen is answered for by the book's closing.       *)
(***************************************************************************)
EXTENDS Scripts, LifecycleProofs, SequenceTheorems

\* The flow is somebody's, or nobody's.
FlowShape == {"at", "who"} \subseteq DOMAIN flow /\ flow.who \in Bidders \cup {Nobody}

\* The fields the argument reads, and counters that count.
CrankShape ==
  /\ {"status", "outcome", "sole_reader"} \subseteq DOMAIN market
  /\ {"layer", "permission", "members"} \subseteq DOMAIN secret
  /\ "at" \in DOMAIN keeper
  /\ FlowShape
  /\ lost \in Nat
  /\ crashes \in Nat

\* A named reader is a bidder, named by a verdict of one reader that is in.
Named ==
  market.sole_reader # Nobody =>
    /\ market.sole_reader \in Bidders
    /\ market.outcome \in {"SoleReader", "Inherited"}
    /\ market.status \in {"Resolved", "Settled"}

\* Who is named has been let in.
LetIn == market.sole_reader # Nobody => market.sole_reader \in secret.members

\* The steps of either client in which a settled market is taken for granted.
Late == {"grant", "finalize"}

CrankInv ==
  /\ CrankShape
  /\ Named
  /\ home \in {"ER", "returning", "L1"}
  /\ secret.layer = "ER" /\ secret.permission # "none"
  /\ home # "ER" \/ keeper.at \in Late \/ flow.at \in Late => market.status = "Settled"
  /\ (keeper.at = "finalize" \/ flow.at = "finalize") /\ home = "ER" /\ lost = 0 => LetIn
  /\ ReaderIsLetIn

----------------------------------------------------------------------------
(* What a step does to the market and its secret, of the four things that  *)
(* the clients and the world can do to them.                               *)

\* The book's instructions, or nothing: a settled market and its reader stay.
BookMove ==
  /\ UNCHANGED <<home, secret>>
  /\ home = "ER" \/ UNCHANGED market
  /\ {"status", "outcome", "sole_reader"} \subseteq DOMAIN market'
  /\ Named'
  /\ market.status = "Settled" =>
       market'.status = "Settled" /\ market'.sole_reader = market.sole_reader

\* grant_reader.
GrantMove ==
  /\ UNCHANGED <<home, market>>
  /\ home = "ER"
  /\ {"layer", "permission", "members"} \subseteq DOMAIN secret'
  /\ secret'.layer = "ER" /\ secret'.permission # "none"
  /\ LetIn'

\* finalize_market, sent by a client whose turn it is.
LeaveMove ==
  /\ keeper.at = "finalize" \/ flow.at = "finalize"
  /\ UNCHANGED <<market, secret>>
  /\ home = "ER" /\ market.status = "Settled"
  /\ home' = "returning"

\* The undelegation.
ReturnMove ==
  /\ UNCHANGED <<market, secret>>
  /\ home = "returning" /\ home' = "L1"

\* A client moves from c to d without entering the steps in question.
Unhurried(c, d) == "at" \in DOMAIN d /\ (d.at = c.at \/ d.at \notin Late)

\* Faults are counted up, if at all.
Counted ==
  /\ lost' \in Nat /\ crashes' \in Nat
  /\ lost' = 0 => lost = 0

----------------------------------------------------------------------------
(* The moves keep the invariant.                                           *)

\* Any of the four moves, made while neither client enters a late step.
LEMMA QuietKeeps ==
  ASSUME CrankInv, Counted, Unhurried(keeper, keeper'), Unhurried(flow, flow'), FlowShape',
         BookMove \/ GrantMove \/ LeaveMove \/ ReturnMove
  PROVE  CrankInv'
<1> USE DEF CrankInv, CrankShape, Counted, Unhurried, Late
<1>1. CASE BookMove
  BY <1>1 DEF BookMove, Named, LetIn, ReaderIsLetIn
<1>2. CASE GrantMove
  BY <1>2 DEF GrantMove, Named, LetIn, ReaderIsLetIn
<1>3. CASE LeaveMove
  BY <1>3 DEF LeaveMove, Named, LetIn, ReaderIsLetIn
<1>4. CASE ReturnMove
  BY <1>4 DEF ReturnMove, Named, LetIn, ReaderIsLetIn
<1> QED BY <1>1, <1>2, <1>3, <1>4

----------------------------------------------------------------------------
(* Which move each instruction makes.                                      *)

\* The book's instructions, run on the rollup.
LEMMA BookMoves ==
  ASSUME CrankInv, home = "ER", UNCHANGED lifeVars,
         \/ \E b \in Bidders, side \in Sides, amount \in Amounts : PlaceAndFund(b, side, amount)
         \/ \E b \in Bidders : InitBidPermission(b) \/ SettleBid(b) \/ CloseBid(b)
         \/ Tick \/ ExpireMarket \/ RequestResolutionVrf \/ RetryVrf \/ CloseBook
         \/ \E draw \in Draws, coin \in BOOLEAN : CallbackResolve(draw, coin)
  PROVE  BookMove
<1> USE DEF CrankInv, CrankShape, BookMove, Named, lifeVars
<1>1. ASSUME NEW b \in Bidders, NEW side \in Sides, NEW amount \in Amounts,
             PlaceAndFund(b, side, amount)
      PROVE  BookMove
  BY <1>1 DEF PlaceAndFund, CheckBiddable
<1>2. ASSUME NEW b \in Bidders, InitBidPermission(b) \/ CloseBid(b)
      PROVE  BookMove
  BY <1>2 DEF InitBidPermission, CloseBid
<1>3. ASSUME NEW b \in Bidders, SettleBid(b)
      PROVE  BookMove
  BY <1>3 DEF SettleBid, Settleable, IsChosenBid
<1>4. CASE Tick \/ ExpireMarket
  BY <1>4 DEF Tick, ExpireMarket
<1>5. CASE RequestResolutionVrf \/ RetryVrf \/ CloseBook
  BY <1>5 DEF RequestResolutionVrf, Requestable, RetryVrf, CloseBook
<1>6. ASSUME NEW draw \in Draws, NEW coin \in BOOLEAN, CallbackResolve(draw, coin)
      PROVE  BookMove
  BY <1>6 DEF CallbackResolve, Awaited
<1> QED BY <1>1, <1>2, <1>3, <1>4, <1>5, <1>6

\* The instructions that the flow sends and the keeper does not, or that are not of
\* the book: a bid settled and closed at once, a spent answer, the carving, and a
\* step that changes nothing.
LEMMA OtherMoves ==
  ASSUME CrankInv,
         \/ \E b \in Bidders \cup {Nobody} : OnRollup(SettleAndClose(b))
         \/ (CallbackRejected \/ OracleFails) /\ UNCHANGED lifeVars
         \/ WriteTombstone
         \/ UNCHANGED allVars
  PROVE  BookMove
<1> USE DEF CrankInv, CrankShape, BookMove, Named, lifeVars
<1>1. ASSUME NEW b \in Bidders \cup {Nobody}, OnRollup(SettleAndClose(b))
      PROVE  BookMove
  BY <1>1 DEF OnRollup, SettleAndClose, Settleable, IsChosenBid
<1>2. CASE (CallbackRejected \/ OracleFails) /\ UNCHANGED lifeVars
  BY <1>2 DEF CallbackRejected, OracleFails
<1>3. CASE WriteTombstone
  BY <1>3 DEF WriteTombstone, vars, marketVars, purseVars
<1>4. CASE UNCHANGED allVars
  BY <1>4 DEF allVars, vars, marketVars, purseVars
<1> QED BY <1>1, <1>2, <1>3, <1>4

\* grant_reader, whoever sends it.
LEMMA GrantMoves ==
  ASSUME CrankInv, Grant
  PROVE  GrantMove
BY DEF Grant, GrantReader, Admissible, Grantable, GrantMove, CrankInv, CrankShape, LetIn,
       vars, marketVars, purseVars

----------------------------------------------------------------------------
(* The steps of each client, and of the world.                             *)

\* Faults only add up.
LEMMA FaultsAddUp ==
  ASSUME CrankInv,
         \/ UNCHANGED faultVars
         \/ lost' = lost + 1 /\ UNCHANGED crashes
         \/ crashes' = crashes + 1 /\ UNCHANGED lost
  PROVE  Counted
BY DEF CrankInv, CrankShape, Counted, faultVars

\* Where Go leaves the keeper.
LEMMA GoesThere ==
  ASSUME NEW step, Go(step)
  PROVE  "at" \in DOMAIN keeper' /\ keeper'.at = step /\ flow' = flow
BY DEF Go, Resting

\* The world: bids, the clock, the oracle, the undelegation.
LEMMA WorldKeeps ==
  ASSUME CrankInv, World, UNCHANGED <<keeper, flow, faultVars>>
  PROVE  CrankInv'
<1>1. BookMove \/ ReturnMove
  <2>1. CASE MarketReturns
    BY <2>1 DEF MarketReturns, ReturnMove, vars, marketVars, purseVars
  <2>2. CASE (CallbackRejected \/ OracleFails) /\ UNCHANGED lifeVars
    BY <2>2, OtherMoves
  <2>3. CASE /\ home = "ER" /\ UNCHANGED lifeVars
             /\ \/ \E b \in Bidders, side \in Sides, amount \in Amounts :
                     PlaceAndFund(b, side, amount)
                \/ \E b \in Bidders : InitBidPermission(b)
                \/ Tick \/ RetryVrf
                \/ \E draw \in Draws, coin \in BOOLEAN : CallbackResolve(draw, coin)
    BY <2>3, BookMoves
  <2> QED BY <2>1, <2>2, <2>3 DEF World, Answer, OnRollup
<1>2. Counted
  BY FaultsAddUp
<1>3. Unhurried(keeper, keeper') /\ Unhurried(flow, flow') /\ FlowShape'
  BY DEF Unhurried, FlowShape, CrankInv, CrankShape
<1> QED BY <1>1, <1>2, <1>3, QuietKeeps

\* The keeper's steps on the book and its carving, whatever comes of them.
LEMMA KeeperBookKeeps ==
  ASSUME CrankInv,
         \/ Wrapped("expire", OnRollup(ExpireMarket), "idle")
         \/ Wrapped("request", OnRollup(RequestResolutionVrf), "idle")
         \/ Wrapped("retry", OnRollup(RetryVrf), "idle")
         \/ Wrapped("settle", OnRollup(CloseBook), "idle")
         \/ Wrapped("carve", WriteTombstone, "idle")
  PROVE  CrankInv'
<1>1. BookMove
  <2>1. CASE home = "ER" /\ UNCHANGED lifeVars
             /\ (ExpireMarket \/ RequestResolutionVrf \/ RetryVrf \/ CloseBook)
    BY <2>1, BookMoves
  <2>2. CASE WriteTombstone \/ UNCHANGED allVars
    BY <2>2, OtherMoves
  <2> QED BY <2>1, <2>2 DEF Wrapped, Lands, Refused, Lost, OnRollup
<1>2. Counted
  BY FaultsAddUp DEF Wrapped, Lands, Refused, Lost
<1>3. Go("idle")
  BY DEF Wrapped
<1>4. Unhurried(keeper, keeper') /\ Unhurried(flow, flow') /\ FlowShape'
  BY <1>3, GoesThere DEF Unhurried, FlowShape, CrankInv, CrankShape, Late
<1> QED BY <1>1, <1>2, <1>4, QuietKeeps

\* The keeper's listing, and the bids it handles.
LEMMA KeeperBidsKeep ==
  ASSUME CrankInv,
         KeeperLists \/ (\E b \in Bidders : KeeperSettles(b) \/ KeeperCloses(b))
  PROVE  CrankInv'
<1>1. BookMove
  <2>1. CASE /\ home = "ER" /\ UNCHANGED lifeVars
             /\ \E b \in Bidders : SettleBid(b) \/ CloseBid(b)
    BY <2>1, BookMoves
  <2>2. CASE UNCHANGED allVars
    BY <2>2, OtherMoves
  <2> QED BY <2>1, <2>2 DEF KeeperLists, KeeperSettles, KeeperCloses, Lands, Refused, Lost, OnRollup
<1>2. Counted
  BY FaultsAddUp DEF KeeperLists, KeeperSettles, KeeperCloses, Lands, Refused, Lost
<1>3. Unhurried(keeper, keeper')
  BY DEF Unhurried, CrankInv, CrankShape, Late, KeeperLists, KeeperSettles, KeeperCloses
<1>4. Unhurried(flow, flow') /\ FlowShape'
  BY DEF Unhurried, FlowShape, CrankInv, CrankShape, KeeperLists, KeeperSettles, KeeperCloses
<1> QED BY <1>1, <1>2, <1>3, <1>4, QuietKeeps

\* The keeper turns to a market: to a grant only where the book is settled.
LEMMA KeeperLooksKeeps ==
  ASSUME CrankInv, KeeperLooks
  PROVE  CrankInv'
<1>1. keeper'.at = Branch /\ "at" \in DOMAIN keeper' /\ flow' = flow
  BY GoesThere DEF KeeperLooks
<1>2. UNCHANGED <<market, secret, home, lost, crashes>>
  BY DEF KeeperLooks, allVars, lifeVars, vars, marketVars, purseVars, faultVars
<1>3. Branch # "finalize" /\ (Branch = "grant" => market.status = "Settled")
  BY DEF Branch
<1> QED BY <1>1, <1>2, <1>3
        DEF CrankInv, CrankShape, FlowShape, Named, Late, LetIn, ReaderIsLetIn

\* The keeper grants: it goes on to finalize_market with the reader let in, or
\* nobody to let in, or the market gone, or a call lost.
LEMMA KeeperGrantsKeeps ==
  ASSUME CrankInv, KeeperGrants
  PROVE  CrankInv'
<1>1. keeper'.at = "finalize" /\ "at" \in DOMAIN keeper' /\ flow' = flow /\ keeper.at = "grant"
  BY GoesThere DEF KeeperGrants
<1>2. market.status = "Settled"
  BY <1>1 DEF CrankInv, Late
<1>3. CASE Lands(Grant)
  <2>1. GrantMove /\ UNCHANGED <<lost, crashes>>
    BY <1>3, GrantMoves DEF Lands, faultVars
  <2> QED BY <1>1, <1>2, <2>1
          DEF GrantMove, CrankInv, CrankShape, FlowShape, Named, Late, LetIn, ReaderIsLetIn
<1>4. CASE (\A b \in Bidders : ~Admissible(b)) /\ UNCHANGED <<allVars, faultVars>>
  <2>1. UNCHANGED <<market, secret, home, lost, crashes>>
    BY <1>4 DEF allVars, lifeVars, vars, marketVars, purseVars, faultVars
  <2>2. home = "ER" => market.sole_reader = Nobody
    BY <1>4 DEF Admissible, Grantable, CrankInv, Named
  <2> QED BY <1>1, <1>2, <2>1, <2>2
          DEF CrankInv, CrankShape, FlowShape, Named, Late, LetIn, ReaderIsLetIn
<1>5. CASE Lost
  <2>1. UNCHANGED <<market, secret, home, crashes>> /\ lost' = lost + 1
    BY <1>5 DEF Lost, allVars, lifeVars, vars, marketVars, purseVars
  <2> QED BY <1>1, <1>2, <2>1
          DEF CrankInv, CrankShape, FlowShape, Named, Late, LetIn, ReaderIsLetIn
<1> QED BY <1>3, <1>4, <1>5 DEF KeeperGrants

\* The keeper takes the market home and waits for it.
LEMMA KeeperFinalizesKeeps ==
  ASSUME CrankInv, KeeperFinalizes \/ KeeperAwaits
  PROVE  CrankInv'
<1>1. BookMove \/ LeaveMove
  <2>1. CASE FinalizeMarket /\ keeper.at = "finalize"
    BY <2>1 DEF FinalizeMarket, LeaveMove, vars, marketVars, purseVars
  <2>2. CASE UNCHANGED allVars
    BY <2>2, OtherMoves
  <2> QED BY <2>1, <2>2 DEF KeeperFinalizes, KeeperAwaits, Lands, Refused, Lost, Unheard
<1>2. Counted
  BY FaultsAddUp DEF KeeperFinalizes, KeeperAwaits, Lands, Refused, Lost, Unheard
<1>3. Go("await") \/ Go("idle") \/ Go("carve")
  BY DEF KeeperFinalizes, KeeperAwaits
<1>4. Unhurried(keeper, keeper') /\ Unhurried(flow, flow') /\ FlowShape'
  BY <1>3, GoesThere DEF Unhurried, FlowShape, CrankInv, CrankShape, Late
<1> QED BY <1>1, <1>2, <1>4, QuietKeeps

\* The keeper's tick.
LEMMA KeeperKeeps ==
  ASSUME CrankInv, KeeperStep
  PROVE  CrankInv'
BY KeeperBookKeeps, KeeperBidsKeep, KeeperLooksKeeps, KeeperGrantsKeeps, KeeperFinalizesKeeps
   DEF KeeperStep, KeeperClosesBook

\* Either client dies, or a villager starts the flow.
LEMMA ComingsAndGoingsKeep ==
  ASSUME CrankInv, KeeperDies \/ FlowDies \/ \E b \in Bidders : FlowStarts(b)
  PROVE  CrankInv'
<1>1. BookMove
  <2>1. UNCHANGED allVars
    BY DEF KeeperDies, FlowDies, FlowStarts
  <2> QED BY <2>1, OtherMoves
<1>2. Counted
  BY FaultsAddUp DEF KeeperDies, FlowDies, FlowStarts
<1>3. Unhurried(keeper, keeper') /\ Unhurried(flow, flow') /\ FlowShape'
  <2>1. CASE KeeperDies
    <3>1. Go("idle")
      BY <2>1 DEF KeeperDies
    <3> QED BY <3>1, GoesThere DEF Unhurried, FlowShape, CrankInv, CrankShape, Late
  <2>2. CASE FlowDies
    BY <2>2 DEF FlowDies, Throw, NoFlow, Unhurried, FlowShape, CrankInv, CrankShape, Late
  <2>3. ASSUME NEW b \in Bidders, FlowStarts(b)
        PROVE  Unhurried(keeper, keeper') /\ Unhurried(flow, flow') /\ FlowShape'
    <3>1. Head(RESOLVE_STEPS) = "expire"
      BY DEF RESOLVE_STEPS
    <3> QED BY <2>3, <3>1 DEF FlowStarts, Unhurried, FlowShape, CrankInv, CrankShape, Late
  <2> QED BY <2>1, <2>2, <2>3
<1> QED BY <1>1, <1>2, <1>3, QuietKeeps

\* The order of resolveMarket's steps: only close_book is followed by the grant,
\* and only the grant by finalize_market.
LEMMA StepsFollow ==
  /\ Following("expire") = "request" /\ Following("request") = "callback"
  /\ Following("callback") = "settle" /\ Following("settle") = "close_book"
  /\ Following("close_book") = "grant" /\ Following("grant") = "finalize"
  /\ Following("finalize") = "await" /\ Following("await") = "carve"
  /\ Following("carve") = "idle"
<1>1. Len(RESOLVE_STEPS) = 9 /\ DOMAIN RESOLVE_STEPS = 1..9
  BY DEF RESOLVE_STEPS
<1>2. /\ RESOLVE_STEPS[1] = "expire" /\ RESOLVE_STEPS[2] = "request"
      /\ RESOLVE_STEPS[3] = "callback" /\ RESOLVE_STEPS[4] = "settle"
      /\ RESOLVE_STEPS[5] = "close_book" /\ RESOLVE_STEPS[6] = "grant"
      /\ RESOLVE_STEPS[7] = "finalize" /\ RESOLVE_STEPS[8] = "await"
      /\ RESOLVE_STEPS[9] = "carve"
  BY DEF RESOLVE_STEPS
<1>3. ASSUME NEW n \in 1..9
      PROVE  (CHOOSE i \in DOMAIN RESOLVE_STEPS : RESOLVE_STEPS[i] = RESOLVE_STEPS[n]) = n
  <2>1. \A i \in 1..9 : RESOLVE_STEPS[i] = RESOLVE_STEPS[n] <=> i = n
    BY <1>2
  <2> DEFINE k == CHOOSE i \in DOMAIN RESOLVE_STEPS : RESOLVE_STEPS[i] = RESOLVE_STEPS[n]
  <2>2. \E i \in DOMAIN RESOLVE_STEPS : RESOLVE_STEPS[i] = RESOLVE_STEPS[n]
    BY <1>1
  <2>3. k \in DOMAIN RESOLVE_STEPS /\ RESOLVE_STEPS[k] = RESOLVE_STEPS[n]
    BY <2>2, Zenon
  <2> HIDE DEF k
  <2>4. k = n
    BY <1>1, <2>1, <2>3
  <2> QED BY <2>4 DEF k
<1>4. ASSUME NEW n \in 1..9
      PROVE  Following(RESOLVE_STEPS[n]) = IF n = 9 THEN "idle" ELSE RESOLVE_STEPS[n + 1]
  <2> DEFINE k == CHOOSE i \in DOMAIN RESOLVE_STEPS : RESOLVE_STEPS[i] = RESOLVE_STEPS[n]
  <2>1. Following(RESOLVE_STEPS[n]) =
          IF k = Len(RESOLVE_STEPS) THEN "idle" ELSE RESOLVE_STEPS[k + 1]
    BY Zenon DEF Following
  <2>2. k = n
    BY <1>3
  <2> HIDE DEF k
  <2> QED BY <1>1, <2>1, <2>2
<1> QED BY <1>2, <1>4

\* Where Done leaves the flow.
LEMMA DoneGoesOn ==
  ASSUME CrankInv, NEW step, Done(step)
  PROVE  flow'.at = Following(step) /\ FlowShape' /\ keeper' = keeper
BY DEF Done, FlowShape, CrankInv, CrankShape

\* Where Throw leaves it.
LEMMA ThrowEnds ==
  ASSUME CrankInv, Throw
  PROVE  flow'.at = "idle" /\ FlowShape' /\ keeper' = keeper
BY DEF Throw, NoFlow, FlowShape

\* The flow's steps before the book is closed, and after the market is on its way.
LEMMA FlowBookKeeps ==
  ASSUME CrankInv,
         \/ FlowStep("expire", market.status # "Open", OnRollup(ExpireMarket))
         \/ FlowStep("request", market.status # "Expired", OnRollup(RequestResolutionVrf))
         \/ FlowAwaitsCallback
         \/ FlowStep("settle", ~Seen(flow.who), OnRollup(SettleAndClose(flow.who)))
         \/ FlowStep("finalize", FALSE, FinalizeMarket)
         \/ FlowAwaitsBase
         \/ FlowStep("carve", tomb.account # "none", WriteTombstone)
  PROVE  CrankInv'
<1>1. BookMove \/ LeaveMove
  <2>1. CASE home = "ER" /\ UNCHANGED lifeVars /\ (ExpireMarket \/ RequestResolutionVrf)
    BY <2>1, BookMoves
  <2>2. CASE OnRollup(SettleAndClose(flow.who)) \/ WriteTombstone \/ UNCHANGED allVars
    BY <2>2, OtherMoves DEF CrankInv, CrankShape, FlowShape
  <2>3. CASE FinalizeMarket /\ flow.at = "finalize"
    BY <2>3 DEF FinalizeMarket, LeaveMove, vars, marketVars, purseVars
  <2>4. CASE FlowAwaitsCallback \/ FlowAwaitsBase
    BY <2>2, <2>4 DEF FlowAwaitsCallback, FlowAwaitsBase
  <2> QED BY <2>1, <2>2, <2>3, <2>4 DEF FlowStep, Lands, Refused, OnRollup
<1>2. Counted
  BY FaultsAddUp DEF FlowStep, FlowAwaitsCallback, FlowAwaitsBase, Lands, Refused
<1>3. \/ Throw
      \/ Done("expire") \/ Done("request") \/ Done("callback") \/ Done("settle")
      \/ Done("finalize") \/ Done("await") \/ Done("carve")
  BY DEF FlowStep, FlowAwaitsCallback, FlowAwaitsBase
<1>4. Unhurried(keeper, keeper') /\ Unhurried(flow, flow') /\ FlowShape'
  BY <1>3, DoneGoesOn, ThrowEnds, StepsFollow DEF Unhurried, FlowShape, CrankInv, CrankShape, Late
<1> QED BY <1>1, <1>2, <1>4, QuietKeeps

\* close_book in the flow: it goes on to the grant only with the book settled.
LEMMA FlowClosesKeeps ==
  ASSUME CrankInv, FlowStep("close_book", market.status = "Settled", OnRollup(CloseBook))
  PROVE  CrankInv'
<1>1. BookMove
  <2>1. CASE home = "ER" /\ UNCHANGED lifeVars /\ CloseBook
    BY <2>1, BookMoves
  <2>2. CASE UNCHANGED allVars
    BY <2>2, OtherMoves
  <2> QED BY <2>1, <2>2 DEF FlowStep, Lands, Refused, OnRollup
<1>2. UNCHANGED <<lost, crashes>>
  BY DEF FlowStep, Lands, Refused, faultVars
<1>3. CASE Throw
  <2>1. Unhurried(keeper, keeper') /\ Unhurried(flow, flow') /\ FlowShape'
    BY <1>3, ThrowEnds DEF Unhurried, FlowShape, CrankInv, CrankShape, Late
  <2> QED BY <1>1, <1>2, <2>1, QuietKeeps, FaultsAddUp DEF faultVars
<1>4. CASE Done("close_book")
  <2>1. market'.status = "Settled"
    <3>1. CASE CloseBook
      BY <3>1 DEF CloseBook, CrankInv, CrankShape
    <3>2. CASE market.status = "Settled"
      BY <3>2, <1>1 DEF BookMove
    <3>3. ~Throw
      BY <1>4, DoneGoesOn, ThrowEnds, StepsFollow
    <3> QED BY <3>1, <3>2, <3>3 DEF FlowStep, Lands, Refused, OnRollup
  <2>2. flow'.at = "grant" /\ FlowShape' /\ keeper' = keeper
    BY <1>4, DoneGoesOn, StepsFollow
  <2> QED BY <1>1, <1>2, <2>1, <2>2
          DEF BookMove, CrankInv, CrankShape, FlowShape, Named, Late, LetIn, ReaderIsLetIn
<1> QED BY <1>3, <1>4 DEF FlowStep

\* grant_reader in the flow: skipped when no reader was named, else it must land.
LEMMA FlowGrantsKeeps ==
  ASSUME CrankInv, FlowStep("grant", NoReaderToGrant, Grant)
  PROVE  CrankInv'
<1>1. UNCHANGED <<lost, crashes>>
  BY DEF FlowStep, Lands, Refused, faultVars
<1>2. UNCHANGED <<market, home, secret>> \/ GrantMove
  BY GrantMoves DEF FlowStep, Lands, Refused, allVars, lifeVars, vars, marketVars, purseVars
<1>3. CASE Throw
  <2>1. Unhurried(keeper, keeper') /\ Unhurried(flow, flow') /\ FlowShape'
    BY <1>3, ThrowEnds DEF Unhurried, FlowShape, CrankInv, CrankShape, Late
  <2>2. BookMove \/ GrantMove
    BY <1>2 DEF BookMove, Named, CrankInv, CrankShape
  <2> QED BY <1>1, <2>1, <2>2, QuietKeeps, FaultsAddUp DEF faultVars
<1>4. CASE Done("grant")
  <2>1. flow'.at = "finalize" /\ FlowShape' /\ keeper' = keeper
    BY <1>4, DoneGoesOn, StepsFollow
  <2>2. GrantMove \/ (NoReaderToGrant /\ UNCHANGED <<market, home, secret>>)
    <3>1. ~Throw
      BY <2>1, ThrowEnds
    <3> QED BY <3>1, GrantMoves
            DEF FlowStep, Lands, Refused, allVars, lifeVars, vars, marketVars, purseVars
  <2>3. LetIn' /\ market.status = "Settled"
    BY <2>2 DEF GrantMove, NoReaderToGrant, LetIn, Named, CrankInv, FlowStep, Late
  <2> QED BY <1>1, <1>2, <2>1, <2>3
          DEF GrantMove, FlowStep, CrankInv, CrankShape, FlowShape, Named, Late, LetIn, ReaderIsLetIn
<1> QED BY <1>3, <1>4 DEF FlowStep

----------------------------------------------------------------------------
(* The invariant.                                                          *)

\* Every step of the clients and the world keeps the invariant.
LEMMA CrankInvIsKept ==
  ASSUME CrankInv, [CrankNext]_crankVars
  PROVE  CrankInv'
<1>1. CASE World /\ UNCHANGED <<keeper, flow, faultVars>>
  BY <1>1, WorldKeeps
<1>2. CASE KeeperStep
  BY <1>2, KeeperKeeps
<1>3. CASE KeeperDies \/ FlowDies \/ \E b \in Bidders : FlowStarts(b)
  BY <1>3, ComingsAndGoingsKeep
<1>4. CASE FlowNext
  BY <1>4, FlowBookKeeps, FlowClosesKeeps, FlowGrantsKeeps DEF FlowNext
<1>5. CASE UNCHANGED crankVars
  <2>1. UNCHANGED <<allVars, keeper, flow, lost, crashes>>
    BY <1>5 DEF crankVars, faultVars
  <2>2. BookMove
    BY <2>1, OtherMoves
  <2>3. Unhurried(keeper, keeper') /\ Unhurried(flow, flow') /\ FlowShape'
    BY <2>1 DEF Unhurried, FlowShape, CrankInv, CrankShape
  <2> QED BY <2>1, <2>2, <2>3, QuietKeeps, FaultsAddUp DEF faultVars
<1> QED BY <1>1, <1>2, <1>3, <1>4, <1>5 DEF CrankNext

\* The invariant holds of the clients' every run: whoever is in a late step is
\* there with the book settled, and finalizes with the reader let in.
THEOREM CrankInvariantHolds == CrankSpec => []CrankInv
<1>1. SealedInit => CrankInv
  <2> SUFFICES ASSUME SealedInit PROVE CrankInv
    OBVIOUS
  <2>1. {"status", "outcome", "sole_reader"} \subseteq DOMAIN market /\ market.sole_reader = Nobody
    BY DEF SealedInit, MarketInit
  <2>2. /\ {"layer", "permission", "members"} \subseteq DOMAIN secret
        /\ secret.layer = "ER" /\ secret.permission = "private" /\ home = "ER"
    BY DEF SealedInit
  <2>3. /\ "at" \in DOMAIN keeper /\ FlowShape /\ keeper.at = "idle" /\ flow.at = "idle"
        /\ lost = 0 /\ crashes = 0
    BY DEF SealedInit, CrankInit, Resting, NoFlow, FlowShape
  <2> QED BY <2>1, <2>2, <2>3 DEF CrankInv, CrankShape, Named, Late, LetIn, ReaderIsLetIn
<1>2. CrankInv /\ [CrankNext]_crankVars => CrankInv'
  BY CrankInvIsKept
<1> QED BY <1>1, <1>2, PTL DEF CrankSpec

\* The reader named by the draw is let in before the market leaves the rollup,
\* for every number of bidders and of deaths, though no call of a grant is lost
\* (keeper.ts, tick; flows.ts, resolveMarket; lib.rs, grant_reader).
THEOREM TheReaderIsLetIn == CrankSpec => []ReaderIsLetIn
BY CrankInvariantHolds, PTL DEF CrankInv

----------------------------------------------------------------------------
(* The clients send the program's instructions, and nothing else happens   *)
(* to it: what was proved of a market's life holds of every race between   *)
(* them.                                                                   *)

\* What is sent, or happens by itself, beside the bids.
Sent ==
  \/ /\ home = "ER" /\ UNCHANGED lifeVars
     /\ \/ \E b \in Bidders :
             InitBidPermission(b) \/ SettleBid(b) \/ CloseBid(b) \/ SettleAndClose(b)
        \/ Tick \/ ExpireMarket \/ RequestResolutionVrf \/ RetryVrf \/ CloseBook
        \/ \E draw \in Draws, coin \in BOOLEAN : CallbackResolve(draw, coin)
  \/ (CallbackRejected \/ OracleFails) /\ UNCHANGED lifeVars
  \/ Grant \/ FinalizeMarket \/ MarketReturns \/ WriteTombstone
  \/ UNCHANGED allVars

\* All of it is a step of the market's life.
LEMMA SentIsLife == Sent => [LifeNext]_allVars
<1>1. CASE /\ home = "ER" /\ UNCHANGED lifeVars
           /\ \/ \E b \in Bidders :
                   InitBidPermission(b) \/ SettleBid(b) \/ CloseBid(b) \/ SettleAndClose(b)
              \/ Tick \/ ExpireMarket \/ RequestResolutionVrf \/ RetryVrf \/ CloseBook
              \/ \E draw \in Draws, coin \in BOOLEAN : CallbackResolve(draw, coin)
  BY <1>1 DEF LifeNext, BookStep, BidStep
<1>2. CASE (CallbackRejected \/ OracleFails) /\ UNCHANGED lifeVars
  BY <1>2 DEF LifeNext, BookStep
<1>3. CASE Grant \/ FinalizeMarket \/ MarketReturns \/ WriteTombstone
  BY <1>3 DEF LifeNext, SecretStep, HomeStep, Grant
<1> QED
  BY <1>1, <1>2, <1>3 DEF Sent

\* The keeper, whatever becomes of its calls.
LEMMA KeeperSends == KeeperStep => Sent
<1> USE DEF Sent, Lands, Refused, Lost, Unheard, OnRollup
<1>1. CASE \/ Wrapped("expire", OnRollup(ExpireMarket), "idle")
           \/ Wrapped("request", OnRollup(RequestResolutionVrf), "idle")
           \/ Wrapped("retry", OnRollup(RetryVrf), "idle")
           \/ KeeperClosesBook
           \/ Wrapped("carve", WriteTombstone, "idle")
  BY <1>1 DEF Wrapped, KeeperClosesBook
<1>2. CASE KeeperLooks \/ KeeperLists \/ KeeperAwaits
  BY <1>2 DEF KeeperLooks, KeeperLists, KeeperAwaits
<1>3. CASE \E b \in Bidders : KeeperSettles(b) \/ KeeperCloses(b)
  BY <1>3 DEF KeeperSettles, KeeperCloses
<1>4. CASE KeeperGrants \/ KeeperFinalizes
  BY <1>4 DEF KeeperGrants, KeeperFinalizes
<1> QED
  BY <1>1, <1>2, <1>3, <1>4 DEF KeeperStep

\* A flow that runs is some bidder's.
FlowIsABidders ==
  /\ {"at", "who"} \subseteq DOMAIN flow
  /\ flow.at # "idle" => flow.who \in Bidders

\* The flow, on the way through its steps.
LEMMA FlowSends == FlowIsABidders /\ FlowNext => Sent
<1> SUFFICES ASSUME FlowIsABidders, FlowNext PROVE Sent
  OBVIOUS
<1> USE DEF Sent, FlowStep, Lands, Refused, OnRollup
<1>1. CASE FlowStep("settle", ~Seen(flow.who), OnRollup(SettleAndClose(flow.who)))
  <2>1. flow.who \in Bidders
    BY <1>1 DEF FlowIsABidders
  <2> QED
    BY <1>1, <2>1
<1>2. CASE \/ FlowStep("expire", market.status # "Open", OnRollup(ExpireMarket))
           \/ FlowStep("request", market.status # "Expired", OnRollup(RequestResolutionVrf))
           \/ FlowStep("close_book", market.status = "Settled", OnRollup(CloseBook))
           \/ FlowStep("carve", tomb.account # "none", WriteTombstone)
  BY <1>2
<1>3. CASE \/ FlowStep("grant", NoReaderToGrant, Grant)
           \/ FlowStep("finalize", FALSE, FinalizeMarket)
  BY <1>3
<1>4. CASE FlowAwaitsCallback \/ FlowAwaitsBase
  BY <1>4 DEF FlowAwaitsCallback, FlowAwaitsBase
<1> QED
  BY <1>1, <1>2, <1>3, <1>4 DEF FlowNext

\* A flow stays its bidder's until it ends.
LEMMA FlowStaysTheirs == FlowIsABidders /\ [CrankNext]_crankVars => FlowIsABidders'
<1> SUFFICES ASSUME FlowIsABidders, [CrankNext]_crankVars PROVE FlowIsABidders'
  OBVIOUS
<1>1. CASE flow' = flow
  BY <1>1 DEF FlowIsABidders
<1>2. CASE Throw
  BY <1>2 DEF Throw, NoFlow, FlowIsABidders
<1>3. ASSUME NEW step, Done(step), flow.at # "idle"
      PROVE  FlowIsABidders'
  BY <1>3 DEF Done, FlowIsABidders
<1>4. ASSUME NEW b \in Bidders, FlowStarts(b)
      PROVE  FlowIsABidders'
  BY <1>4 DEF FlowStarts, FlowIsABidders
<1>5. CASE KeeperStep
  BY <1>1, <1>5 DEF KeeperStep, Wrapped, Go, KeeperLooks, KeeperLists, KeeperSettles, KeeperCloses,
     KeeperClosesBook, KeeperGrants, KeeperFinalizes, KeeperAwaits
<1>6. CASE FlowNext
  <2>1. ASSUME NEW step, flow.at = step, step # "idle", Done(step) \/ Throw
        PROVE  FlowIsABidders'
    BY <1>2, <1>3, <2>1
  <2> QED
    BY <1>6, <2>1 DEF FlowNext, FlowStep, FlowAwaitsCallback, FlowAwaitsBase
<1> QED
  BY <1>1, <1>2, <1>4, <1>5, <1>6 DEF CrankNext, KeeperDies, Go, FlowDies, crankVars

\* Every step of the clients and the world is one of the market's life.
LEMMA CrankStepsAreLife == FlowIsABidders /\ [CrankNext]_crankVars => [LifeNext]_allVars
<1> SUFFICES ASSUME FlowIsABidders, [CrankNext]_crankVars PROVE [LifeNext]_allVars
  OBVIOUS
<1>1. CASE World
  <2>1. CASE \E b \in Bidders, side \in Sides, amount \in Amounts :
               OnRollup(PlaceAndFund(b, side, amount))
    BY <2>1 DEF OnRollup, LifeNext, BookStep, BidStep
  <2>2. Sent \/ \E b \in Bidders, side \in Sides, amount \in Amounts :
                  OnRollup(PlaceAndFund(b, side, amount))
    BY <1>1 DEF World, Answer, OnRollup, Sent
  <2> QED
    BY <2>1, <2>2, SentIsLife
<1>2. CASE KeeperStep \/ FlowNext
  BY <1>2, KeeperSends, FlowSends, SentIsLife
<1>3. CASE KeeperDies \/ FlowDies \/ \E b \in Bidders : FlowStarts(b)
  BY <1>3 DEF KeeperDies, FlowDies, FlowStarts
<1>4. CASE UNCHANGED crankVars
  BY <1>4 DEF crankVars
<1> QED
  BY <1>1, <1>2, <1>3, <1>4 DEF CrankNext

\* A sealed confession on the rollup, in which nobody has bid yet.
LEMMA SealedStarts == SealedInit => LifeInvariant /\ Engraved /\ FlowIsABidders
<1> SUFFICES ASSUME SealedInit PROVE LifeInvariant /\ Engraved /\ FlowIsABidders
  OBVIOUS
<1>1. /\ MarketInit /\ wallet = [b \in Bidders |-> 0]
      /\ purse = [b \in Bidders |-> [available |-> Funds, locked |-> 0, layer |-> "ER"]]
      /\ home = "ER" /\ commitment = 1 /\ revealed = NoReveal /\ tomb = BlankTomb
      /\ tombstoned = FALSE /\ read_at = FALSE /\ action = FALSE /\ earned = 0
      /\ secret = [layer |-> "ER", body |-> 1, permission |-> "private", members |-> {Author}]
      /\ flow = NoFlow
  BY DEF SealedInit, CrankInit
<1>2. FreshBook
  <2>1. purse \in [Bidders -> PurseRecord] /\ \A b \in Bidders : purse[b].locked = 0
    BY <1>1, PurseAssumption DEF PurseRecord, PurseLayers
  <2> QED
    BY <1>1, <2>1 DEF FreshBook
<1>3. Book
  BY <1>2, BookInit
<1>4. 0 \in 0..MaxSeals /\ 1 \in 0..MaxSeals /\ NoReveal \in Reveal
  BY LifecycleAssumption, CrankAssumption DEF Reveal, NoReveal, Texts
<1>5. secret \in SecretRecord
  BY <1>1, <1>4 DEF SecretRecord
<1>6. tomb \in TombRecord
  BY <1>1, <1>4 DEF TombRecord, BlankTomb, Outcomes
<1>7. LifeTypeOK
  BY <1>1, <1>4, <1>5, <1>6 DEF LifeTypeOK
<1>8. CommittedToBody /\ MembersAreReader
  BY <1>1 DEF CommittedToBody, MembersAreReader
<1>9. ShownOnceSettled /\ OnlyTheVerdictPublishes /\ TombstoneIsTrue /\ Engraved
  BY <1>1 DEF BlankTomb, NoReveal, ShownOnceSettled, OnlyTheVerdictPublishes, TombstoneIsTrue, Engraved
<1>10. FlowIsABidders
  BY <1>1 DEF NoFlow, FlowIsABidders
<1> QED
  BY <1>3, <1>7, <1>8, <1>9, <1>10 DEF LifeInvariant

\* What was proved of every order of the program's instructions holds when the keeper
\* and the browsers send them, race and die.
THEOREM ClientsKeepTheLife == CrankSpec => [](LifeInvariant /\ Engraved)
<1>1. /\ LifeInvariant /\ Engraved /\ FlowIsABidders /\ [CrankNext]_crankVars
           => LifeInvariant' /\ Engraved' /\ FlowIsABidders'
  BY CrankStepsAreLife, LifeKeeps, EngravedStep, FlowStaysTheirs
<1> QED
  BY <1>1, SealedStarts, PTL DEF CrankSpec

\* Whoever wins the race to carve, and however often both tried, the tombstone says
\* what the market says (keeper.ts, tick; flows.ts, resolveMarket).
THEOREM RacedTombstonesAreTrue == CrankSpec => []TombstoneIsTrue
BY ClientsKeepTheLife, PTL DEF LifeInvariant

\* A stranger's verification of what the clients carved succeeds.
THEOREM RacedMarketsVerify == CrankSpec => []BuriedMarketsVerify
<1>1. LifeInvariant /\ Engraved => BuriedMarketsVerify
  BY StoneVerifies
<1> QED
  BY <1>1, ClientsKeepTheLife, PTL

\* No grant of a client, early, late or sent twice, lets in anyone but the reader whom
\* the draw chose and the market names.
THEOREM RacedGrantsLetInTheChosen == CrankSpec => []OnlyTheChosenRead
<1>1. LifeInvariant => OnlyTheChosenRead
  BY ReaderAlone
<1> QED
  BY <1>1, ClientsKeepTheLife, PTL

\* The clients close a book only when every bid is answered and gone, nothing is
\* locked, and the escrow is the author's.
THEOREM RacedBooksAreDone == CrankSpec => []SettledMeansDone
<1>1. LifeInvariant => SettledMeansDone
  BY DoneWhenClosed DEF LifeInvariant, Book
<1> QED
  BY <1>1, ClientsKeepTheLife, PTL

\* The escrow answers every bid, although the keeper settles some, their own bidders
\* settle and close others at once, and either may have been too late.
THEOREM RacedEscrowCovers == CrankSpec => []EscrowCoversClaims
<1>1. LifeInvariant => EscrowCoversClaims
  BY CoveredIsCovers DEF LifeInvariant, Book, Money
<1> QED
  BY <1>1, ClientsKeepTheLife, PTL

\* Though keeper and browser both settle, carve and claim, no lamport is made or lost,
\* and the author is paid once (claim_author).
THEOREM RacedAuthorsArePaid == CrankSpec => []AuthorIsPaidOnce
<1>1. SealedInit => AuthorIsPaidOnce
  <2> SUFFICES ASSUME SealedInit PROVE AuthorIsPaidOnce
    OBVIOUS
  <2>1. Holdings = Funds * Cardinality(Bidders) /\ earned = 0
    BY FilledPursesHoldings DEF SealedInit
  <2>2. Funds * Cardinality(Bidders) \in Int
    BY PurseAssumption, MarketAssumption, FS_CardinalityType
  <2>3. Holdings + earned = Funds * Cardinality(Bidders)
    BY <2>1, <2>2
  <2> QED
    BY <2>3 DEF AuthorIsPaidOnce, Holdings, Available
<1>2. /\ LifeInvariant /\ FlowIsABidders /\ [CrankNext]_crankVars /\ AuthorIsPaidOnce
           => AuthorIsPaidOnce'
  BY CrankStepsAreLife, AuthorsPayStep
<1>3. CrankSpec => []FlowIsABidders
  BY SealedStarts, FlowStaysTheirs, PTL DEF CrankSpec
<1> QED
  BY <1>1, <1>2, <1>3, ClientsKeepTheLife, PTL DEF CrankSpec

\* A client that carves a market already carved is refused.
THEOREM RacedStonesStand == CrankSpec => CarvedForGood
<1>1. ASSUME LifeInvariant, FlowIsABidders, [CrankNext]_crankVars
      PROVE  [tomb.account = "carved" => tomb' = tomb]_allVars
  BY <1>1, CrankStepsAreLife, CarvedStays
<1>2. CrankSpec => []FlowIsABidders
  BY SealedStarts, FlowStaysTheirs, PTL DEF CrankSpec
<1> QED
  BY <1>1, <1>2, ClientsKeepTheLife, PTL DEF CrankSpec, CarvedForGood

----------------------------------------------------------------------------
(* The scripts: what their steps leave behind, and why exit code 0 is      *)
(* evidence.                                                               *)

\* The steps a villager signs.
VillagerSigns == {"deposit", "delegatePurse", "bid", "tryBid", "private", "settle", "trySettle"}

\* Those the script's own keypair signs, and its waits and looks.
Chores == {"create", "shell", "delegate", "delegateSecret", "onER", "secretPermission", "seal",
           "expiry", "expire", "request", "verdict", "rumor", "closeBook", "grant", "headstone",
           "uncarved", "finalize", "home", "carve", "carvedByAction", "evidence", "private?",
           "closed?", "describe"}

\* The steps there are.
ScriptSteps ==
  {step \in [do : VillagerSigns \cup Chores, by : Bidders \cup {Nobody}, side : Sides] :
     step.do \in VillagerSigns => step.by \in Bidders}

\* The steps of one script, in whatever order.
StepsOf(kind) == ToSet(Program[kind].steps)

IsBid(step) == step.do \in {"bid", "tryBid"}

\* What a step that went through leaves behind, for good.  Nothing is claimed of one that
\* settles: it may have passed over a bid that the keeper closed, or that is hidden.
Post(step) ==
  /\ step.do = "bid" => Placed(step.by) /\ bids[step.by].side = step.side
  /\ step.do = "private" =>
       Placed(step.by) /\ (bids[step.by].private \/ bids[step.by].settled)
  /\ step.do = "secretPermission" =>
       /\ secret.permission # "none" /\ Author \in secret.members
       /\ IsConfession(market) => secret.permission = "private"
  /\ step.do = "grant" =>
       /\ secret.permission # "none"
       /\ market.sole_reader # Nobody /\ secret.members = {Author, market.sole_reader}
  /\ step.do = "rumor" => market.outcome = "Forgiven"
  /\ step.do = "closeBook" => market.status = "Settled"
  /\ step.do \in {"carve", "carvedByAction"} => tomb.account = "carved"

\* Where the script is in its list, and that what it has done is done.
ScriptShape ==
  /\ script \in [kind : Kinds, left : Seq(ScriptSteps), ended : {"running", "passed", "failed"},
                 told : {"nothing", "tombstoned on L1", "on the ER", "signed by the validator",
                     "no such transaction"}]
  /\ market.room = Program[script.kind].room
  /\ ToSet(script.left) \subseteq StepsOf(script.kind)
  /\ script.ended = "running" => script.left # <<>>
  /\ script.ended = "passed" => script.left = <<>>
  /\ script.told = "signed by the validator" => script.kind = "magic"
  /\ script.told = "tombstoned on L1" => script.kind = "voted_no"

DoneIsDone == \A step \in StepsOf(script.kind) : step \notin ToSet(script.left) => Post(step)

\* The book holds the script's bids and no others, all of them paid.
OwnBids ==
  \A b \in Bidders : Placed(b) =>
    /\ bids[b].funded
    /\ \E step \in StepsOf(script.kind) : IsBid(step) /\ step.by = b /\ step.side = bids[b].side

\* A market that comes home with its book begun was finalized, and its stone shows
\* what its verdict calls for.
CameHomeShown ==
  /\ home = "none" => market.status = "Open"
  /\ home = "returning" \/ (home = "L1" /\ market.status # "Open") =>
       market.status = "Settled" /\ revealed = RevealOf
  /\ tomb.account = "carved" => tomb.revealed = RevealOf

ScriptInvariant ==
  /\ LifeInvariant /\ Engraved
  /\ ScriptShape /\ DoneIsDone /\ OwnBids /\ CameHomeShown

----------------------------------------------------------------------------
(* Lists of steps.                                                         *)

\* Two lists one after the other have the steps of both.
LEMMA JoinedSteps ==
  ASSUME NEW S, NEW s \in Seq(S), NEW t \in Seq(S)
  PROVE  /\ s \o t \in Seq(S)
         /\ ToSet(s \o t) = ToSet(s) \cup ToSet(t)
         /\ s # <<>> => s \o t # <<>>
<1>1. /\ s \o t \in Seq(S) /\ Len(s \o t) = Len(s) + Len(t)
      /\ \A i \in 1..Len(s) + Len(t) : (s \o t)[i] = IF i <= Len(s) THEN s[i] ELSE t[i - Len(s)]
  BY ConcatProperties
<1>2. /\ Len(s) \in Nat /\ Len(t) \in Nat /\ DOMAIN s = 1..Len(s) /\ DOMAIN t = 1..Len(t)
      /\ DOMAIN (s \o t) = 1..Len(s) + Len(t)
  BY <1>1, LenProperties
<1>3. ASSUME NEW i \in 1..Len(s) + Len(t)
      PROVE  (s \o t)[i] \in ToSet(s) \cup ToSet(t)
  <2>1. CASE i <= Len(s)
    BY <1>1, <1>2, <2>1 DEF ToSet
  <2>2. CASE ~(i <= Len(s))
    <3>1. i - Len(s) \in DOMAIN t
      BY <1>2, <2>2
    <3> QED
      BY <1>1, <2>2, <3>1 DEF ToSet
  <2> QED
    BY <2>1, <2>2
<1>4. ASSUME NEW i \in DOMAIN s PROVE s[i] \in ToSet(s \o t)
  <2>1. i \in 1..Len(s) + Len(t) /\ (s \o t)[i] = s[i]
    BY <1>1, <1>2
  <2> QED
    BY <1>2, <2>1 DEF ToSet
<1>5. ASSUME NEW i \in DOMAIN t PROVE t[i] \in ToSet(s \o t)
  <2>1. i + Len(s) \in 1..Len(s) + Len(t) /\ (s \o t)[i + Len(s)] = t[i]
    BY <1>1, <1>2
  <2> QED
    BY <1>2, <2>1 DEF ToSet
<1>6. ToSet(s \o t) \subseteq ToSet(s) \cup ToSet(t)
  BY <1>2, <1>3 DEF ToSet
<1>7. ToSet(s) \subseteq ToSet(s \o t) /\ ToSet(t) \subseteq ToSet(s \o t)
  BY <1>4, <1>5 DEF ToSet
<1>8. s # <<>> => s \o t # <<>>
  BY ConcatEqualIffEmpty, <1>1, <1>2
<1> QED
  BY <1>1, <1>6, <1>7, <1>8

\* A list is its first step and the rest.
LEMMA StepTaken ==
  ASSUME NEW S, NEW s \in Seq(S), s # <<>>
  PROVE  /\ Head(s) \in ToSet(s) /\ Tail(s) \in Seq(S)
         /\ ToSet(s) = {Head(s)} \cup ToSet(Tail(s))
         /\ Len(s) = 1 <=> Tail(s) = <<>>
<1>1. /\ Len(s) \in Nat \ {0} /\ DOMAIN s = 1..Len(s) /\ Head(s) = s[1]
      /\ Tail(s) \in Seq(S) /\ Len(Tail(s)) = Len(s) - 1 /\ DOMAIN Tail(s) = 1..(Len(s) - 1)
      /\ \A i \in 1..(Len(s) - 1) : Tail(s)[i] = s[i + 1]
  BY EmptySeq, LenProperties
<1>2. Head(s) \in ToSet(s)
  BY <1>1 DEF ToSet
<1>3. ASSUME NEW i \in DOMAIN s PROVE s[i] \in {Head(s)} \cup ToSet(Tail(s))
  <2>1. CASE i = 1
    BY <1>1, <2>1
  <2>2. CASE i # 1
    <3>1. i - 1 \in DOMAIN Tail(s) /\ Tail(s)[i - 1] = s[i]
      BY <1>1, <2>2
    <3> QED
      BY <3>1 DEF ToSet
  <2> QED
    BY <2>1, <2>2
<1>4. ASSUME NEW i \in DOMAIN Tail(s) PROVE Tail(s)[i] \in ToSet(s)
  <2>1. i + 1 \in DOMAIN s /\ s[i + 1] = Tail(s)[i]
    BY <1>1
  <2> QED
    BY <2>1 DEF ToSet
<1>5. ToSet(s) = {Head(s)} \cup ToSet(Tail(s))
  BY <1>2, <1>3, <1>4 DEF ToSet
<1>6. Len(s) = 1 <=> Tail(s) = <<>>
  <2>1. Len(Tail(s)) = 0 <=> Tail(s) = <<>>
    BY <1>1, EmptySeq
  <2> QED
    BY <1>1, <2>1
<1> QED
  BY <1>1, <1>2, <1>5, <1>6

\* FlattenSeq, of no list, of one and of two.
LEMMA Flattened ==
  ASSUME NEW S, NEW lists \in Seq(Seq(S))
  PROVE  /\ Len(lists) = 0 => FlattenSeq(lists) = <<>>
         /\ Len(lists) = 1 => FlattenSeq(lists) = lists[1]
         /\ Len(lists) = 2 => FlattenSeq(lists) = lists[1] \o lists[2]
<1>1. Len(lists) = 0 => FlattenSeq(lists) = <<>>
  BY DEF FlattenSeq
<1>2. ASSUME NEW n \in {1, 2}, Len(lists) = n
      PROVE  FlattenSeq(lists) = IF n = 1 THEN lists[1] ELSE lists[1] \o lists[2]
  <2> DEFINE Flat(f) == [i \in 1..Len(lists) |-> IF i = 1 THEN lists[i] ELSE f[i - 1] \o lists[i]]
             flat == CHOOSE f : f = Flat(f)
             g == [i \in 1..Len(lists) |-> IF i = 1 THEN lists[1] ELSE lists[1] \o lists[2]]
  <2>1. FlattenSeq(lists) = flat[Len(lists)]
    <3>1. Len(lists) # 0
      BY <1>2
    <3> QED
      BY <3>1, Zenon DEF FlattenSeq
  <2>2. g = Flat(g)
    <3>1. ASSUME NEW i \in 1..Len(lists)
          PROVE  g[i] = IF i = 1 THEN lists[i] ELSE g[i - 1] \o lists[i]
      <4>1. CASE i = 1
        BY <4>1
      <4>2. CASE i # 1
        <5>1. i = 2 /\ Len(lists) = 2 /\ i - 1 = 1
          BY <1>2, <4>2
        <5>2. g[1] = lists[1] /\ g[2] = lists[1] \o lists[2]
          BY <5>1
        <5> QED
          BY <5>1, <5>2
      <4> QED
        BY <4>1, <4>2
    <3> HIDE DEF g
    <3>2. g = [i \in 1..Len(lists) |-> g[i]]
      BY DEF g
    <3> QED
      BY <3>1, <3>2
  <2>3. flat = Flat(flat)
    <3> HIDE DEF g
    <3>1. \E f : f = Flat(f)
      BY <2>2
    <3> QED
      BY <3>1, Zenon
  <2> HIDE DEF flat
  <2>4. \A i \in 1..Len(lists) : flat[i] = IF i = 1 THEN lists[i] ELSE flat[i - 1] \o lists[i]
    <3> DEFINE h == Flat(flat)
    <3>1. \A i \in 1..Len(lists) : h[i] = IF i = 1 THEN lists[i] ELSE flat[i - 1] \o lists[i]
      OBVIOUS
    <3>2. flat = h
      BY <2>3
    <3> HIDE DEF h
    <3> QED
      BY <3>1, <3>2
  <2>5. 1 \in 1..Len(lists) /\ (n = 2 => 2 \in 1..Len(lists))
    BY <1>2
  <2>6. flat[1] = lists[1]
    BY <2>4, <2>5
  <2>7. CASE n = 1
    BY <1>2, <2>1, <2>6, <2>7
  <2>8. CASE n = 2
    <3>1. flat[2] = IF 2 = 1 THEN lists[2] ELSE flat[2 - 1] \o lists[2]
      BY <2>4, <2>5, <2>8
    <3>2. flat[2] = flat[1] \o lists[2]
      BY <3>1
    <3> QED
      BY <1>2, <2>1, <2>6, <2>8, <3>2
  <2> QED
    BY <2>7, <2>8
<1>3. Len(lists) = 1 => FlattenSeq(lists) = lists[1]
  BY <1>2
<1>4. Len(lists) = 2 => FlattenSeq(lists) = lists[1] \o lists[2]
  <2> SUFFICES ASSUME Len(lists) = 2 PROVE FlattenSeq(lists) = lists[1] \o lists[2]
    OBVIOUS
  <2>1. FlattenSeq(lists) = IF 2 = 1 THEN lists[1] ELSE lists[1] \o lists[2]
    BY <1>2
  <2> QED
    BY <2>1
<1> QED
  BY <1>1, <1>3, <1>4
----------------------------------------------------------------------------
(* What is on the scripts' lists.                                          *)

\* Steps as the scripts write them are steps.
LEMMA StepsAreSteps ==
  /\ \A do \in Chores : Do(do) \in ScriptSteps
  /\ \A do \in VillagerSigns, b \in Bidders, side \in Sides : By(do, b, side) \in ScriptSteps
<1>1. Chores \cap VillagerSigns = {} /\ "Seal" \in Sides
  BY DEF Chores, VillagerSigns, Sides
<1> QED
  BY <1>1 DEF Do, By, ScriptSteps

\* A step's name, signer and side.
LEMMA StepFields ==
  /\ \A do : Do(do).do = do
  /\ \A do, b, side : By(do, b, side).do = do /\ By(do, b, side).by = b /\ By(do, b, side).side = side
BY DEF Do, By

\* The steps of a list that is written out: of one step,
LEMMA OneStep ==
  ASSUME NEW S, NEW a \in S
  PROVE  <<a>> \in Seq(S) /\ ToSet(<<a>>) = {a}
<1>1. DOMAIN <<a>> = {1} /\ <<a>>[1] = a
  OBVIOUS
<1> QED
  BY <1>1 DEF ToSet

\* of two,
LEMMA TwoSteps ==
  ASSUME NEW S, NEW a \in S, NEW b \in S
  PROVE  <<a, b>> \in Seq(S) /\ ToSet(<<a, b>>) = {a, b}
<1>1. DOMAIN <<a, b>> = {1, 2} /\ <<a, b>>[1] = a /\ <<a, b>>[2] = b
  OBVIOUS
<1> QED
  BY <1>1 DEF ToSet

\* of three,
LEMMA ThreeSteps ==
  ASSUME NEW S, NEW a \in S, NEW b \in S, NEW c \in S
  PROVE  <<a, b, c>> \in Seq(S) /\ ToSet(<<a, b, c>>) = {a, b, c}
<1> DEFINE s == <<a, b, c>>
<1>1. DOMAIN s = {1, 2, 3} /\ s[1] = a /\ s[2] = b /\ s[3] = c /\ s \in Seq(S)
  OBVIOUS
<1> HIDE DEF s
<1> QED
  BY <1>1 DEF ToSet

\* and of four.
LEMMA FourSteps ==
  ASSUME NEW S, NEW a \in S, NEW b \in S, NEW c \in S, NEW d \in S
  PROVE  <<a, b, c, d>> \in Seq(S) /\ ToSet(<<a, b, c, d>>) = {a, b, c, d}
<1> DEFINE s == <<a, b, c, d>>
<1>1. DOMAIN s = {1, 2, 3, 4} /\ s[1] = a /\ s[2] = b /\ s[3] = c /\ s[4] = d /\ s \in Seq(S)
  OBVIOUS
<1> HIDE DEF s
<1> QED
  BY <1>1 DEF ToSet

\* The steps that every script has.
LEMMA PlainLists ==
  /\ \A s \in {Confess, Resolve, Bury} :
       /\ s \in Seq(ScriptSteps)
       /\ \A step \in ToSet(s) : ~IsBid(step) /\ step.do # "evidence"
  /\ Confess # <<>> /\ Do("secretPermission") \in ToSet(Confess)
  /\ Do("carve") \in ToSet(Bury)
<1>1. \A do \in {"create", "shell", "delegate", "delegateSecret", "onER", "secretPermission", "seal",
                 "expiry", "expire", "request", "verdict", "finalize", "home", "carve"} :
        Do(do) \in ScriptSteps
  BY StepsAreSteps DEF Chores
<1>2. /\ Confess \in Seq(ScriptSteps)
      /\ ToSet(Confess) = {Do("create"), Do("shell"), Do("delegate"), Do("delegateSecret"),
                           Do("onER"), Do("secretPermission"), Do("seal")}
  <2>1. /\ Do("create") \in ScriptSteps /\ Do("shell") \in ScriptSteps
        /\ Do("delegate") \in ScriptSteps /\ Do("delegateSecret") \in ScriptSteps
        /\ Do("onER") \in ScriptSteps /\ Do("secretPermission") \in ScriptSteps
        /\ Do("seal") \in ScriptSteps
    BY <1>1
  <2>2. /\ DOMAIN Confess = {1, 2, 3, 4, 5, 6, 7}
        /\ Confess[1] = Do("create") /\ Confess[2] = Do("shell") /\ Confess[3] = Do("delegate")
        /\ Confess[4] = Do("delegateSecret") /\ Confess[5] = Do("onER")
        /\ Confess[6] = Do("secretPermission") /\ Confess[7] = Do("seal")
    BY DEF Confess
  <2>3. Confess \in Seq(ScriptSteps)
    BY <2>1 DEF Confess
  <2> QED
    BY <2>2, <2>3 DEF ToSet
<1>3. /\ Resolve \in Seq(ScriptSteps)
      /\ ToSet(Resolve) = {Do("expiry"), Do("expire"), Do("request"), Do("verdict")}
  BY <1>1, FourSteps DEF Resolve
<1>4. /\ Bury \in Seq(ScriptSteps)
      /\ ToSet(Bury) = {Do("finalize"), Do("home"), Do("carve")}
  BY <1>1, ThreeSteps DEF Bury
<1>5. \A step \in ToSet(Confess) \cup ToSet(Resolve) \cup ToSet(Bury) :
        ~IsBid(step) /\ step.do # "evidence"
  BY <1>2, <1>3, <1>4, StepFields DEF IsBid
<1>6. Confess # <<>>
  BY DEF Confess
<1> QED
  BY <1>2, <1>3, <1>4, <1>5, <1>6

\* The bid of a script's i-th villager.
BidOf(i, side) == [by |-> Villagers[i], side |-> side]

\* The steps of one bid.
LEMMA BidLists ==
  ASSUME NEW i \in {1, 2}, NEW side \in Sides
  PROVE  LET bid == BidOf(i, side) IN
         /\ bid.by = Villagers[i] /\ Villagers[i] \in Bidders /\ bid.side = side
         /\ Funding(bid) \in Seq(ScriptSteps) /\ Funding(bid) # <<>>
         /\ ToSet(Funding(bid)) = {By("deposit", Villagers[i], "Seal"),
                                   By("delegatePurse", Villagers[i], "Seal")}
         /\ Bidding(bid) \in Seq(ScriptSteps)
         /\ ToSet(Bidding(bid)) = {By("bid", Villagers[i], side), By("private", Villagers[i], side)}
         /\ SmokeBids(bid) \in Seq(ScriptSteps)
         /\ ToSet(SmokeBids(bid)) = {By("tryBid", Villagers[i], side),
                                     By("private", Villagers[i], side)}
         /\ Settling(bid) \in Seq(ScriptSteps)
         /\ ToSet(Settling(bid)) = {By("settle", Villagers[i], side)}
<1> DEFINE bid == BidOf(i, side)
           b == Villagers[i]
<1>1. b \in Bidders
  BY ScriptAssumption
<1>2. bid.by = b /\ bid.side = side
  BY DEF BidOf
<1> HIDE DEF bid, b
<1>3. \A do \in VillagerSigns, s \in Sides : By(do, b, s) \in ScriptSteps
  BY <1>1, StepsAreSteps
<1>4. /\ By("deposit", b, "Seal") \in ScriptSteps /\ By("delegatePurse", b, "Seal") \in ScriptSteps
      /\ By("bid", b, side) \in ScriptSteps /\ By("tryBid", b, side) \in ScriptSteps
      /\ By("private", b, side) \in ScriptSteps /\ By("settle", b, side) \in ScriptSteps
  <2>1. "Seal" \in Sides /\ \A do \in {"deposit", "delegatePurse", "bid", "tryBid", "private", "settle"} :
                              do \in VillagerSigns
    BY DEF Sides, VillagerSigns
  <2> QED
    BY <1>3, <2>1
<1>5. /\ Funding(bid) = <<By("deposit", b, "Seal"), By("delegatePurse", b, "Seal")>>
      /\ Bidding(bid) = <<By("bid", b, side), By("private", b, side)>>
      /\ SmokeBids(bid) = <<By("tryBid", b, side), By("private", b, side)>>
      /\ Settling(bid) = <<By("settle", b, side)>>
  BY <1>2 DEF Funding, Bidding, SmokeBids, Settling
<1>6. Funding(bid) # <<>>
  BY <1>5
<1> QED
  BY <1>1, <1>2, <1>4, <1>5, <1>6, OneStep, TwoSteps DEF bid, b

\* A list made for one bid is what that bid takes.
LEMMA EachOfOne ==
  ASSUME NEW side \in Sides
  PROVE  LET bidding == Bids(1, <<side>>)
             bid == BidOf(1, side)
         IN  /\ bidding[1] = bid
             /\ Each(bidding, Funding) = Funding(bid)
             /\ Each(bidding, Bidding) = Bidding(bid)
             /\ Each(bidding, Settling) = Settling(bid)
<1> DEFINE bidding == Bids(1, <<side>>)
           bid == BidOf(1, side)
<1>1. bidding[1] = bid /\ DOMAIN bidding = 1..1
  BY DEF Bids, BidOf
<1>2. /\ Funding(bid) \in Seq(ScriptSteps) /\ Bidding(bid) \in Seq(ScriptSteps)
      /\ Settling(bid) \in Seq(ScriptSteps)
  BY BidLists
<1> HIDE DEF bidding, bid
<1>3. ASSUME NEW f, DOMAIN f = 1..1, f = [i \in DOMAIN f |-> f[i]], f[1] \in Seq(ScriptSteps)
      PROVE  FlattenSeq(f) = f[1]
  <2>1. f = <<f[1]>>
    BY <1>3
  <2>2. <<f[1]>> \in Seq(Seq(ScriptSteps)) /\ Len(<<f[1]>>) = 1
    BY <1>3
  <2> QED
    BY <2>1, <2>2, Flattened
<1>4. Each(bidding, Funding) = Funding(bid)
  <2> DEFINE f == [i \in DOMAIN bidding |-> Funding(bidding[i])]
  <2>1. DOMAIN f = 1..1 /\ f = [i \in DOMAIN f |-> f[i]] /\ f[1] = Funding(bid)
    BY <1>1
  <2>2. Each(bidding, Funding) = FlattenSeq(f)
    BY DEF Each
  <2> HIDE DEF f
  <2> QED
    BY <1>2, <1>3, <2>1, <2>2
<1>5. Each(bidding, Bidding) = Bidding(bid)
  <2> DEFINE f == [i \in DOMAIN bidding |-> Bidding(bidding[i])]
  <2>1. DOMAIN f = 1..1 /\ f = [i \in DOMAIN f |-> f[i]] /\ f[1] = Bidding(bid)
    BY <1>1
  <2>2. Each(bidding, Bidding) = FlattenSeq(f)
    BY DEF Each
  <2> HIDE DEF f
  <2> QED
    BY <1>2, <1>3, <2>1, <2>2
<1>6. Each(bidding, Settling) = Settling(bid)
  <2> DEFINE f == [i \in DOMAIN bidding |-> Settling(bidding[i])]
  <2>1. DOMAIN f = 1..1 /\ f = [i \in DOMAIN f |-> f[i]] /\ f[1] = Settling(bid)
    BY <1>1
  <2>2. Each(bidding, Settling) = FlattenSeq(f)
    BY DEF Each
  <2> HIDE DEF f
  <2> QED
    BY <1>2, <1>3, <2>1, <2>2
<1> QED
  BY <1>1, <1>4, <1>5, <1>6 DEF bidding, bid

\* What each of two bids takes, one after the other.
LEMMA EachOfTwo ==
  ASSUME NEW side \in Sides, NEW other \in Sides
  PROVE  LET bidding == Bids(2, <<side, other>>)
             bid == BidOf(1, side)
             next == BidOf(2, other)
         IN  /\ Each(bidding, Funding) = Funding(bid) \o Funding(next)
             /\ Each(bidding, Bidding) = Bidding(bid) \o Bidding(next)
             /\ Each(bidding, Settling) = Settling(bid) \o Settling(next)
<1> DEFINE bidding == Bids(2, <<side, other>>)
           bid == BidOf(1, side)
           next == BidOf(2, other)
<1>1. bidding[1] = bid /\ bidding[2] = next /\ DOMAIN bidding = 1..2
  BY DEF Bids, BidOf
<1>2. /\ Funding(bid) \in Seq(ScriptSteps) /\ Bidding(bid) \in Seq(ScriptSteps)
      /\ Settling(bid) \in Seq(ScriptSteps)
      /\ Funding(next) \in Seq(ScriptSteps) /\ Bidding(next) \in Seq(ScriptSteps)
      /\ Settling(next) \in Seq(ScriptSteps)
  BY BidLists
<1> HIDE DEF bidding, bid, next
<1>3. ASSUME NEW f, DOMAIN f = 1..2, f = [i \in DOMAIN f |-> f[i]],
             f[1] \in Seq(ScriptSteps), f[2] \in Seq(ScriptSteps)
      PROVE  FlattenSeq(f) = f[1] \o f[2]
  <2>1. f = <<f[1], f[2]>>
    BY <1>3
  <2>2. <<f[1], f[2]>> \in Seq(Seq(ScriptSteps)) /\ Len(<<f[1], f[2]>>) = 2
    BY <1>3
  <2> QED
    BY <2>1, <2>2, Flattened
<1>4. Each(bidding, Funding) = Funding(bid) \o Funding(next)
  <2> DEFINE f == [i \in DOMAIN bidding |-> Funding(bidding[i])]
  <2>1. /\ DOMAIN f = 1..2 /\ f = [i \in DOMAIN f |-> f[i]]
        /\ f[1] = Funding(bid) /\ f[2] = Funding(next)
    BY <1>1
  <2>2. Each(bidding, Funding) = FlattenSeq(f)
    BY DEF Each
  <2> HIDE DEF f
  <2> QED
    BY <1>2, <1>3, <2>1, <2>2
<1>5. Each(bidding, Bidding) = Bidding(bid) \o Bidding(next)
  <2> DEFINE f == [i \in DOMAIN bidding |-> Bidding(bidding[i])]
  <2>1. /\ DOMAIN f = 1..2 /\ f = [i \in DOMAIN f |-> f[i]]
        /\ f[1] = Bidding(bid) /\ f[2] = Bidding(next)
    BY <1>1
  <2>2. Each(bidding, Bidding) = FlattenSeq(f)
    BY DEF Each
  <2> HIDE DEF f
  <2> QED
    BY <1>2, <1>3, <2>1, <2>2
<1>6. Each(bidding, Settling) = Settling(bid) \o Settling(next)
  <2> DEFINE f == [i \in DOMAIN bidding |-> Settling(bidding[i])]
  <2>1. /\ DOMAIN f = 1..2 /\ f = [i \in DOMAIN f |-> f[i]]
        /\ f[1] = Settling(bid) /\ f[2] = Settling(next)
    BY <1>1
  <2>2. Each(bidding, Settling) = FlattenSeq(f)
    BY DEF Each
  <2> HIDE DEF f
  <2> QED
    BY <1>2, <1>3, <2>1, <2>2
<1> QED
  BY <1>4, <1>5, <1>6 DEF bidding, bid, next

\* And for no bid.
LEMMA EachOfNone == Each(<<>>, Funding) = <<>> /\ Each(<<>>, Bidding) = <<>>
<1>1. /\ [i \in DOMAIN <<>> |-> Funding(<<>>[i])] = <<>>
      /\ [i \in DOMAIN <<>> |-> Bidding(<<>>[i])] = <<>>
  OBVIOUS
<1>2. <<>> \in Seq(Seq(ScriptSteps)) /\ Len(<<>>) = 0
  OBVIOUS
<1>3. FlattenSeq(<<>>) = <<>>
  BY <1>2, Flattened
<1> QED
  BY <1>1, <1>3 DEF Each

\* A list, and what is on it.
ListOf(s, steps) == s \in Seq(ScriptSteps) /\ ToSet(s) = steps

\* Lists put together, and a list that has something on it.
LEMMA Together ==
  /\ \A s, t, S, T : ListOf(s, S) /\ ListOf(t, T) => ListOf(s \o t, S \cup T)
  /\ ListOf(<<>>, {})
  /\ \A s, S, step : ListOf(s, S) /\ step \in S => s # <<>>
<1>1. ToSet(<<>>) = {}
  BY DEF ToSet
<1>2. ASSUME NEW s \in Seq(ScriptSteps), NEW t \in Seq(ScriptSteps)
      PROVE  s \o t \in Seq(ScriptSteps) /\ ToSet(s \o t) = ToSet(s) \cup ToSet(t)
  BY JoinedSteps
<1> QED
  BY <1>1, <1>2 DEF ListOf

\* The bids of the market are one to read, of the first villager.
LEMMA SmokeList ==
  /\ Smoke \in Seq(ScriptSteps) /\ Smoke # <<>>
  /\ {Do("secretPermission"), Do("grant"), Do("carve"), By("private", Villagers[1], "Read")}
       \subseteq ToSet(Smoke)
  /\ \A step \in ToSet(Smoke) : step.do # "evidence" /\ (IsBid(step) => step.side = "Read")
<1> DEFINE bid == BidOf(1, "Read")
           mid == <<By("trySettle", Villagers[1], "Read"), Do("closeBook"), Do("grant")>>
           funding == {By("deposit", Villagers[1], "Seal"), By("delegatePurse", Villagers[1], "Seal")}
           bidding == {By("tryBid", Villagers[1], "Read"), By("private", Villagers[1], "Read")}
           ending == {By("trySettle", Villagers[1], "Read"), Do("closeBook"), Do("grant")}
<1>1. "Read" \in Sides /\ 1 \in {1, 2}
  BY DEF Sides
<1>2. /\ bid.by = Villagers[1] /\ bid.side = "Read" /\ Villagers[1] \in Bidders
      /\ Funding(bid) \in Seq(ScriptSteps) /\ ToSet(Funding(bid)) = funding
      /\ SmokeBids(bid) \in Seq(ScriptSteps) /\ ToSet(SmokeBids(bid)) = bidding
  BY <1>1, BidLists
<1>3. mid \in Seq(ScriptSteps) /\ ToSet(mid) = ending
  <2>1. /\ By("trySettle", Villagers[1], "Read") \in ScriptSteps
        /\ Do("closeBook") \in ScriptSteps /\ Do("grant") \in ScriptSteps
    BY <1>1, <1>2, StepsAreSteps DEF VillagerSigns, Chores
  <2> QED
    BY <2>1, ThreeSteps
<1>4. Smoke = ((Confess \o Funding(bid)) \o SmokeBids(bid)) \o ((Resolve \o mid) \o Bury)
  <2>1. Bids(1, <<"Read">>)[1] = bid
    BY <1>1, EachOfOne
  <2> HIDE DEF bid
  <2> QED
    BY <1>2, <2>1 DEF Smoke, SmokeOpens, SmokeEnds
<1>5. \A step \in funding \cup bidding \cup ending :
        step.do # "evidence" /\ (IsBid(step) => step.side = "Read")
  BY StepFields DEF IsBid
<1>6. By("private", Villagers[1], "Read") \in bidding /\ Do("grant") \in ending
  OBVIOUS
<1> HIDE DEF bid, mid, funding, bidding, ending
<1>7. ListOf(Smoke, ((ToSet(Confess) \cup funding) \cup bidding)
                      \cup ((ToSet(Resolve) \cup ending) \cup ToSet(Bury)))
  <2>1. /\ ListOf(Funding(bid), funding) /\ ListOf(SmokeBids(bid), bidding) /\ ListOf(mid, ending)
        /\ ListOf(Confess, ToSet(Confess)) /\ ListOf(Resolve, ToSet(Resolve))
        /\ ListOf(Bury, ToSet(Bury))
    BY <1>2, <1>3, PlainLists DEF ListOf
  <2> QED
    BY <1>4, <2>1, Together, Zenon
<1> QED
  BY <1>5, <1>6, <1>7, Together, PlainLists DEF ListOf

\* A list with a bid to hide after each bid, and no look for evidence.
SeededWell(list) ==
  /\ list \in Seq(ScriptSteps) /\ list # <<>>
  /\ \A step \in ToSet(list) :
       /\ step.do # "evidence"
       /\ step.do = "bid" => \E made \in ToSet(list) : made.do = "private" /\ made.by = step.by

\* A seeded market's bids are each made private, and nothing else is claimed of it.
LEMMA SeedOfOneList ==
  ASSUME NEW side \in Sides
  PROVE  SeededWell(Seed(Bids(1, <<side>>), FALSE))
<1> DEFINE list == Seed(Bids(1, <<side>>), FALSE)
           bid == BidOf(1, side)
           funding == {By("deposit", Villagers[1], "Seal"), By("delegatePurse", Villagers[1], "Seal")}
           bidding == {By("bid", Villagers[1], side), By("private", Villagers[1], side)}
<1>1. /\ Funding(bid) \in Seq(ScriptSteps) /\ ToSet(Funding(bid)) = funding
      /\ Bidding(bid) \in Seq(ScriptSteps) /\ ToSet(Bidding(bid)) = bidding
  BY BidLists
<1>2. <<Do("describe")>> \in Seq(ScriptSteps) /\ ToSet(<<Do("describe")>>) = {Do("describe")}
  <2>1. Do("describe") \in ScriptSteps
    BY StepsAreSteps DEF Chores
  <2> QED
    BY <2>1, OneStep
<1>3. list = (((Funding(bid) \o Confess) \o Bidding(bid)) \o <<>>) \o <<Do("describe")>>
  BY EachOfOne DEF Seed, SeedPurses, SeedBids
<1>4. /\ \A step \in funding \cup bidding \cup {Do("describe")} :
           /\ step.do # "evidence"
           /\ step.do = "bid" => step.by = Villagers[1]
      /\ \E made \in bidding : made.do = "private" /\ made.by = Villagers[1]
  BY StepFields
<1> HIDE DEF list, bid, funding, bidding
<1>5. ListOf(list, (((funding \cup ToSet(Confess)) \cup bidding) \cup {}) \cup {Do("describe")})
  <2>1. /\ ListOf(Funding(bid), funding) /\ ListOf(Bidding(bid), bidding)
        /\ ListOf(Confess, ToSet(Confess)) /\ ListOf(<<Do("describe")>>, {Do("describe")})
    BY <1>1, <1>2, Together, PlainLists DEF ListOf
  <2> QED
    BY <1>3, <2>1, Together, Zenon
<1>6. \A step \in ToSet(Confess) : step.do # "evidence" /\ step.do # "bid"
  BY PlainLists DEF IsBid
<1> QED
  BY <1>4, <1>5, <1>6, Together DEF list, ListOf, SeededWell

\* The same of a seeded market with two bids.
LEMMA SeedOfTwoList ==
  ASSUME NEW side \in Sides, NEW other \in Sides
  PROVE  SeededWell(Seed(Bids(2, <<side, other>>), FALSE))
<1> DEFINE list == Seed(Bids(2, <<side, other>>), FALSE)
           bid == BidOf(1, side)
           next == BidOf(2, other)
           funding == {By("deposit", Villagers[1], "Seal"), By("delegatePurse", Villagers[1], "Seal")}
                        \cup {By("deposit", Villagers[2], "Seal"),
                              By("delegatePurse", Villagers[2], "Seal")}
           bidding == {By("bid", Villagers[1], side), By("private", Villagers[1], side)}
                        \cup {By("bid", Villagers[2], other), By("private", Villagers[2], other)}
<1>1. /\ Funding(bid) \in Seq(ScriptSteps) /\ Funding(next) \in Seq(ScriptSteps)
      /\ ListOf(Funding(bid) \o Funding(next), funding)
      /\ Bidding(bid) \in Seq(ScriptSteps) /\ Bidding(next) \in Seq(ScriptSteps)
      /\ ListOf(Bidding(bid) \o Bidding(next), bidding)
  <2>1. /\ ListOf(Funding(bid), {By("deposit", Villagers[1], "Seal"),
                                 By("delegatePurse", Villagers[1], "Seal")})
        /\ ListOf(Funding(next), {By("deposit", Villagers[2], "Seal"),
                                  By("delegatePurse", Villagers[2], "Seal")})
        /\ ListOf(Bidding(bid), {By("bid", Villagers[1], side), By("private", Villagers[1], side)})
        /\ ListOf(Bidding(next), {By("bid", Villagers[2], other), By("private", Villagers[2], other)})
    BY BidLists DEF ListOf
  <2>2. ListOf(Funding(bid) \o Funding(next), funding)
    BY <2>1, Together, Zenon
  <2>3. ListOf(Bidding(bid) \o Bidding(next), bidding)
    BY <2>1, Together, Zenon
  <2> QED
    BY <2>1, <2>2, <2>3 DEF ListOf
<1>2. <<Do("describe")>> \in Seq(ScriptSteps) /\ ToSet(<<Do("describe")>>) = {Do("describe")}
  <2>1. Do("describe") \in ScriptSteps
    BY StepsAreSteps DEF Chores
  <2> QED
    BY <2>1, OneStep
<1>3. list = ((((Funding(bid) \o Funding(next)) \o Confess) \o (Bidding(bid) \o Bidding(next)))
                \o <<>>) \o <<Do("describe")>>
  BY EachOfTwo DEF Seed, SeedPurses, SeedBids
<1>4. /\ \A step \in funding \cup bidding \cup {Do("describe")} :
           /\ step.do # "evidence"
           /\ step.do = "bid" => step.by \in {Villagers[1], Villagers[2]}
      /\ \A b \in {Villagers[1], Villagers[2]} :
           \E made \in bidding : made.do = "private" /\ made.by = b
  BY StepFields
<1> HIDE DEF list, bid, next, funding, bidding
<1>5. ListOf(list, (((funding \cup ToSet(Confess)) \cup bidding) \cup {}) \cup {Do("describe")})
  <2>1. /\ ListOf(Funding(bid) \o Funding(next), funding) /\ ListOf(Bidding(bid) \o Bidding(next), bidding)
        /\ ListOf(Confess, ToSet(Confess)) /\ ListOf(<<Do("describe")>>, {Do("describe")})
    BY <1>1, <1>2, Together, PlainLists DEF ListOf
  <2> QED
    BY <1>3, <2>1, Together, Zenon
<1>6. \A step \in ToSet(Confess) : step.do # "evidence" /\ step.do # "bid"
  BY PlainLists DEF IsBid
<1> QED
  BY <1>4, <1>5, <1>6, Together DEF list, ListOf, SeededWell

\* The lists that are made for one bid.
LEMMA OneBidLists ==
  ASSUME NEW side \in Sides
  PROVE  LET bidding == Bids(1, <<side>>) IN
         /\ ListOf(SeedPurses(bidding), {By("deposit", Villagers[1], "Seal"),
                                         By("delegatePurse", Villagers[1], "Seal")})
         /\ ListOf(Each(bidding, Bidding),
                   {By("bid", Villagers[1], side), By("private", Villagers[1], side)})
         /\ ListOf(SettleAll(bidding), {By("settle", Villagers[1], side)} \cup {Do("closeBook")})
<1>1. ListOf(<<Do("closeBook")>>, {Do("closeBook")})
  <2>1. Do("closeBook") \in ScriptSteps
    BY StepsAreSteps DEF Chores
  <2> QED
    BY <2>1, OneStep DEF ListOf
<1>2. LET bid == BidOf(1, side) IN
      /\ ListOf(Funding(bid), {By("deposit", Villagers[1], "Seal"),
                               By("delegatePurse", Villagers[1], "Seal")})
      /\ ListOf(Bidding(bid), {By("bid", Villagers[1], side), By("private", Villagers[1], side)})
      /\ ListOf(Settling(bid), {By("settle", Villagers[1], side)})
  BY BidLists DEF ListOf
<1>3. LET bid == BidOf(1, side) IN
        ListOf(Settling(bid) \o <<Do("closeBook")>>,
               {By("settle", Villagers[1], side)} \cup {Do("closeBook")})
  BY <1>1, <1>2, Together, Zenon
<1> QED
  BY <1>2, <1>3, EachOfOne DEF SeedPurses, SettleAll

\* The lists of two bids: what each takes.
LEMMA TwoBidLists ==
  ASSUME NEW side \in Sides, NEW other \in Sides
  PROVE  LET bidding == Bids(2, <<side, other>>) IN
         /\ ListOf(SeedPurses(bidding),
                   {By("deposit", Villagers[1], "Seal"), By("delegatePurse", Villagers[1], "Seal")}
                     \cup {By("deposit", Villagers[2], "Seal"),
                           By("delegatePurse", Villagers[2], "Seal")})
         /\ ListOf(Each(bidding, Bidding),
                   {By("bid", Villagers[1], side), By("private", Villagers[1], side)}
                     \cup {By("bid", Villagers[2], other), By("private", Villagers[2], other)})
         /\ ListOf(SettleAll(bidding),
                   ({By("settle", Villagers[1], side)} \cup {By("settle", Villagers[2], other)})
                     \cup {Do("closeBook")})
<1> DEFINE bid == BidOf(1, side)
           next == BidOf(2, other)
<1>1. ListOf(<<Do("closeBook")>>, {Do("closeBook")})
  <2>1. Do("closeBook") \in ScriptSteps
    BY StepsAreSteps DEF Chores
  <2> QED
    BY <2>1, OneStep DEF ListOf
<1>2. /\ ListOf(Funding(bid), {By("deposit", Villagers[1], "Seal"),
                               By("delegatePurse", Villagers[1], "Seal")})
      /\ ListOf(Funding(next), {By("deposit", Villagers[2], "Seal"),
                                By("delegatePurse", Villagers[2], "Seal")})
      /\ ListOf(Bidding(bid), {By("bid", Villagers[1], side), By("private", Villagers[1], side)})
      /\ ListOf(Bidding(next), {By("bid", Villagers[2], other), By("private", Villagers[2], other)})
      /\ ListOf(Settling(bid), {By("settle", Villagers[1], side)})
      /\ ListOf(Settling(next), {By("settle", Villagers[2], other)})
  BY BidLists DEF ListOf
<1>3. ListOf(Funding(bid) \o Funding(next),
             {By("deposit", Villagers[1], "Seal"), By("delegatePurse", Villagers[1], "Seal")}
               \cup {By("deposit", Villagers[2], "Seal"), By("delegatePurse", Villagers[2], "Seal")})
  BY <1>2, Together, Zenon
<1>4. ListOf(Bidding(bid) \o Bidding(next),
             {By("bid", Villagers[1], side), By("private", Villagers[1], side)}
               \cup {By("bid", Villagers[2], other), By("private", Villagers[2], other)})
  BY <1>2, Together, Zenon
<1>5. ListOf((Settling(bid) \o Settling(next)) \o <<Do("closeBook")>>,
             ({By("settle", Villagers[1], side)} \cup {By("settle", Villagers[2], other)})
               \cup {Do("closeBook")})
  BY <1>1, <1>2, Together, Zenon
<1> QED
  BY <1>3, <1>4, <1>5, EachOfTwo DEF SeedPurses, SettleAll

\* demo.ts's first market has a seal bid and is carved.
LEMMA DemoList ==
  /\ Demo \in Seq(ScriptSteps) /\ Demo # <<>>
  /\ {Do("secretPermission"), Do("carve"), By("bid", Villagers[1], "Seal")} \subseteq ToSet(Demo)
  /\ \A step \in ToSet(Demo) : step.do # "evidence"
<1> DEFINE bidding == Bids(2, <<"Seal", "Read">>)
           purses == {By("deposit", Villagers[1], "Seal"), By("delegatePurse", Villagers[1], "Seal")}
                       \cup {By("deposit", Villagers[2], "Seal"),
                             By("delegatePurse", Villagers[2], "Seal")}
           bids2 == {By("bid", Villagers[1], "Seal"), By("private", Villagers[1], "Seal")}
                      \cup {By("bid", Villagers[2], "Read"), By("private", Villagers[2], "Read")}
           settles == ({By("settle", Villagers[1], "Seal")} \cup {By("settle", Villagers[2], "Read")})
                        \cup {Do("closeBook")}
<1>1. /\ ListOf(SeedPurses(bidding), purses) /\ ListOf(Each(bidding, Bidding), bids2)
      /\ ListOf(SettleAll(bidding), settles)
  BY TwoBidLists DEF Sides
<1>2. /\ ListOf(Confess, ToSet(Confess)) /\ ListOf(Resolve, ToSet(Resolve))
      /\ ListOf(Bury, ToSet(Bury))
  BY PlainLists DEF ListOf
<1>3. Demo = ((((SeedPurses(bidding) \o Confess) \o Each(bidding, Bidding)) \o Resolve)
                \o SettleAll(bidding)) \o Bury
  BY DEF Demo
<1>4. /\ By("bid", Villagers[1], "Seal") \in bids2
      /\ \A step \in (purses \cup bids2) \cup settles : step.do # "evidence"
  BY StepFields
<1> HIDE DEF bidding, purses, bids2, settles
<1>5. ListOf(Demo, ((((purses \cup ToSet(Confess)) \cup bids2) \cup ToSet(Resolve)) \cup settles)
                     \cup ToSet(Bury))
  BY <1>1, <1>2, <1>3, Together, Zenon
<1> QED
  BY <1>4, <1>5, Together, PlainLists DEF ListOf

\* prove-magic-action.ts has a seal bid and ends on what the action carved.
LEMMA MagicList ==
  /\ Magic \in Seq(ScriptSteps) /\ Magic # <<>>
  /\ {Do("secretPermission"), Do("carvedByAction"), By("bid", Villagers[1], "Seal")}
       \subseteq ToSet(Magic)
<1> DEFINE bidding == Bids(1, <<"Seal">>)
           purses == {By("deposit", Villagers[1], "Seal"), By("delegatePurse", Villagers[1], "Seal")}
           bids1 == {By("bid", Villagers[1], "Seal"), By("private", Villagers[1], "Seal")}
           settles == {By("settle", Villagers[1], "Seal")} \cup {Do("closeBook")}
           ending == <<Do("uncarved"), Do("finalize"), Do("carvedByAction"), Do("evidence")>>
           carving == {Do("uncarved"), Do("finalize"), Do("carvedByAction"), Do("evidence")}
<1>1. /\ ListOf(SeedPurses(bidding), purses) /\ ListOf(Each(bidding, Bidding), bids1)
      /\ ListOf(SettleAll(bidding), settles)
  BY OneBidLists DEF Sides
<1>2. /\ ListOf(Confess, ToSet(Confess)) /\ ListOf(Resolve, ToSet(Resolve))
  BY PlainLists DEF ListOf
<1>3. ListOf(<<Do("headstone")>>, {Do("headstone")}) /\ ListOf(ending, carving)
  <2>1. /\ Do("headstone") \in ScriptSteps /\ Do("uncarved") \in ScriptSteps
        /\ Do("finalize") \in ScriptSteps /\ Do("carvedByAction") \in ScriptSteps
        /\ Do("evidence") \in ScriptSteps
    BY StepsAreSteps DEF Chores
  <2> QED
    BY <2>1, OneStep, FourSteps DEF ListOf
<1>4. Magic = (((((SeedPurses(bidding) \o Confess) \o <<Do("headstone")>>) \o Each(bidding, Bidding))
                 \o Resolve) \o SettleAll(bidding)) \o ending
  BY DEF Magic
<1>5. By("bid", Villagers[1], "Seal") \in bids1 /\ Do("carvedByAction") \in carving
  OBVIOUS
<1> HIDE DEF bidding, purses, bids1, settles, ending, carving
<1>6. ListOf(Magic, (((((purses \cup ToSet(Confess)) \cup {Do("headstone")}) \cup bids1)
                       \cup ToSet(Resolve)) \cup settles) \cup carving)
  BY <1>1, <1>2, <1>3, <1>4, Together, Zenon
<1> QED
  BY <1>5, <1>6, Together, PlainLists DEF ListOf

\* demo.ts's rumor is resolved by its author and its book closed.
LEMMA RumorList ==
  /\ DemoRumor \in Seq(ScriptSteps) /\ DemoRumor # <<>>
  /\ {Do("rumor"), Do("closeBook")} \subseteq ToSet(DemoRumor)
  /\ \A step \in ToSet(DemoRumor) : step.do # "evidence"
<1> DEFINE bidding == Bids(2, <<"Yes", "No">>)
           purses == {By("deposit", Villagers[1], "Seal"), By("delegatePurse", Villagers[1], "Seal")}
                       \cup {By("deposit", Villagers[2], "Seal"),
                             By("delegatePurse", Villagers[2], "Seal")}
           bids2 == {By("bid", Villagers[1], "Yes"), By("private", Villagers[1], "Yes")}
                      \cup {By("bid", Villagers[2], "No"), By("private", Villagers[2], "No")}
           settles == ({By("settle", Villagers[1], "Yes")} \cup {By("settle", Villagers[2], "No")})
                        \cup {Do("closeBook")}
<1>1. /\ ListOf(SeedPurses(bidding), purses) /\ ListOf(Each(bidding, Bidding), bids2)
      /\ ListOf(SettleAll(bidding), settles)
  BY TwoBidLists DEF Sides
<1>2. ListOf(Confess, ToSet(Confess))
  BY PlainLists DEF ListOf
<1>3. ListOf(<<Do("rumor")>>, {Do("rumor")})
  <2>1. Do("rumor") \in ScriptSteps
    BY StepsAreSteps DEF Chores
  <2> QED
    BY <2>1, OneStep DEF ListOf
<1>4. DemoRumor = (((SeedPurses(bidding) \o Confess) \o Each(bidding, Bidding)) \o <<Do("rumor")>>)
                    \o SettleAll(bidding)
  BY DEF DemoRumor
<1>5. /\ Do("closeBook") \in settles
      /\ \A step \in ((purses \cup bids2) \cup settles) \cup {Do("rumor")} : step.do # "evidence"
  BY StepFields
<1> HIDE DEF bidding, purses, bids2, settles
<1>6. ListOf(DemoRumor, (((purses \cup ToSet(Confess)) \cup bids2) \cup {Do("rumor")}) \cup settles)
  BY <1>1, <1>2, <1>3, <1>4, Together, Zenon
<1> QED
  BY <1>5, <1>6, Together, PlainLists DEF ListOf

\* The scripts of a market that nobody bids on: demo.ts's second, seed.ts's that is
\* voted down, and prove-privacy.ts.
LEMMA UnbidLists ==
  /\ \A list \in {DemoLeak, Seed(<<>>, TRUE), Privacy} :
       /\ list \in Seq(ScriptSteps) /\ list # <<>>
       /\ \A step \in ToSet(list) : ~IsBid(step) /\ step.do # "evidence"
  /\ Do("carve") \in ToSet(DemoLeak) /\ Do("carve") \in ToSet(Seed(<<>>, TRUE))
  /\ Do("secretPermission") \in ToSet(Privacy)
<1> DEFINE ending == <<Do("expiry"), Do("expire"), Do("closeBook")>>
           ends == {Do("expiry"), Do("expire"), Do("closeBook")}
           looking == <<Do("private?"), Do("closed?")>>
           looks == {Do("private?"), Do("closed?")}
<1>1. /\ ListOf(Confess, ToSet(Confess)) /\ ListOf(Bury, ToSet(Bury))
  BY PlainLists DEF ListOf
<1>2. /\ ListOf(ending, ends) /\ ListOf(looking, looks)
      /\ ListOf(<<Do("describe")>>, {Do("describe")})
  <2>1. /\ Do("expiry") \in ScriptSteps /\ Do("expire") \in ScriptSteps
        /\ Do("closeBook") \in ScriptSteps /\ Do("private?") \in ScriptSteps
        /\ Do("closed?") \in ScriptSteps /\ Do("describe") \in ScriptSteps
    BY StepsAreSteps DEF Chores
  <2> QED
    BY <2>1, OneStep, TwoSteps, ThreeSteps DEF ListOf
<1>3. /\ DemoLeak = (Confess \o ending) \o Bury
      /\ Privacy = Confess \o looking
      /\ Seed(<<>>, TRUE) = (((<<>> \o Confess) \o <<>>) \o (ending \o Bury)) \o <<Do("describe")>>
  BY EachOfNone DEF DemoLeak, Privacy, Seed, SeedPurses, SeedBids, SeedSettles
<1>4. \A step \in (ends \cup looks) \cup {Do("describe")} : ~IsBid(step) /\ step.do # "evidence"
  BY StepFields DEF IsBid
<1> HIDE DEF ending, ends, looking, looks
<1>5. ListOf(DemoLeak, (ToSet(Confess) \cup ends) \cup ToSet(Bury))
  BY <1>1, <1>2, <1>3, Together, Zenon
<1>6. ListOf(Privacy, ToSet(Confess) \cup looks)
  BY <1>1, <1>2, <1>3, Together, Zenon
<1>7. ListOf(Seed(<<>>, TRUE), ((({} \cup ToSet(Confess)) \cup {}) \cup (ends \cup ToSet(Bury)))
                                 \cup {Do("describe")})
  <2>1. ListOf((<<>> \o Confess) \o <<>>, ({} \cup ToSet(Confess)) \cup {})
    BY <1>1, Together, Zenon
  <2>2. ListOf(ending \o Bury, ends \cup ToSet(Bury))
    BY <1>1, <1>2, Together, Zenon
  <2>3. ListOf(((<<>> \o Confess) \o <<>>) \o (ending \o Bury),
               (({} \cup ToSet(Confess)) \cup {}) \cup (ends \cup ToSet(Bury)))
    BY <2>1, <2>2, Together, Zenon
  <2>4. ListOf((((<<>> \o Confess) \o <<>>) \o (ending \o Bury)) \o <<Do("describe")>>,
               ((({} \cup ToSet(Confess)) \cup {}) \cup (ends \cup ToSet(Bury)))
                 \cup {Do("describe")})
    BY <1>2, <2>3, Together, Zenon
  <2> QED
    BY <1>3, <2>4, Zenon
<1> QED
  BY <1>4, <1>5, <1>6, <1>7, Together, PlainLists DEF ListOf

\* The table of scripts.
LEMMA ProgramTable ==
  /\ Kinds = {"smoke", "pitch_deck", "vaporware", "voted_no", "cofounder_token", "ships_by_friday",
              "demo", "demo_leak", "demo_rumor", "magic", "privacy"}
  /\ Program["smoke"].steps = Smoke
  /\ Program["pitch_deck"].steps = Seed(Bids(1, <<"Seal">>), FALSE)
  /\ Program["vaporware"].steps = Seed(Bids(2, <<"Read", "Read">>), FALSE)
  /\ Program["voted_no"].steps = Seed(<<>>, TRUE)
  /\ Program["cofounder_token"].steps = Seed(Bids(1, <<"Seal">>), FALSE)
  /\ Program["ships_by_friday"].steps = Seed(Bids(2, <<"Yes", "No">>), FALSE)
  /\ Program["demo"].steps = Demo
  /\ Program["demo_leak"].steps = DemoLeak
  /\ Program["demo_rumor"].steps = DemoRumor
  /\ Program["magic"].steps = Magic
  /\ Program["privacy"].steps = Privacy
  /\ \A kind \in {"smoke", "voted_no", "demo", "demo_leak", "magic", "privacy"} :
       Program[kind].room = "GuiltMarket"
<1>1. Kinds = {"smoke", "pitch_deck", "vaporware", "voted_no", "cofounder_token",
               "ships_by_friday", "demo", "demo_leak", "demo_rumor", "magic", "privacy"}
  BY DEF Kinds, Program
<1>2. /\ Program["smoke"].steps = Smoke
      /\ Program["demo"].steps = Demo
      /\ Program["demo_leak"].steps = DemoLeak
      /\ Program["demo_rumor"].steps = DemoRumor
      /\ Program["magic"].steps = Magic
      /\ Program["privacy"].steps = Privacy
  BY DEF Program
<1>3. /\ Program["pitch_deck"].steps = Seed(Bids(1, <<"Seal">>), FALSE)
      /\ Program["cofounder_token"].steps = Seed(Bids(1, <<"Seal">>), FALSE)
  BY DEF Program
<1>4. Program["vaporware"].steps = Seed(Bids(2, <<"Read", "Read">>), FALSE)
  BY DEF Program
<1>5. Program["voted_no"].steps = Seed(<<>>, TRUE)
  BY DEF Program
<1>6. Program["ships_by_friday"].steps = Seed(Bids(2, <<"Yes", "No">>), FALSE)
  BY DEF Program
<1>7. /\ Program["smoke"].room = "GuiltMarket" /\ Program["voted_no"].room = "GuiltMarket"
      /\ Program["demo"].room = "GuiltMarket" /\ Program["demo_leak"].room = "GuiltMarket"
      /\ Program["magic"].room = "GuiltMarket" /\ Program["privacy"].room = "GuiltMarket"
  BY DEF Program
<1> QED
  BY <1>1, <1>2, <1>3, <1>4, <1>5, <1>6, <1>7

\* What the four seeded markets claim is a bid each of whose villagers hid it.
Seeded == {"pitch_deck", "vaporware", "cofounder_token", "ships_by_friday"}

\* Every script is a list of steps, not empty; one looks for evidence.
LEMMA EveryScript ==
  ASSUME NEW kind \in Kinds
  PROVE  /\ Program[kind].steps \in Seq(ScriptSteps) /\ Program[kind].steps # <<>>
         /\ \A step \in StepsOf(kind) : step.do = "evidence" => kind = "magic"
         /\ kind \in Seeded => \A step \in StepsOf(kind) : step.do = "bid" =>
              \E made \in StepsOf(kind) : made.do = "private" /\ made.by = step.by
<1>1. CASE kind \in Seeded
  <2>1. {"Seal", "Read", "Yes", "No"} \subseteq Sides
    BY DEF Sides
  <2>2. CASE kind \in {"pitch_deck", "cofounder_token"}
    <3> DEFINE list == Seed(Bids(1, <<"Seal">>), FALSE)
    <3>1. Program[kind].steps = list
      BY <2>2, ProgramTable
    <3>2. SeededWell(list)
      BY <2>1, SeedOfOneList DEF SeededWell
    <3> HIDE DEF list
    <3> QED
      BY <2>2, <3>1, <3>2 DEF StepsOf, SeededWell
  <2>3. CASE kind = "vaporware"
    <3> DEFINE list == Seed(Bids(2, <<"Read", "Read">>), FALSE)
    <3>1. Program[kind].steps = list
      BY <2>3, ProgramTable
    <3>2. SeededWell(list)
      BY <2>1, SeedOfTwoList DEF SeededWell
    <3> HIDE DEF list
    <3> QED
      BY <2>3, <3>1, <3>2 DEF StepsOf, SeededWell
  <2>4. CASE kind = "ships_by_friday"
    <3> DEFINE list == Seed(Bids(2, <<"Yes", "No">>), FALSE)
    <3>1. Program[kind].steps = list
      BY <2>4, ProgramTable
    <3>2. SeededWell(list)
      BY <2>1, SeedOfTwoList DEF SeededWell
    <3> HIDE DEF list
    <3> QED
      BY <2>4, <3>1, <3>2 DEF StepsOf, SeededWell
  <2> QED
    BY <1>1, <2>2, <2>3, <2>4 DEF Seeded
<1>2. CASE kind = "smoke"
  BY <1>2, ProgramTable, SmokeList DEF StepsOf, Seeded
<1>3. CASE kind = "demo"
  BY <1>3, ProgramTable, DemoList DEF StepsOf, Seeded
<1>4. CASE kind = "demo_rumor"
  BY <1>4, ProgramTable, RumorList DEF StepsOf, Seeded
<1>5. CASE kind = "magic"
  BY <1>5, ProgramTable, MagicList DEF StepsOf, Seeded
<1>6. CASE kind \in {"voted_no", "demo_leak", "privacy"}
  BY <1>6, ProgramTable, UnbidLists DEF StepsOf, Seeded
<1> QED
  BY <1>1, <1>2, <1>3, <1>4, <1>5, <1>6, ProgramTable DEF Seeded

----------------------------------------------------------------------------
(* Where a script starts.                                                  *)

\* In a village at rest a script has everything still to do.
LEMMA ScriptStarts == VillageAtRest => ScriptInvariant
<1> SUFFICES ASSUME VillageAtRest PROVE ScriptInvariant
  OBVIOUS
<1>1. LifeInvariant
  BY LifeInvariantInit DEF VillageAtRest
<1>2. Engraved
  BY DEF VillageAtRest, LifeInit, BlankTomb, NoReveal, Engraved
<1>3. PICK kind \in Kinds : /\ script = [kind |-> kind, left |-> Program[kind].steps,
                                         ended |-> "running", told |-> "nothing"]
                            /\ market.room = Program[kind].room
  BY DEF VillageAtRest, ScriptInit
<1>4. Program[kind].steps \in Seq(ScriptSteps) /\ Program[kind].steps # <<>>
  BY EveryScript
<1>5. ScriptShape
  BY <1>3, <1>4 DEF ScriptShape, StepsOf
<1>6. DoneIsDone
  BY <1>3 DEF DoneIsDone, StepsOf
<1>7. market.status = "Open" /\ bids = [b \in Bidders |-> NoBid] /\ home = "none" /\ tomb = BlankTomb
  BY DEF VillageAtRest, Init, MarketInit, LifeInit
<1>8. OwnBids
  BY <1>7 DEF OwnBids, Placed, NoBid
<1>9. CameHomeShown
  BY <1>7 DEF CameHomeShown, BlankTomb
<1> QED
  BY <1>1, <1>2, <1>5, <1>6, <1>8, <1>9 DEF ScriptInvariant

----------------------------------------------------------------------------
(* What stands, whatever instruction is next.                              *)

\* A market's room is its creation's.
LEMMA RoomStands ==
  ASSUME LifeInvariant, [LifeNext]_allVars
  PROVE  market'.room = market.room
<1>0. Life /\ LooseTypeOK /\ market \in LooseMarketRecord
  BY DEF LifeInvariant, Book, Invariant, Life, LooseTypeOK
<1>1. CASE (PurseNext /\ UNCHANGED marketVars) \/ Tick \/ UNCHANGED vars
  BY <1>1 DEF marketVars, vars, Tick
<1>2. ASSUME NEW b \in Bidders, BidStep(b)
      PROVE  market'.room = market.room
  <2>1. ASSUME NEW side \in Sides, NEW amount \in Amounts, PlaceBid(b, side, amount)
        PROVE  market'.room = market.room
    BY <1>0, <2>1 DEF PlaceBid, RecordBid, LooseMarketRecord
  <2> QED
    BY <1>0, <1>2, <2>1, FundMarket, PlaceAndFundMarket DEF BidStep, InitBidPermission
<1>3. CASE VerdictStep
  BY <1>0, <1>3, VerdictFrame
<1>4. CASE SettleStep
  BY <1>0, <1>4, SettleMarket, CloseMarket, SettleAndCloseMarket DEF SettleStep
<1>5. CASE ClaimAuthor
  BY <1>0, <1>5 DEF ClaimAuthor, LooseMarketRecord
<1> QED
  BY <1>1, <1>2, <1>3, <1>4, <1>5, LifeSteps DEF Next

\* A verdict is for good, also when the author is paid.
LEMMA OutcomeStands ==
  ASSUME LifeInvariant, [LifeNext]_allVars, market.outcome # "Pending"
  PROVE  market'.outcome = market.outcome
<1>0. Invariant /\ ReaderIsChosen
  BY DEF LifeInvariant, Book
<1>1. CASE ClaimAuthor
  <2>1. Settles /\ market.status = "Settled"
    BY <1>1, LifeFrame DEF LifeInvariant, ClaimAuthor
  <2> QED
    BY <2>1 DEF Settles
<1> QED
  BY <1>0, <1>1, LifeSteps, FinalStep

\* What a bid that is there keeps: its side, that it paid, and that it is hidden until
\* it is settled.
BidStands(b) ==
  /\ Placed(b)' /\ bids'[b].side = bids[b].side
  /\ bids[b].funded => bids'[b].funded
  /\ bids[b].private \/ bids[b].settled => bids'[b].private \/ bids'[b].settled

\* No instruction takes a bid from the book or another's side, and none shows it
\* before it is settled.
LEMMA BidsStand ==
  ASSUME LifeInvariant, [LifeNext]_allVars, NEW b \in Bidders, Placed(b)
  PROVE  BidStands(b)
<1>0. /\ Life /\ LooseTypeOK /\ BidLife /\ bids \in [Bidders -> LooseBidRecord]
      /\ bids[b] \in LooseBidRecord
  BY DEF LifeInvariant, Book, Invariant, Life, LooseTypeOK
<1>1. CASE bids' = bids
  BY <1>1 DEF BidStands, Placed
<1>2. CASE bids'[b] = bids[b]
  BY <1>2 DEF BidStands, Placed
<1>3. ASSUME NEW c \in Bidders, BidStep(c)
      PROVE  BidStands(b)
  <2>1. ASSUME NEW side \in Sides, NEW amount \in Amounts, PlaceBid(c, side, amount)
        PROVE  BidStands(b)
    BY <1>0, <1>2, <2>1, PlaceEffect DEF Placed
  <2>2. ASSUME NEW side \in Sides, NEW amount \in Amounts, PlaceAndFund(c, side, amount)
        PROVE  BidStands(b)
    <3>1. bids[c].account = "none"
      BY <1>0, <2>2, PlaceAndFundIsFirst
    <3>2. bids'[b] = bids[b]
      BY <1>0, <2>2, <3>1, PlaceAndFundEffect DEF Placed
    <3> QED
      BY <1>2, <3>2
  <2>3. CASE FundBid(c)
    <3>1. b # c => bids'[b] = bids[b]
      BY <1>0, <2>3 DEF FundBid
    <3>2. bids'[c].private = bids[c].private
      <4> DEFINE rank == IF bids[c].side = "Read" THEN market.read_bid_count
                         ELSE bids[c].read_rank
      <4>1. bids'[c] = [bids[c] EXCEPT !.funded = TRUE, !.read_rank = rank]
        BY <1>0, <2>3, FundEffect
      <4> HIDE DEF rank
      <4> QED
        BY <1>0, <4>1 DEF LooseBidRecord
    <3>3. /\ bids'[c].account = bids[c].account /\ bids'[c].side = bids[c].side
          /\ bids'[c].funded /\ bids'[c].settled = bids[c].settled
      BY <1>0, <2>3, FundFields
    <3> QED
      BY <1>2, <3>1, <3>2, <3>3 DEF BidStands, Placed
  <2>4. CASE InitBidPermission(c)
    <3>1. b # c => bids'[b] = bids[b]
      BY <1>0, <2>4 DEF InitBidPermission
    <3>2. b = c => /\ bids'[b].account = bids[b].account /\ bids'[b].side = bids[b].side
                   /\ bids'[b].funded = bids[b].funded /\ bids'[b].private
      BY <1>0, <2>4 DEF InitBidPermission, LooseBidRecord
    <3> QED
      BY <1>2, <3>1, <3>2 DEF BidStands, Placed
  <2> QED
    BY <1>3, <2>1, <2>2, <2>3, <2>4 DEF BidStep
<1>4. ASSUME NEW c \in Bidders, SettleBid(c)
      PROVE  BidStands(b)
  <2>1. b # c => bids'[b] = bids[b]
    BY <1>0, <1>4, SettleEffect
  <2>2. b = c => /\ bids'[b].account = bids[b].account /\ bids'[b].side = bids[b].side
                 /\ bids'[b].funded = bids[b].funded /\ bids'[b].settled = TRUE
    BY ZenonT(60), <1>0, <1>4, SettleEffect DEF LooseBidRecord
  <2> QED
    BY <1>2, <2>1, <2>2 DEF BidStands, Placed
<1>5. ASSUME NEW c \in Bidders, CloseBid(c)
      PROVE  BidStands(b)
  <2>1. b # c => bids'[b] = bids[b]
    BY <1>0, <1>5, CloseEffect
  <2>2. bids[c].settled
    BY <1>5 DEF CloseBid, Closeable
  <2>3. b = c => /\ bids'[b].account = "closed" /\ bids'[b].side = bids[b].side
                 /\ bids'[b].funded = bids[b].funded /\ bids'[b].settled = bids[b].settled
    BY ZenonT(60), <1>0, <1>5, CloseEffect DEF LooseBidRecord
  <2> QED
    BY <1>2, <2>1, <2>2, <2>3 DEF BidStands, Placed
<1>6. ASSUME NEW c \in Bidders, SettleAndClose(c)
      PROVE  BidStands(b)
  <2>1. b # c => bids'[b] = bids[b]
    BY <1>0, <1>6, SettleAndCloseEffect
  <2>2. b = c => /\ bids'[b].account = "closed" /\ bids'[b].side = bids[b].side
                 /\ bids'[b].funded = bids[b].funded /\ bids'[b].settled = TRUE
    BY <1>0, <1>6, SettledFields, ClosedAtOnce
  <2> QED
    BY <1>2, <2>1, <2>2 DEF BidStands, Placed
<1>7. CASE VerdictStep
  BY <1>0, <1>1, <1>7, VerdictFrame
<1>8. CASE CloseBook \/ Tick \/ (PurseNext /\ UNCHANGED marketVars) \/ UNCHANGED vars \/ ClaimAuthor
  BY <1>1, <1>8 DEF CloseBook, Tick, marketVars, vars, ClaimAuthor
<1> QED
  BY <1>3, <1>4, <1>5, <1>6, <1>7, <1>8, LifeSteps DEF Next, SettleStep

\* What a step of a script has achieved, no instruction undoes.
LEMMA PostStands ==
  ASSUME LifeInvariant, [LifeNext]_allVars, NEW step \in ScriptSteps, Post(step)
  PROVE  Post(step)'
<1>0. /\ Settles /\ LifeTypeOK /\ secret \in SecretRecord /\ market'.room = market.room
      /\ market.sole_reader # Nobody => market'.sole_reader = market.sole_reader
  BY LifeFrame, RoomStands, SecretFields DEF LifeInvariant, Settles
<1>1. CASE step.do = "bid" \/ step.do = "private"
  <2>1. step.by \in Bidders /\ Placed(step.by)
    BY <1>1 DEF ScriptSteps, VillagerSigns, Post
  <2>2. BidStands(step.by)
    BY <2>1, BidsStand
  <2> QED
    BY <1>1, <2>2 DEF Post, BidStands
<1>2. CASE step.do = "secretPermission" \/ step.do = "grant"
  <2>1. CASE GrantReader(market.sole_reader) /\ market.sole_reader # Nobody
    <3>1. secret'.permission = "private" /\ secret'.members = {Author, market.sole_reader}
      BY <1>0, <2>1 DEF GrantReader, SecretRecord
    <3> QED
      BY <1>0, <1>2, <3>1 DEF Post
  <2>2. CASE secret'.permission = secret.permission /\ secret'.members = secret.members
    BY <1>0, <1>2, <2>2 DEF Post, IsConfession
  <2>3. secret.permission # "none"
    BY <1>2 DEF Post
  <2>4. CASE SecretStep
    <3>1. CASE CreateSecretShell \/ DelegateSecret \/ \E version \in 1..MaxSeals : SealSecret(version)
      BY <1>0, <2>2, <3>1 DEF CreateSecretShell, DelegateSecret, SealSecret, SecretRecord
    <3>2. ~InitSecretPermission
      BY <2>3 DEF InitSecretPermission
    <3>3. ASSUME NEW b \in Bidders, GrantReader(b)
          PROVE  Post(step)'
      BY <2>1, <3>3 DEF GrantReader, Admissible, Grantable
    <3> QED
      BY <2>4, <3>1, <3>2, <3>3 DEF SecretStep
  <2>5. CASE HomeStep
    BY <2>2, <2>5 DEF HomeStep, CreateMarket, DelegateMarket, FinalizeMarket, MarketReturns,
       OpenTombstone, WriteTombstone, SealTombstone, ActionDropped, RecordRead, ClaimAuthor
  <2>6. CASE BookStep \/ UNCHANGED allVars
    BY <2>2, <2>6 DEF BookStep, allVars, lifeVars
  <2> QED
    BY <2>4, <2>5, <2>6 DEF LifeNext
<1>3. CASE step.do = "rumor"
  BY <1>3, OutcomeStands DEF Post
<1>4. CASE step.do = "closeBook"
  BY <1>0, <1>4 DEF Post, Settles
<1>5. CASE step.do \in {"carve", "carvedByAction"}
  BY <1>5, CarvedStays DEF Post
<1> QED
  BY <1>1, <1>2, <1>3, <1>4, <1>5 DEF Post

----------------------------------------------------------------------------
(* A script's instructions, beside the keeper's and the oracle's.          *)

\* What is sent, or happens by itself, beside a script's own bids.
Moves ==
  \/ Sent
  \/ CreateMarket \/ CreateSecretShell \/ DelegateMarket \/ DelegateSecret
  \/ InitSecretPermission \/ SealSecret(1)
  \/ \E b \in Bidders : OnBase(DepositPurse(b, Funds)) \/ OnBase(DelegatePurse(b))
  \/ OnRollup(ResolveRumor(1))
  \/ OpenTombstone \/ SealTombstone \/ ActionDropped

\* A bid of the script's.
BidsOnce(step) ==
  /\ IsBid(step) /\ step.by \in Bidders /\ step.side \in Sides
  /\ \E amount \in Amounts : OnRollup(PlaceAndFund(step.by, step.side, amount))

\* All of it is a step of the market's life.
LEMMA MovesAreLife ==
  /\ Moves => [LifeNext]_allVars
  /\ \A step : BidsOnce(step) => [LifeNext]_allVars
<1>1. CASE CreateMarket \/ DelegateMarket \/ OpenTombstone \/ SealTombstone \/ ActionDropped
  BY <1>1 DEF LifeNext, HomeStep
<1>2. CASE CreateSecretShell \/ DelegateSecret \/ InitSecretPermission \/ SealSecret(1)
  BY <1>2, LifecycleAssumption, CrankAssumption DEF LifeNext, SecretStep
<1>3. ASSUME NEW b \in Bidders, OnBase(DepositPurse(b, Funds)) \/ OnBase(DelegatePurse(b))
      PROVE  LifeNext
  BY <1>3, ScriptAssumption DEF OnBase, LifeNext, BookStep, PurseNext
<1>4. CASE OnRollup(ResolveRumor(1))
  BY <1>4 DEF OnRollup, LifeNext, BookStep
<1>5. ASSUME NEW b \in Bidders, NEW side \in Sides, NEW amount \in Amounts,
             OnRollup(PlaceAndFund(b, side, amount))
      PROVE  LifeNext
  BY <1>5 DEF OnRollup, LifeNext, BookStep, BidStep
<1> QED
  BY <1>1, <1>2, <1>3, <1>4, <1>5, SentIsLife DEF Moves, BidsOnce

\* What the verdict calls for stays what it is, once there is one.
LEMMA RevealStands ==
  ASSUME LifeInvariant, [LifeNext]_allVars, market.status # "Open", market.outcome # "Pending"
  PROVE  RevealOf' = RevealOf
BY BodyStands, OutcomeStands DEF RevealOf

\* A market away from the rollup is touched by no instruction of its book, and none
\* here takes it anywhere but where the scripts and the keeper do.
LEMMA WhereItMoves ==
  ASSUME Moves \/ \E step : BidsOnce(step)
  PROVE  /\ home # "ER" => market' = market
         /\ \/ UNCHANGED <<home, revealed>>
            \/ FinalizeMarket \/ MarketReturns
            \/ home = "none" /\ home' = "L1" /\ revealed' = revealed
            \/ home = "L1" /\ home' = "ER" /\ revealed' = revealed
         /\ \/ tomb' = tomb \/ OpenTombstone
            \/ Carveable /\ tomb' = Carved /\ UNCHANGED <<market, secret, revealed>>
<1>1. CASE \/ /\ home = "ER" /\ UNCHANGED lifeVars
           \/ (CallbackRejected \/ OracleFails) /\ UNCHANGED lifeVars
           \/ UNCHANGED allVars
  BY <1>1 DEF lifeVars, allVars, vars, marketVars, CallbackRejected, OracleFails
<1>2. CASE Grant \/ FinalizeMarket \/ MarketReturns \/ WriteTombstone
  BY <1>2 DEF Grant, GrantReader, Admissible, FinalizeMarket, MarketReturns, WriteTombstone,
     vars, marketVars
<1>3. CASE CreateMarket \/ CreateSecretShell \/ DelegateMarket \/ DelegateSecret
  BY <1>3 DEF CreateMarket, CreateSecretShell, DelegateMarket, DelegateSecret, vars, marketVars
<1>4. CASE InitSecretPermission \/ SealSecret(1)
  BY <1>4 DEF InitSecretPermission, SealSecret, vars, marketVars
<1>5. ASSUME NEW ACTION A, OnBase(A) PROVE UNCHANGED <<market, home, revealed, tomb>>
  BY <1>5 DEF OnBase, marketVars, lifeVars
<1>6. CASE OpenTombstone \/ SealTombstone \/ ActionDropped
  BY <1>6 DEF OpenTombstone, SealTombstone, ActionDropped, vars, marketVars
<1>7. CASE Sent
  BY <1>1, <1>2, <1>7 DEF Sent
<1>8. ASSUME NEW ACTION A, OnRollup(A) PROVE home = "ER" /\ UNCHANGED lifeVars
  BY <1>8 DEF OnRollup
<1> QED
  BY <1>1, <1>3, <1>4, <1>5, <1>6, <1>7, <1>8 DEF Moves, BidsOnce

\* A market that comes home comes settled, and shows what its verdict calls for.
LEMMA CameHomeKeeps ==
  ASSUME LifeInvariant, CameHomeShown, Moves \/ \E step : BidsOnce(step)
  PROVE  CameHomeShown'
<1>0. /\ [LifeNext]_allVars /\ Settles /\ MarketLife /\ ShownOnceSettled /\ TombstoneIsTrue
      /\ home \in {"none", "L1", "ER", "returning"}
      /\ market.status \in {"Open", "Expired", "VrfPending", "Resolved", "Settled"}
  <2>1. [LifeNext]_allVars
    BY MovesAreLife
  <2>2. market.status \in {"Open", "Expired", "VrfPending", "Resolved", "Settled"}
    BY DEF LifeInvariant, Book, Invariant, Life, LooseTypeOK, LooseMarketRecord, Statuses
  <2> QED
    BY <2>1, <2>2, LifeFrame DEF LifeInvariant, LifeTypeOK, Book, Invariant, Life
<1>1. market.status = "Settled" => RevealOf' = RevealOf
  BY <1>0, RevealStands DEF MarketLife
<1>2. home' = "none" => market'.status = "Open"
  BY <1>0, WhereItMoves DEF CameHomeShown, FinalizeMarket, MarketReturns
<1>3. ASSUME home' = "returning" \/ (home' = "L1" /\ market'.status # "Open")
      PROVE  market'.status = "Settled" /\ revealed' = RevealOf'
  <2>1. CASE FinalizeMarket
    BY <1>0, <1>1, <2>1 DEF FinalizeMarket, Settles
  <2>2. CASE MarketReturns
    BY <1>0, <1>1, <2>2 DEF MarketReturns, CameHomeShown, Settles
  <2>3. CASE UNCHANGED <<home, revealed>>
    BY <1>0, <1>1, <1>3, <2>3, WhereItMoves DEF CameHomeShown, Settles
  <2>4. CASE home = "none" /\ home' = "L1"
    BY <1>3, <2>4, WhereItMoves DEF CameHomeShown
  <2> QED
    BY <1>3, <2>1, <2>2, <2>3, <2>4, WhereItMoves
<1>4. ASSUME tomb'.account = "carved" PROVE tomb'.revealed = RevealOf'
  <2>1. CASE tomb' = tomb
    BY <1>0, <1>1, <1>4, <2>1 DEF CameHomeShown, TombstoneIsTrue
  <2>2. ~OpenTombstone
    BY <1>0, <1>4 DEF OpenTombstone, LifeInvariant, LifeTypeOK, TombRecord
  <2>3. CASE Carveable /\ tomb' = Carved /\ UNCHANGED <<market, secret, revealed>>
    <3>1. revealed = RevealOf /\ RevealOf' = RevealOf
      BY <1>1, <2>3 DEF Carveable, CameHomeShown
    <3>2. tomb'.revealed = IF market.outcome \in {"PublicLeak", "RandomReveal"} THEN revealed
                           ELSE NoReveal
      BY <2>3 DEF Carved
    <3> QED
      BY <3>1, <3>2 DEF RevealOf
  <2> QED
    BY <2>1, <2>2, <2>3, WhereItMoves
<1> QED
  BY <1>2, <1>3, <1>4 DEF CameHomeShown

----------------------------------------------------------------------------
(* A step of the script.                                                   *)

\* How a step ends that got what it is for.
Succeeds(step) ==
  \/ Proceeds /\ step.do # "describe"
  \/ step.do = "describe" /\ Prints(Described)
  \/ step.do = "evidence" /\ (Prints("signed by the validator") \/ Prints("no such transaction"))

\* A step that goes through makes its move, or finds what it looks for.
LEMMA StepDoes ==
  ASSUME LifeInvariant, ScriptStep, NEW step \in ScriptSteps, step = Head(script.left)
  PROVE  /\ script.ended = "running"
         /\ Moves \/ BidsOnce(step)
         /\ Throws \/ (Post(step)' /\ Succeeds(step))
<1> DEFINE Goal == /\ script.ended = "running"
                   /\ Moves \/ BidsOnce(step)
                   /\ Throws \/ (Post(step)' /\ Succeeds(step))
<1>0. /\ LooseTypeOK /\ secret \in SecretRecord /\ market \in LooseMarketRecord
      /\ bids \in [Bidders -> LooseBidRecord]
  BY SecretFields DEF LifeInvariant, Book, Invariant, Life, LooseTypeOK
<1>1. ASSUME Lost \/ Still PROVE Moves
  BY <1>1 DEF Lost, Still, Moves, Sent
<1>2. ASSUME NEW ACTION A, Refused(A) PROVE Moves
  BY <1>2 DEF Refused, Moves, Sent
<1>3. CASE \/ Does("create", CreateMarket)
           \/ Does("shell", CreateSecretShell)
           \/ Does("delegate", DelegateMarket)
           \/ Does("delegateSecret", DelegateSecret)
           \/ Does("seal", SealSecret(1))
           \/ Does("headstone", OpenTombstone)
           \/ Does("finalize", FinalizeMarket)
  BY <1>1, <1>2, <1>3 DEF Does, Doing, Lands, Unheard, Moves, Sent, Post, Succeeds
<1>4. CASE \/ Does("deposit", OnBase(DepositPurse(Who, Funds)))
           \/ Does("delegatePurse", OnBase(DelegatePurse(Who)))
  <2>1. step.by \in Bidders /\ Who = step.by
    BY <1>4 DEF Does, Doing, ScriptSteps, VillagerSigns, Who
  <2> QED
    BY <1>1, <1>2, <1>4, <2>1 DEF Does, Doing, Lands, Unheard, Moves, Post, Succeeds
<1>5. ASSUME NEW amount \in Amounts,
             \/ Does("bid", OnRollup(PlaceAndFund(Who, Side, amount)))
             \/ Tries("tryBid", OnRollup(PlaceAndFund(Who, Side, amount)), TRUE)
      PROVE  Goal
  <2>1. /\ step.by \in Bidders /\ step.side \in Sides /\ Who = step.by /\ Side = step.side
        /\ IsBid(step) /\ script.ended = "running" /\ step.do \notin {"describe", "evidence"}
    BY <1>5 DEF Does, Tries, Doing, ScriptSteps, VillagerSigns, Who, Side, IsBid
  <2>2. CASE OnRollup(PlaceAndFund(Who, Side, amount))
    <3>1. BidsOnce(step)
      BY <2>1, <2>2 DEF BidsOnce
    <3>2. bids'[step.by].account = "open" /\ bids'[step.by].side = step.side
      BY <1>0, <2>1, <2>2, PlaceAndFundEffect DEF OnRollup
    <3>3. Post(step)'
      BY <2>1, <3>2 DEF Post, Placed, IsBid
    <3> QED
      BY <1>5, <2>1, <3>1, <3>3 DEF Does, Tries, Succeeds
  <2>3. CASE ~OnRollup(PlaceAndFund(Who, Side, amount))
    <3>1. CASE Does("bid", OnRollup(PlaceAndFund(Who, Side, amount)))
      <4>1. ASSUME NEW ACTION A, ~A, Does("bid", A)
            PROVE  Throws /\ (Refused(A) \/ Lost)
        BY <4>1 DEF Does, Lands, Unheard
      <4>2. Throws /\ (Refused(OnRollup(PlaceAndFund(Who, Side, amount))) \/ Lost)
        BY <2>3, <3>1, <4>1
      <4> QED
        BY <1>1, <1>2, <2>1, <4>2
    <3>2. CASE Tries("tryBid", OnRollup(PlaceAndFund(Who, Side, amount)), TRUE)
      <4>1. step.do = "tryBid" /\ (Proceeds \/ Throws)
        BY <3>2 DEF Tries, Doing
      <4>2. \/ Lands(OnRollup(PlaceAndFund(Who, Side, amount)))
            \/ Refused(OnRollup(PlaceAndFund(Who, Side, amount)))
            \/ Lost
            \/ Unheard(OnRollup(PlaceAndFund(Who, Side, amount)))
        BY <3>2 DEF Tries
      <4>3. Refused(OnRollup(PlaceAndFund(Who, Side, amount))) \/ Lost
        BY <2>3, <4>2 DEF Lands, Unheard
      <4> QED
        BY <1>1, <1>2, <2>1, <4>1, <4>3 DEF Post, Succeeds
    <3> QED
      BY <1>5, <3>1, <3>2
  <2> QED
    BY <2>2, <2>3
<1>6. CASE Does("private", OnRollup(InitBidPermission(Who)))
  <2>1. step.by \in Bidders /\ Who = step.by /\ script.ended = "running" /\ step.do = "private"
    BY <1>6 DEF Does, Doing, ScriptSteps, VillagerSigns, Who
  <2>2. CASE OnRollup(InitBidPermission(step.by))
    <3>1. bids'[step.by].account = "open" /\ bids'[step.by].private
      BY <1>0, <2>1, <2>2 DEF OnRollup, InitBidPermission, LooseBidRecord
    <3>2. Post(step)'
      BY <2>1, <3>1 DEF Post, Placed
    <3> QED
      BY <1>6, <2>1, <2>2, <3>2 DEF Does, OnRollup, Moves, Sent, Succeeds
  <2> QED
    BY <1>1, <1>2, <1>6, <2>1, <2>2 DEF Does, Lands, Unheard
<1>7. CASE \/ Does("expire", OnRollup(ExpireMarket))
           \/ Does("request", OnRollup(RequestResolutionVrf))
  BY <1>1, <1>2, <1>7 DEF Does, Doing, Lands, Unheard, OnRollup, Moves, Sent, Post, Succeeds
<1>8. CASE SettlesSeen \/ Tries("trySettle", OnRollup(SettleAndClose(Who)), FALSE)
  <2>0. Doing("settle") \/ Doing("trySettle")
    BY <1>8 DEF SettlesSeen, Tries
  <2>1. step.by \in Bidders /\ Who = step.by
    BY <2>0 DEF Doing, ScriptSteps, VillagerSigns, Who
  <2>2. CASE \/ Does("settle", OnRollup(SettleAndClose(Who)))
             \/ Tries("trySettle", OnRollup(SettleAndClose(Who)), FALSE)
    BY <1>1, <1>2, <2>1, <2>2
       DEF Does, Tries, Doing, Lands, Unheard, OnRollup, Moves, Sent, Post, Succeeds
  <2>3. ASSUME Doing("settle"), Still /\ Proceeds PROVE Goal
    BY <1>1, <2>3 DEF Doing, Post, Succeeds
  <2>4. ASSUME Doing("settle"), Refused(OnRollup(SettleAndClose(Who))) /\ Throws PROVE Goal
    BY <1>2, <2>4 DEF Doing
  <2>5. ASSUME Doing("settle"), Reads(FALSE) PROVE Goal
    BY <1>1, <2>5 DEF Doing, Reads
  <2> QED
    BY <1>8, <2>2, <2>3, <2>4, <2>5 DEF SettlesSeen
<1>9. CASE Does("rumor", OnRollup(ResolveRumor(1)))
  <2>1. OnRollup(ResolveRumor(1)) => market'.outcome = "Forgiven"
    BY <1>0 DEF OnRollup, ResolveRumor, LooseMarketRecord
  <2> QED
    BY <1>1, <1>2, <1>9, <2>1 DEF Does, Doing, Lands, Unheard, Moves, Post, Succeeds
<1>10. CASE Does("closeBook", OnRollup(CloseBook))
  <2>1. OnRollup(CloseBook) => market'.status = "Settled"
    BY <1>0 DEF OnRollup, CloseBook, LooseMarketRecord
  <2> QED
    BY <1>1, <1>2, <1>10, <2>1 DEF Does, Doing, Lands, Unheard, OnRollup, Moves, Sent, Post, Succeeds
<1>11. CASE Does("secretPermission", InitSecretPermission)
  <2>1. InitSecretPermission =>
          /\ secret'.permission # "none" /\ secret'.members = {Author} /\ market' = market
          /\ IsConfession(market) => secret'.permission = "private"
    BY <1>0 DEF InitSecretPermission, SecretRecord, vars, marketVars
  <2> QED
    BY <1>1, <1>2, <1>11, <2>1
       DEF Does, Doing, Lands, Unheard, Moves, Post, Succeeds, IsConfession
<1>12. CASE Does("grant", Grant)
  <2>1. Grant =>
          /\ secret'.permission = "private" /\ secret'.members = {Author, market.sole_reader}
          /\ market' = market /\ market.sole_reader # Nobody
    BY <1>0, MarketAssumption
       DEF Grant, GrantReader, Admissible, Grantable, SecretRecord, vars, marketVars
  <2> QED
    BY <1>1, <1>2, <1>12, <2>1 DEF Does, Doing, Lands, Unheard, Moves, Sent, Post, Succeeds
<1>13. CASE Does("carve", WriteTombstone)
  <2>1. WriteTombstone => tomb'.account = "carved"
    BY DEF WriteTombstone, Carved
  <2> QED
    BY <1>1, <1>2, <1>13, <2>1 DEF Does, Doing, Lands, Unheard, Moves, Sent, Post, Succeeds
<1>14. CASE \/ OnTheRollup \/ CameHome \/ Sleeps
            \/ Awaits("verdict", market.status = "Resolved", Unanswered)
  BY <1>1, <1>14 DEF OnTheRollup, CameHome, Sleeps, Reads, Awaits, Doing, Post, Succeeds
<1>15. CASE CarvedByAction
  <2>1. Still => tomb' = tomb
    BY DEF Still, allVars, lifeVars
  <2> QED
    BY <1>1, <1>15, <2>1 DEF CarvedByAction, Awaits, Doing, Post, Succeeds
<1>16. CASE \/ Checks("uncarved", tomb.account = "open")
            \/ Checks("private?", Private) \/ Checks("closed?", NobodyElse)
  BY <1>1, <1>16 DEF Checks, Doing, Post, Succeeds
<1>17. CASE Evidence \/ Describes
  BY <1>1, <1>17 DEF Evidence, Describes, Reads, Doing, Post, Succeeds
<1> QED
  BY <1>3, <1>4, <1>5, <1>6, <1>7, <1>8, <1>9, <1>10, <1>11, <1>12, <1>13, <1>14, <1>15, <1>16, <1>17
     DEF ScriptStep

\* A step that goes through takes the script on, and claims what it may.
LEMMA ScriptGoesOn ==
  ASSUME ScriptShape, script.left # <<>>, market'.room = market.room,
         NEW step \in ScriptSteps, step = Head(script.left), Succeeds(step)
  PROVE  /\ ScriptShape' /\ script'.kind = script.kind
         /\ ToSet(script.left) = {step} \cup ToSet(script'.left)
<1> DEFINE told == {"nothing", "tombstoned on L1", "on the ER", "signed by the validator",
                    "no such transaction"}
           Scripts == [kind : Kinds, left : Seq(ScriptSteps),
                       ended : {"running", "passed", "failed"}, told : told]
<1>0. script \in Scripts
  BY DEF ScriptShape
<1>1. /\ step \in ToSet(script.left) /\ Tail(script.left) \in Seq(ScriptSteps)
      /\ ToSet(script.left) = {step} \cup ToSet(Tail(script.left))
      /\ Len(script.left) = 1 <=> Tail(script.left) = <<>>
  BY <1>0, StepTaken
<1>2. PICK claim \in told, over \in {"running", "passed", "failed"} :
        /\ script' = [script EXCEPT !.left = Tail(script.left), !.told = claim, !.ended = over]
        /\ over = IF Len(script.left) = 1 THEN "passed" ELSE script.ended
        /\ \/ claim = script.told \/ claim \in {"on the ER", "no such transaction"}
           \/ claim = "signed by the validator" /\ step.do = "evidence"
           \/ claim = "tombstoned on L1" /\ script.kind = "voted_no"
  <2> DEFINE over == IF Len(script.left) = 1 THEN "passed" ELSE script.ended
  <2>1. over \in {"running", "passed", "failed"}
    BY <1>0
  <2>2. CASE Proceeds
    <3>1. script' = [script EXCEPT !.left = Tail(script.left), !.told = script.told, !.ended = over]
      BY <1>0, <2>2 DEF Proceeds
    <3> QED
      BY <1>0, <2>1, <3>1
  <2>3. ASSUME NEW claim, Prints(claim)
        PROVE  script' = [script EXCEPT !.left = Tail(script.left), !.told = claim, !.ended = over]
    BY <1>0, <2>3 DEF Prints
  <2> HIDE DEF over
  <2> QED
    BY <2>1, <2>2, <2>3 DEF Succeeds, Described, over
<1> HIDE DEF told
<1>3. /\ script'.kind = script.kind /\ script'.left = Tail(script.left) /\ script'.ended = over
      /\ script'.told = claim /\ script' \in Scripts
  BY <1>0, <1>1, <1>2
<1>4. step.do = "evidence" => script.kind = "magic"
  BY <1>0, <1>1, EveryScript DEF ScriptShape
<1>5. ScriptShape'
  BY <1>1, <1>2, <1>3, <1>4 DEF ScriptShape, told
<1> QED
  BY <1>1, <1>3, <1>5
----------------------------------------------------------------------------
(* The scripts' invariant.                                                 *)

\* The bids in the book are the ones the script made.
LEMMA NoNewBids ==
  ASSUME LifeInvariant, Moves, NEW b \in Bidders, Placed(b)'
  PROVE  Placed(b)
<1>0. LooseTypeOK
  BY DEF LifeInvariant, Book, Invariant, Life
<1>1. ASSUME NEW c \in Bidders, bids[c].account = "open", \A d \in Bidders \ {c} : bids'[d] = bids[d]
      PROVE  Placed(b)
  BY <1>1 DEF Placed
<1>2. CASE bids' = bids
  BY <1>2 DEF Placed
<1>3. ASSUME NEW c \in Bidders, InitBidPermission(c) \/ SettleBid(c) \/ CloseBid(c) \/ SettleAndClose(c)
      PROVE  Placed(b)
  <2>1. bids[c].account = "open"
    BY <1>3 DEF InitBidPermission, SettleBid, Settleable, CloseBid, Closeable, SettleAndClose
  <2>2. \A d \in Bidders \ {c} : bids'[d] = bids[d]
    <3>1. bids \in [Bidders -> LooseBidRecord]
      BY <1>0 DEF LooseTypeOK
    <3> QED
      BY <1>3, <3>1 DEF InitBidPermission, SettleBid, CloseBid, SettleAndClose
  <2> QED
    BY <1>1, <2>1, <2>2
<1>4. CASE Tick \/ ExpireMarket \/ RequestResolutionVrf \/ RetryVrf \/ CloseBook \/ CallbackRejected
           \/ OracleFails \/ (\E draw \in Draws, coin \in BOOLEAN : CallbackResolve(draw, coin))
           \/ ResolveRumor(1)
  BY <1>2, <1>4 DEF Tick, ExpireMarket, RequestResolutionVrf, RetryVrf, CloseBook, CallbackRejected,
     OracleFails, CallbackResolve, ResolveRumor
<1>5. CASE \/ CreateMarket \/ CreateSecretShell \/ DelegateMarket \/ DelegateSecret
           \/ InitSecretPermission \/ SealSecret(1) \/ OpenTombstone \/ SealTombstone \/ ActionDropped
  BY <1>2, <1>5 DEF CreateMarket, CreateSecretShell, DelegateMarket, DelegateSecret,
     InitSecretPermission, SealSecret, OpenTombstone, SealTombstone, ActionDropped, vars, marketVars
<1>6. CASE Grant \/ FinalizeMarket \/ MarketReturns \/ WriteTombstone \/ UNCHANGED allVars
  BY <1>2, <1>6 DEF Grant, GrantReader, FinalizeMarket, MarketReturns, WriteTombstone, allVars, vars,
     marketVars
<1>7. ASSUME NEW ACTION A, OnBase(A) PROVE bids' = bids
  BY <1>7 DEF OnBase, marketVars
<1>8. CASE Sent
  BY <1>3, <1>4, <1>6, <1>8 DEF Sent
<1> QED
  BY <1>2, <1>4, <1>5, <1>7, <1>8 DEF Moves, OnRollup

\* Whatever is sent, the script's bids stay its own.
LEMMA OwnBidsKeep ==
  ASSUME LifeInvariant, OwnBids, script'.kind = script.kind,
         Moves \/ \E step \in StepsOf(script.kind) : BidsOnce(step)
  PROVE  OwnBids'
<1>1. [LifeNext]_allVars /\ LooseTypeOK
  BY MovesAreLife DEF LifeInvariant, Book, Invariant, Life
<1>2. ASSUME NEW b \in Bidders, Placed(b)
      PROVE  /\ bids'[b].funded
             /\ \E step \in StepsOf(script.kind) : IsBid(step) /\ step.by = b /\ step.side = bids'[b].side
  <2>1. /\ bids[b].funded
        /\ \E step \in StepsOf(script.kind) : IsBid(step) /\ step.by = b /\ step.side = bids[b].side
    BY <1>2 DEF OwnBids
  <2>2. bids'[b].side = bids[b].side /\ (bids[b].funded => bids'[b].funded)
    BY <1>1, <1>2, BidsStand DEF BidStands
  <2> QED
    BY <2>1, <2>2
<1>3. ASSUME NEW b \in Bidders, Placed(b)', ~Placed(b)
      PROVE  /\ bids'[b].funded
             /\ \E step \in StepsOf(script.kind) : IsBid(step) /\ step.by = b /\ step.side = bids'[b].side
  <2>1. ~Moves
    BY <1>3, NoNewBids
  <2>2. PICK step \in StepsOf(script.kind) : BidsOnce(step)
    BY <2>1
  <2>3. PICK amount \in Amounts : PlaceAndFund(step.by, step.side, amount)
    BY <2>2 DEF BidsOnce, OnRollup
  <2>4. /\ \A d \in Bidders \ {step.by} : bids'[d] = bids[d]
        /\ bids'[step.by].funded /\ bids'[step.by].side = step.side
    BY <1>1, <2>2, <2>3, PlaceAndFundEffect DEF BidsOnce
  <2>5. b = step.by
    BY <1>3, <2>4 DEF Placed
  <2> QED
    BY <2>2, <2>4, <2>5 DEF BidsOnce
<1>4. ASSUME NEW b \in Bidders, Placed(b)'
      PROVE  /\ bids'[b].funded
             /\ \E step \in StepsOf(script.kind) : IsBid(step) /\ step.by = b /\ step.side = bids'[b].side
  BY <1>2, <1>3, <1>4
<1>5. StepsOf(script.kind)' = StepsOf(script.kind)
  BY DEF StepsOf, Program
<1> QED
  BY <1>4, <1>5 DEF OwnBids

\* Whatever is sent beside the script or by it, all but its place in its list is kept.
LEMMA SentBesideScripts ==
  ASSUME ScriptInvariant, script'.kind = script.kind,
         Moves \/ \E step \in StepsOf(script.kind) : BidsOnce(step)
  PROVE  /\ LifeInvariant' /\ Engraved' /\ OwnBids' /\ CameHomeShown'
         /\ market'.room = market.room
         /\ \A step \in StepsOf(script.kind) : Post(step) => Post(step)'
<1>1. LifeInvariant /\ Engraved /\ ScriptShape /\ OwnBids /\ CameHomeShown
  BY DEF ScriptInvariant
<1>2. [LifeNext]_allVars
  BY MovesAreLife
<1>3. LifeInvariant' /\ Engraved'
  BY <1>1, <1>2, LifeKeeps, EngravedStep
<1>4. OwnBids' /\ CameHomeShown'
  BY <1>1, OwnBidsKeep, CameHomeKeeps
<1>5. StepsOf(script.kind) \subseteq ScriptSteps
  <2>1. script.kind \in Kinds
    BY <1>1 DEF ScriptShape
  <2>2. Program[script.kind].steps \in Seq(ScriptSteps)
    BY <2>1, EveryScript
  <2> QED
    BY <2>2 DEF StepsOf, ToSet
<1> QED
  BY <1>1, <1>2, <1>3, <1>4, <1>5, RoomStands, PostStands

\* What is sent by others leaves the script where it is.
LEMMA OthersKeepScripts ==
  ASSUME ScriptInvariant, Moves, script' = script
  PROVE  ScriptInvariant'
<1>1. /\ LifeInvariant' /\ Engraved' /\ OwnBids' /\ CameHomeShown' /\ market'.room = market.room
      /\ \A step \in StepsOf(script.kind) : Post(step) => Post(step)'
  BY SentBesideScripts
<1>2. StepsOf(script.kind)' = StepsOf(script.kind) /\ Program' = Program
  BY DEF StepsOf, Program
<1>3. ScriptShape'
  BY <1>1, <1>2 DEF ScriptInvariant, ScriptShape
<1>4. DoneIsDone'
  <2>1. \A step \in StepsOf(script.kind) : step \notin ToSet(script'.left) => Post(step)'
    BY <1>1 DEF ScriptInvariant, DoneIsDone
  <2> QED
    BY <1>2, <2>1 DEF DoneIsDone
<1> QED
  BY <1>1, <1>3, <1>4 DEF ScriptInvariant

\* A script's step sends what is next on its list, and ends with it done or throws.
LEMMA StepAtHead ==
  ASSUME ScriptInvariant, ScriptStep
  PROVE  /\ script.ended = "running"
         /\ script.left \in Seq(ScriptSteps) /\ script.left # <<>>
         /\ \E step \in ScriptSteps :
              /\ step = Head(script.left) /\ step \in StepsOf(script.kind)
              /\ Moves \/ BidsOnce(step)
              /\ Throws \/ (Post(step)' /\ Succeeds(step))
<1>0. LifeInvariant /\ ScriptShape /\ DoneIsDone
  BY DEF ScriptInvariant
<1>1. script.ended = "running"
  <2>1. CASE SettlesSeen \/ Sleeps \/ Evidence \/ Describes
    BY <2>1 DEF Sleeps, SettlesSeen, Evidence, Describes, Doing
  <2>2. CASE ~(SettlesSeen \/ Sleeps \/ Evidence \/ Describes)
    BY <2>2 DEF ScriptStep, Does, Tries, Awaits, Checks, OnTheRollup, CameHome, CarvedByAction, Doing
  <2> QED
    BY <2>1, <2>2
<1>2. script.kind \in Kinds /\ script.left \in Seq(ScriptSteps) /\ script.left # <<>>
      /\ ToSet(script.left) \subseteq StepsOf(script.kind)
  BY <1>0, <1>1 DEF ScriptShape
<1>3. PICK step \in ScriptSteps : step = Head(script.left) /\ step \in StepsOf(script.kind)
  <2>1. Head(script.left) \in ToSet(script.left)
    BY <1>2, StepTaken
  <2> QED
    BY <1>2, <2>1 DEF ToSet
<1>4. /\ Moves \/ BidsOnce(step)
      /\ Throws \/ (Post(step)' /\ Succeeds(step))
  BY <1>0, <1>3, StepDoes
<1> QED
  BY <1>1, <1>2, <1>3, <1>4

\* The script's own step takes it on, or ends it.
LEMMA ScriptStepKeeps ==
  ASSUME ScriptInvariant, ScriptStep
  PROVE  ScriptInvariant'
<1>0. LifeInvariant /\ ScriptShape /\ DoneIsDone
  BY DEF ScriptInvariant
<1>1. script.ended = "running"
  BY StepAtHead
<1>2. script.kind \in Kinds /\ script.left \in Seq(ScriptSteps) /\ script.left # <<>>
      /\ ToSet(script.left) \subseteq StepsOf(script.kind)
  BY <1>0, StepAtHead DEF ScriptShape
<1>3. PICK step \in ScriptSteps :
        /\ step = Head(script.left) /\ step \in StepsOf(script.kind)
        /\ Moves \/ BidsOnce(step)
        /\ Throws \/ (Post(step)' /\ Succeeds(step))
  BY StepAtHead
<1>4. /\ Moves \/ BidsOnce(step)
      /\ Throws \/ (Post(step)' /\ Succeeds(step))
  BY <1>3
<1>5. script'.kind = script.kind
  <2>1. CASE Throws
    BY <1>0, <2>1 DEF Throws, ScriptShape
  <2>2. ASSUME NEW claim, Prints(claim) PROVE script'.kind = script.kind
    BY <1>0, <2>2 DEF Prints, ScriptShape
  <2>3. CASE Proceeds
    BY <1>0, <2>3 DEF Proceeds, ScriptShape
  <2> QED
    BY <1>4, <2>1, <2>2, <2>3 DEF Succeeds
<1>6. /\ LifeInvariant' /\ Engraved' /\ OwnBids' /\ CameHomeShown' /\ market'.room = market.room
      /\ \A s \in StepsOf(script.kind) : Post(s) => Post(s)'
  BY <1>3, <1>4, <1>5, SentBesideScripts
<1>7. StepsOf(script.kind)' = StepsOf(script.kind) /\ Program' = Program
  BY <1>5 DEF StepsOf, Program
<1>8. CASE Throws
  <2>1. /\ script'.left = script.left /\ script'.ended = "failed" /\ script'.told = script.told
        /\ script' \in [kind : Kinds, left : Seq(ScriptSteps), ended : {"running", "passed", "failed"},
                        told : {"nothing", "tombstoned on L1", "on the ER", "signed by the validator",
                                "no such transaction"}]
    BY <1>0, <1>8 DEF Throws, ScriptShape
  <2>2. ScriptShape'
    BY <1>0, <1>5, <1>6, <1>7, <2>1 DEF ScriptShape
  <2>3. DoneIsDone'
    BY <1>0, <1>6, <1>7, <2>1 DEF DoneIsDone
  <2> QED
    BY <1>6, <2>2, <2>3 DEF ScriptInvariant
<1>9. CASE Post(step)' /\ Succeeds(step)
  <2>1. ScriptShape' /\ ToSet(script.left) = {step} \cup ToSet(script'.left)
    BY <1>0, <1>2, <1>3, <1>6, <1>9, ScriptGoesOn
  <2>2. \A s \in StepsOf(script.kind) : s \notin ToSet(script'.left) => Post(s)'
    BY <1>0, <1>6, <1>9, <2>1 DEF DoneIsDone
  <2>3. DoneIsDone'
    BY <1>7, <2>2 DEF DoneIsDone
  <2> QED
    BY <1>6, <2>1, <2>3 DEF ScriptInvariant
<1> QED
  BY <1>4, <1>8, <1>9

\* Every step of a script, the keeper beside it and the world keeps the invariant.
LEMMA ScriptInvariantIsKept == ScriptInvariant /\ [ScriptNext]_scriptVars => ScriptInvariant'
<1> SUFFICES ASSUME ScriptInvariant, [ScriptNext]_scriptVars PROVE ScriptInvariant'
  OBVIOUS
<1>1. CASE ScriptStep
  BY <1>1, ScriptStepKeeps
<1>2. CASE KeeperStep /\ UNCHANGED script
  BY <1>2, KeeperSends, OthersKeepScripts DEF Moves
<1>3. CASE Nature /\ UNCHANGED script
  <2>1. Moves
    BY <1>3 DEF Nature, Answer, OnRollup, Moves, Sent
  <2> QED
    BY <1>3, <2>1, OthersKeepScripts
<1>4. CASE UNCHANGED scriptVars
  BY <1>4, OthersKeepScripts DEF scriptVars, crankVars, Moves, Sent
<1> QED
  BY <1>1, <1>2, <1>3, <1>4 DEF ScriptNext

\* The scripts' invariant holds of every run of one, alone or beside the keeper, on a
\* rollup that filters or not: the steps behind it that Post speaks of are done, the book
\* holds its own bids and no others, and a market that came home shows what its verdict
\* calls for (harness.ts, smoke.ts, seed.ts).
THEOREM ScriptInvariantHolds == ScriptSpec => []ScriptInvariant
BY ScriptStarts, ScriptInvariantIsKept, PTL DEF ScriptSpec

\* Every run of a script is a life of a market as module Lifecycle allows it: the steps
\* of smoke.ts, seed.ts, demo.ts and prove-*.ts, of the keeper and of the world are the
\* program's.
THEOREM ScriptsAreLives == ScriptSpec => LifeSpec
<1>1. VillageAtRest => Init /\ LifeInit
  BY DEF VillageAtRest
<1>2. ASSUME ScriptInvariant, [ScriptNext]_scriptVars
      PROVE  [LifeNext]_allVars
  <2>1. CASE ScriptStep
    BY <1>2, <2>1, StepAtHead, MovesAreLife
  <2>2. CASE KeeperStep /\ UNCHANGED script
    BY <2>2, KeeperSends, SentIsLife
  <2>3. CASE Nature /\ UNCHANGED script
    <3>1. Moves
      BY <2>3 DEF Nature, Answer, OnRollup, Moves, Sent
    <3> QED
      BY <3>1, MovesAreLife
  <2>4. CASE UNCHANGED scriptVars
    BY <2>4 DEF scriptVars, crankVars
  <2> QED
    BY <1>2, <2>1, <2>2, <2>3, <2>4 DEF ScriptNext
<1> QED
  BY <1>1, <1>2, ScriptInvariantHolds, PTL DEF ScriptSpec, LifeSpec

\* What a script carves, or the keeper for it, a stranger with nothing but Solana finds
\* no fault with (verify-market.ts).
THEOREM ScriptedMarketsVerify == ScriptSpec => []BuriedMarketsVerify
BY ScriptsAreLives, BuriedMarketsAreVerified, PTL

----------------------------------------------------------------------------
(* What exit code 0 claims.                                                *)

\* A side that no step of the script bids on has an empty pot.
LEMMA UnbidPotIsEmpty ==
  ASSUME ScriptInvariant, NEW side \in Sides,
         \A step \in StepsOf(script.kind) : IsBid(step) => step.side # side
  PROVE  market.pot[side] = 0
<1>0. /\ OwnBids /\ BidLife /\ PotsAreStakes(market, bids)
      /\ market \in LooseMarketRecord /\ bids \in [Bidders -> LooseBidRecord]
  BY DEF ScriptInvariant, LifeInvariant, Book, Invariant, Life, LooseTypeOK, Money
<1>1. ASSUME NEW b \in Bidders PROVE StakesOn(bids, side)[b] = 0
  <2>1. CASE Placed(b)
    BY <1>0, <2>1 DEF OwnBids, StakesOn
  <2>2. CASE ~Placed(b)
    BY <1>0, <2>2 DEF BidLife, Placed, StakesOn, Staked
  <2> QED
    BY <2>1, <2>2
<1>2. StakesOn(bids, side) \in [Bidders -> Int] /\ IsFiniteSet(Bidders) /\ Cardinality(Bidders) \in Nat
  BY <1>1, MarketAssumption, FS_CardinalityType DEF StakesOn
<1>3. SumFunction(StakesOn(bids, side)) = 0 * Cardinality(Bidders)
  BY <1>1, <1>2, SumOfSame
<1> QED
  BY <1>0, <1>2, <1>3 DEF PotsAreStakes

\* A side that was bid on has something in its pot.
LEMMA ABidFillsItsPot ==
  ASSUME ScriptInvariant, NEW b \in Bidders, Placed(b), bids[b].side = "Seal"
  PROVE  market.pot["Seal"] > 0
<1>1. /\ bids[b].funded /\ bids[b].amount > 0 /\ Invariant /\ Money
      /\ "Seal" \in Sides /\ market.pot["Seal"] \in Nat
  BY DEF ScriptInvariant, OwnBids, LifeInvariant, Book, Priced, Invariant, Life, LooseTypeOK,
     LooseMarketRecord, Sides
<1> QED
  BY <1>1, EmptyPotIsNobodys

\* A reader is named by a verdict that lets one in, and is one of the script's bidders.
LEMMA ReaderOfScript ==
  ASSUME ScriptInvariant, market.sole_reader # Nobody
  PROVE  /\ market.outcome \in {"SoleReader", "Inherited"}
         /\ market.sole_reader \in Bidders /\ Placed(market.sole_reader)
BY DEF ScriptInvariant, LifeInvariant, Book, Invariant, Life, BidLife, ReaderIsChosen, IsChosenBid, Placed

\* Without a reader nobody is let in.
LEMMA NobodyLetIn ==
  ASSUME ScriptInvariant, market.sole_reader = Nobody, Author \in secret.members
  PROVE  secret.members = {Author}
BY DEF ScriptInvariant, LifeInvariant, MembersAreReader

\* A closed book has every stake answered.
LEMMA ClosedIsAnswered ==
  ASSUME ScriptInvariant, market.status = "Settled"
  PROVE  Answered
<1>1. SettledMeansDone
  BY DoneWhenClosed DEF ScriptInvariant, LifeInvariant, Book
<1> QED
  BY <1>1 DEF SettledMeansDone, Answered, Stakes

\* What a tombstone says at the end of a script.
LEMMA ScriptsStone ==
  ASSUME ScriptInvariant, tomb.account = "carved"
  PROVE  /\ tombstoned /\ Answered
         /\ tomb.outcome = market.outcome /\ tomb.sole_reader = market.sole_reader
         /\ tomb.commitment = secret.body /\ tomb.revealed = RevealOf
         /\ market.room = "GuiltMarket" =>
              market.outcome = IF market.pot["Seal"] > 0 THEN "Buried"
                               ELSE IF market.pot["Read"] > 0 THEN "SoleReader" ELSE "PublicLeak"
<1>1. LifeInvariant /\ Book /\ TombstoneIsTrue /\ CommittedToBody /\ CameHomeShown
  BY DEF ScriptInvariant, LifeInvariant
<1>2. market.status = "Settled"
  BY <1>1 DEF TombstoneIsTrue
<1> QED
  BY <1>1, <1>2, SettledVerdict, ClosedIsAnswered DEF TombstoneIsTrue, CommittedToBody, CameHomeShown

\* A script that passed has done all of its steps.
LEMMA PassedIsDone ==
  ASSUME ScriptInvariant, script.ended = "passed"
  PROVE  /\ script.kind \in Kinds /\ market.room = Program[script.kind].room
         /\ \A step \in StepsOf(script.kind) : Post(step)
<1>1. script.kind \in Kinds /\ market.room = Program[script.kind].room /\ script.left = <<>>
  BY DEF ScriptInvariant, ScriptShape
<1>2. ToSet(script.left) = {}
  BY <1>1 DEF ToSet
<1> QED
  BY <1>1, <1>2 DEF ScriptInvariant, DoneIsDone

\* smoke.ts.
LEMMA GreenSmoke ==
  ASSUME ScriptInvariant, script.ended = "passed", script.kind = "smoke"
  PROVE  /\ tomb.account = "carved" /\ tomb.outcome = "SoleReader" /\ Answered
         /\ secret.members = {Author, tomb.sole_reader} /\ tomb.revealed = NoReveal
<1>1. market.room = "GuiltMarket" /\ StepsOf("smoke") = ToSet(Smoke)
  BY PassedIsDone, ProgramTable DEF StepsOf
<1>2. Post(Do("grant")) /\ Post(Do("carve"))
  BY <1>1, PassedIsDone, SmokeList
<1>3. /\ market.sole_reader # Nobody /\ secret.members = {Author, market.sole_reader}
      /\ tomb.account = "carved"
  BY <1>2, StepFields DEF Post
<1>4. market.pot["Seal"] = 0
  <2>1. "Seal" \in Sides
    BY DEF Sides
  <2> QED
    BY <1>1, <2>1, SmokeList, UnbidPotIsEmpty
<1>5. market.outcome = "SoleReader"
  BY <1>1, <1>3, <1>4, ScriptsStone, ReaderOfScript
<1>6. RevealOf = NoReveal
  BY <1>5 DEF RevealOf
<1> QED
  BY <1>3, <1>5, <1>6, ScriptsStone

\* demo.ts's first market, and prove-magic-action.ts.
LEMMA GreenBuried ==
  ASSUME ScriptInvariant, script.ended = "passed", script.kind \in {"demo", "magic"}
  PROVE  /\ tomb.account = "carved" /\ tomb.outcome = "Buried" /\ Answered
         /\ secret.members = {Author} /\ tomb.revealed = NoReveal
<1>1. /\ market.room = "GuiltMarket"
      /\ StepsOf("demo") = ToSet(Demo) /\ StepsOf("magic") = ToSet(Magic)
  BY PassedIsDone, ProgramTable DEF StepsOf
<1>2. /\ Post(Do("secretPermission")) /\ Post(By("bid", Villagers[1], "Seal"))
      /\ Post(Do("carve")) \/ Post(Do("carvedByAction"))
  BY <1>1, PassedIsDone, DemoList, MagicList
<1>3. /\ tomb.account = "carved" /\ Author \in secret.members
      /\ Placed(Villagers[1]) /\ bids[Villagers[1]].side = "Seal"
  BY <1>2, StepFields DEF Post
<1>4. Villagers[1] \in Bidders
  BY ScriptAssumption
<1>5. market.outcome = "Buried"
  BY <1>1, <1>3, <1>4, ABidFillsItsPot, ScriptsStone
<1>6. RevealOf = NoReveal /\ market.sole_reader = Nobody
  BY <1>5, ReaderOfScript DEF RevealOf
<1> QED
  BY <1>3, <1>5, <1>6, ScriptsStone, NobodyLetIn

\* demo.ts's second market, and seed.ts's that is voted down.
LEMMA GreenLeak ==
  ASSUME ScriptInvariant, script.ended = "passed", script.kind \in {"voted_no", "demo_leak"}
  PROVE  /\ tomb.account = "carved" /\ tomb.outcome = "PublicLeak"
         /\ tomb.revealed = [text |-> "body", version |-> tomb.commitment, salt |-> TRUE]
<1>1. /\ market.room = "GuiltMarket"
      /\ StepsOf("voted_no") = ToSet(Seed(<<>>, TRUE)) /\ StepsOf("demo_leak") = ToSet(DemoLeak)
  BY PassedIsDone, ProgramTable DEF StepsOf
<1>2. Post(Do("carve")) /\ \A step \in StepsOf(script.kind) : ~IsBid(step)
  BY <1>1, PassedIsDone, UnbidLists
<1>3. tomb.account = "carved"
  BY <1>2, StepFields DEF Post
<1>4. market.pot["Seal"] = 0 /\ market.pot["Read"] = 0
  <2>1. "Seal" \in Sides /\ "Read" \in Sides
    BY DEF Sides
  <2> QED
    BY <1>2, <2>1, UnbidPotIsEmpty
<1>5. market.outcome = "PublicLeak"
  BY <1>1, <1>3, <1>4, ScriptsStone
<1>6. RevealOf = [text |-> "body", version |-> secret.body, salt |-> TRUE]
  BY <1>5 DEF RevealOf
<1> QED
  BY <1>3, <1>5, <1>6, ScriptsStone

\* demo.ts's third market.
LEMMA GreenRumor ==
  ASSUME ScriptInvariant, script.ended = "passed", script.kind = "demo_rumor"
  PROVE  market.status = "Settled" /\ market.outcome = "Forgiven" /\ Answered
<1>1. StepsOf("demo_rumor") = ToSet(DemoRumor)
  BY ProgramTable DEF StepsOf
<1>2. Post(Do("rumor")) /\ Post(Do("closeBook"))
  BY <1>1, PassedIsDone, RumorList
<1>3. market.status = "Settled" /\ market.outcome = "Forgiven"
  BY <1>2, StepFields DEF Post
<1> QED
  BY <1>3, ClosedIsAnswered

\* prove-privacy.ts.
LEMMA GreenPrivacy ==
  ASSUME ScriptInvariant, script.ended = "passed", script.kind = "privacy"
  PROVE  secret.permission = "private" /\ secret.members = {Author}
<1>1. StepsOf("privacy") = ToSet(Privacy) /\ market.room = "GuiltMarket"
  BY PassedIsDone, ProgramTable DEF StepsOf
<1>2. Post(Do("secretPermission")) /\ \A step \in StepsOf("privacy") : ~IsBid(step)
  BY <1>1, PassedIsDone, UnbidLists
<1>3. IsConfession(market)
  BY <1>1 DEF IsConfession, ConfessionRooms
<1>4. secret.permission = "private" /\ Author \in secret.members
  BY <1>2, <1>3, StepFields DEF Post
<1>5. market.sole_reader = Nobody
  <2>1. \A b \in Bidders : ~Placed(b)
    BY <1>2 DEF ScriptInvariant, OwnBids
  <2> QED
    BY <2>1, ReaderOfScript
<1> QED
  BY <1>4, <1>5, NobodyLetIn

\* seed.ts's markets that are left with their bids.
LEMMA GreenSeed ==
  ASSUME ScriptInvariant, script.ended = "passed", script.kind \in Seeded,
         NEW i \in 1..Len(Program[script.kind].steps), Program[script.kind].steps[i].do = "bid"
  PROVE  LET step == Program[script.kind].steps[i]
         IN  /\ Placed(step.by) /\ bids[step.by].side = step.side
             /\ bids[step.by].private \/ bids[step.by].settled
<1> DEFINE step == Program[script.kind].steps[i]
<1>1. script.kind \in Kinds /\ \A s \in StepsOf(script.kind) : Post(s)
  BY PassedIsDone
<1>2. step \in StepsOf(script.kind)
  <2>1. Program[script.kind].steps \in Seq(ScriptSteps)
    BY <1>1, EveryScript
  <2>2. i \in DOMAIN Program[script.kind].steps
    BY <2>1, LenProperties
  <2> QED
    BY <2>2 DEF StepsOf, ToSet
<1>3. PICK made \in StepsOf(script.kind) : made.do = "private" /\ made.by = step.by
  <2> HIDE DEF step
  <2>1. step.do = "bid"
    BY DEF step
  <2> QED
    BY <1>1, <1>2, <2>1, EveryScript
<1>4. Post(step) /\ Post(made)
  BY <1>1, <1>2, <1>3
<1> QED
  BY <1>3, <1>4 DEF Post

\* Exit code 0 is evidence: of any number of villagers and any amounts, whatever is lost,
\* whichever bids the keeper settled first and the script passed over, and whichever the
\* rollup hides, a script that passes leaves behind what its last line says (smoke.ts,
\* seed.ts, demo.ts, prove-magic-action.ts, prove-privacy.ts).
THEOREM GreenIsEvidence == ScriptSpec => []GreenMeansBuried
<1>1. ASSUME ScriptInvariant PROVE GreenMeansBuried
  <2> SUFFICES ASSUME script.ended = "passed" PROVE GreenMeansBuried
    BY DEF GreenMeansBuried
  <2>1. script.told \in {"tombstoned on L1", "signed by the validator"} => tombstoned
    <3>1. script.told \in {"tombstoned on L1", "signed by the validator"} =>
            script.kind \in {"voted_no", "magic"}
      BY <1>1 DEF ScriptInvariant, ScriptShape
    <3>2. script.kind \in {"voted_no", "magic"} => tomb.account = "carved"
      BY <1>1, GreenBuried, GreenLeak
    <3> QED
      BY <1>1, <3>1, <3>2, ScriptsStone
  <2>2. CASE script.kind = "smoke"
    BY <1>1, <2>1, <2>2, GreenSmoke DEF GreenMeansBuried
  <2>3. CASE script.kind \in {"demo", "magic"}
    BY <1>1, <2>1, <2>3, GreenBuried DEF GreenMeansBuried
  <2>4. CASE script.kind \in {"voted_no", "demo_leak"}
    BY <1>1, <2>1, <2>4, GreenLeak DEF GreenMeansBuried
  <2>5. CASE script.kind = "demo_rumor"
    BY <1>1, <2>1, <2>5, GreenRumor DEF GreenMeansBuried
  <2>6. CASE script.kind = "privacy"
    BY <1>1, <2>1, <2>6, GreenPrivacy DEF GreenMeansBuried
  <2>7. CASE script.kind \in Seeded
    <3>1. script.kind \notin {"smoke", "demo", "magic", "voted_no", "demo_leak", "demo_rumor", "privacy"}
      BY <2>7 DEF Seeded
    <3>2. \A i \in 1..Len(Program[script.kind].steps) :
            LET step == Program[script.kind].steps[i]
            IN  step.do = "bid" => /\ Placed(step.by) /\ bids[step.by].side = step.side
                                   /\ bids[step.by].private \/ bids[step.by].settled
      BY <1>1, <2>7, GreenSeed
    <3> QED
      BY <2>1, <3>1, <3>2 DEF GreenMeansBuried
  <2>8. script.kind \in Kinds
    BY <1>1, PassedIsDone
  <2> QED
    BY <2>2, <2>3, <2>4, <2>5, <2>6, <2>7, <2>8, ProgramTable DEF Seeded
<1> QED
  BY <1>1, ScriptInvariantHolds, PTL
==============================================================================
