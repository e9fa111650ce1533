---------------------------- MODULE MarketSafety ----------------------------
(***************************************************************************)
(* The market's safety theorems: purses back bids, ranks are dense, the    *)
(* counters count, a closed book is done and a verdict is final.           *)
(***************************************************************************)
EXTENDS MarketProofs

\* The purse invariant is inductive, given types and the life of a bid.
LEMMA BackedStep == Life /\ PursesBackBids /\ [Next]_vars => PursesBackBids'
<1> SUFFICES ASSUME Life, PursesBackBids, [Next]_vars, NEW c \in Bidders
             PROVE  purse'[c].locked = LiveStake(c)' /\ (LiveStake(c)' > 0 => purse'[c].layer = "ER")
  BY DEF PursesBackBids
<1> USE DEF Life
<1> DEFINE Goal == purse'[c].locked = LiveStake(c)' /\ (LiveStake(c)' > 0 => purse'[c].layer = "ER")
<1>0. /\ bids[c] \in LooseBidRecord /\ purse[c] \in PurseRecord
      /\ purse[c].locked = LiveStake(c) /\ (LiveStake(c) > 0 => purse[c].layer = "ER")
      /\ purse[c].locked \in Nat /\ bids[c].amount \in Nat
  BY DEF LooseTypeOK, PursesBackBids, PurseRecord, LooseBidRecord
<1>a. ASSUME purse' = purse \/ purse'[c] = purse[c],
             bids'[c].funded = bids[c].funded, bids'[c].settled = bids[c].settled,
             bids'[c].amount = bids[c].amount
      PROVE  Goal
  BY <1>0, <1>a DEF LiveStake, Staked
<1>1. CASE PurseNext /\ UNCHANGED marketVars
  <2>1. LiveStake(c)' = LiveStake(c)
    BY <1>1 DEF marketVars, LiveStake, Staked
  <2>2. QED
    BY <1>0, <1>1, <2>1, PurseEffect
<1>2. ASSUME NEW b \in Bidders, NEW side \in Sides, NEW amount \in Amounts, PlaceBid(b, side, amount)
      PROVE  Goal
  <2>1. CASE c = b
    <3>1. LiveStake(c) = 0
      BY <1>2, <2>1, PlaceEffect DEF BidLife, LiveStake, Staked
    <3>2. LiveStake(c)' = 0
      BY <1>2, <2>1, PlaceEffect DEF LiveStake, Staked
    <3>3. QED
      BY <1>0, <1>2, <3>1, <3>2, PlaceEffect
  <2>2. QED
    BY <1>2, <2>1, <1>a, PlaceEffect
<1>3. ASSUME NEW b \in Bidders, FundBid(b)
      PROVE  Goal
  <2>1. CASE c = b
    <3>1. ~bids[c].settled /\ ~bids[c].funded
      BY <1>3, <2>1, FundMarket DEF BidLife
    <3>2. LiveStake(c) = 0
      BY <3>1 DEF LiveStake, Staked
    <3>3. bids'[c].funded = TRUE /\ bids'[c].settled = bids[c].settled /\ bids'[c].amount = bids[c].amount
      BY <1>3, <2>1, FundFields
    <3>4. LiveStake(c)' = bids[c].amount
      BY <3>1, <3>3 DEF LiveStake, Staked
    <3>5. purse'[c].locked = bids[c].amount /\ purse'[c].layer = "ER"
      <4>1. purse[c].locked = 0 /\ purse[c].layer = "ER"
        BY <1>0, <1>3, <2>1, <3>2 DEF FundBid, Lock
      <4>2. purse'[c].locked = purse[c].locked + bids[c].amount /\ purse'[c].layer = purse[c].layer
        BY <1>0, <1>3, <2>1, FundEffect DEF PurseRecord
      <4>3. QED
        BY <1>0, <4>1, <4>2
    <3>6. QED
      BY <3>4, <3>5
  <2>2. QED
    BY ZenonT(60), <1>3, <2>1, <1>a, FundEffect
<1>4. ASSUME NEW b \in Bidders, InitBidPermission(b)
      PROVE  Goal
  BY <1>0, <1>4, <1>a DEF InitBidPermission, LooseBidRecord, LooseTypeOK, purseVars
<1>5. CASE Tick \/ VerdictStep
  <2>1. purse' = purse /\ bids' = bids
    BY <1>5, VerdictFrame DEF Tick, purseVars
  <2>2. QED
    BY <2>1, <1>a
<1>6. ASSUME NEW b \in Bidders, SettleBid(b)
      PROVE  Goal
  <2>1. CASE c = b
    <3>1. ~bids[c].settled
      BY <1>6, <2>1, SettleMarket
    <3>2. purse[c].locked = Staked(bids[c])
      BY <1>0, <3>1 DEF LiveStake
    <3>3. purse'[c].locked = SatSub(purse[c].locked, Staked(bids[c]))
      BY <1>0, <1>6, <2>1, SettleEffect DEF PurseRecord
    <3>4. purse'[c].locked = 0
      BY <1>0, <3>2, <3>3 DEF SatSub
    <3>5. bids'[c].settled = TRUE
      BY <1>0, <1>6, <2>1, SettleEffect DEF LooseBidRecord
    <3>6. QED
      BY <3>4, <3>5 DEF LiveStake
  <2>2. QED
    BY <1>6, <2>1, <1>a, SettleEffect
<1>7. ASSUME NEW b \in Bidders, CloseBid(b)
      PROVE  Goal
  <2>1. purse' = purse
    BY <1>7, CloseMarket
  <2>2. CASE c = b
    <3>1. /\ bids'[c].settled = bids[c].settled /\ bids'[c].funded = bids[c].funded
          /\ bids'[c].amount = bids[c].amount
      BY <1>0, <1>7, <2>2, CloseEffect DEF LooseBidRecord
    <3>2. QED
      BY <2>1, <3>1, <1>a
  <2>3. QED
    BY <1>7, <2>1, <2>2, <1>a, CloseEffect
<1>8. CASE CloseBook \/ UNCHANGED vars
  <2>1. purse' = purse /\ bids' = bids
    BY <1>8 DEF CloseBook, vars, purseVars, marketVars
  <2>2. QED
    BY <2>1, <1>a
<1>9. ASSUME NEW b \in Bidders, NEW side \in Sides, NEW amount \in Amounts,
             PlaceAndFund(b, side, amount)
      PROVE  Goal
  <2>1. CASE c = b
    <3>1. LiveStake(c) = 0
      BY <1>9, <2>1, PlaceAndFundIsFirst DEF LiveStake, Staked
    <3>2. bids'[c].funded = TRUE /\ bids'[c].settled = FALSE /\ bids'[c].amount = amount
      BY <1>9, <2>1, PlaceAndFundEffect
    <3>3. LiveStake(c)' = amount
      BY <3>2 DEF LiveStake, Staked
    <3>4. purse'[c].locked = purse[c].locked + amount /\ purse'[c].layer = "ER" /\ amount \in Nat
      BY <1>9, <2>1, PlaceAndFundPurse, MarketAssumption
    <3>5. QED
      BY <1>0, <3>1, <3>3, <3>4
  <2>2. CASE c # b
    <3>1. purse'[c] = purse[c]
      BY <1>9, <2>2, PlaceAndFundPurse
    <3>2. bids'[c] = bids[c]
      BY <1>9, <2>2, PlaceAndFundEffect
    <3>3. QED
      BY <3>1, <3>2, <1>a
  <2>3. QED
    BY <2>1, <2>2
<1>10. ASSUME NEW b \in Bidders, SettleAndClose(b)
       PROVE  Goal
  <2>1. CASE c = b
    <3>1. ~bids[c].settled
      BY <1>10, <2>1, SettleAndCloseMarket
    <3>2. purse[c].locked = Staked(bids[c])
      BY <1>0, <3>1 DEF LiveStake
    <3>3. purse'[c].locked = SatSub(purse[c].locked, Staked(bids[c]))
      BY <1>0, <1>10, <2>1, SettleAndCloseEffect DEF PurseRecord
    <3>4. purse'[c].locked = 0
      BY <1>0, <3>2, <3>3 DEF SatSub
    <3>5. bids'[c].settled = TRUE
      BY <1>10, <2>1, SettledFields
    <3>6. QED
      BY <3>4, <3>5 DEF LiveStake
  <2>2. QED
    BY <1>10, <2>1, <1>a, SettleAndCloseEffect
<1>11. QED
  BY <1>1, <1>2, <1>3, <1>4, <1>5, <1>6, <1>7, <1>8, <1>9, <1>10
  DEF Next, BidStep, SettleStep

\* No bid is placed and nothing is locked when a market starts.
LEMMA PursesBackBidsInit == FreshBook => PursesBackBids
<1> SUFFICES ASSUME FreshBook PROVE PursesBackBids
  OBVIOUS
<1>1. \A b \in Bidders : ~bids[b].funded /\ ~bids[b].settled
  BY DEF FreshBook, MarketInit, NoBid
<1>2. ASSUME NEW b \in Bidders PROVE LiveStake(b) = 0 /\ ~(LiveStake(b) > 0)
  <2>1. LiveStake(b) = 0
    BY <1>1 DEF LiveStake, Staked
  <2>2. QED
    BY <2>1
<1>3. \A b \in Bidders : purse[b].locked = 0
  BY DEF FreshBook
<1>4. QED
  BY <1>2, <1>3 DEF PursesBackBids

\* A purse locks exactly its owner's unsettled stake and stays on the rollup
\* while it does.
THEOREM PursesAlwaysBackBids == Spec => []PursesBackBids
BY StartsFresh, LifeAtInit, LifeStep, PursesBackBidsInit, BackedStep, PTL DEF Spec

----------------------------------------------------------------------------
(* The book's order: indexes and read ranks.                               *)

\* Bids that hold a read rank.
Ranked(b) == bids[b].funded /\ bids[b].side = "Read"

\* Indexes and ranks are below their counters, no two bids share one, and no
\* rank is missing.
BookOrder ==
  /\ \A b \in Bidders : Placed(b) => bids[b].index < market.bid_count
  /\ \A b, c \in Bidders : Placed(b) /\ Placed(c) /\ bids[b].index = bids[c].index => b = c
  /\ \A b \in Bidders : Ranked(b) => bids[b].read_rank < market.read_bid_count
  /\ \A b, c \in Bidders : Ranked(b) /\ Ranked(c) /\ bids[b].read_rank = bids[c].read_rank => b = c
  /\ \A r \in 0..(market.read_bid_count - 1) : \E b \in Bidders : Ranked(b) /\ bids[b].read_rank = r
  /\ \A b \in Bidders : ~Ranked(b) => bids[b].read_rank = NoRank

\* A step that opens no bid and funds none leaves the order of the book alone.
Quiet ==
  /\ market'.bid_count = market.bid_count /\ market'.read_bid_count = market.read_bid_count
  /\ \A c \in Bidders :
       /\ bids'[c].account = "none" <=> bids[c].account = "none"
       /\ bids'[c].funded = bids[c].funded /\ bids'[c].side = bids[c].side
       /\ bids'[c].index = bids[c].index /\ bids'[c].read_rank = bids[c].read_rank

\* Only opening and funding a bid disturb the order of the book.
LEMMA BookSteps ==
  ASSUME Life, [Next]_vars
  PROVE  \/ Quiet
         \/ \E b \in Bidders, side \in Sides, amount \in Amounts : PlaceBid(b, side, amount)
         \/ \E b \in Bidders : FundBid(b)
         \/ \E b \in Bidders, side \in Sides, amount \in Amounts : PlaceAndFund(b, side, amount)
<1> USE DEF Life
<1>0. bids \in [Bidders -> LooseBidRecord] /\ \A c \in Bidders : bids[c] \in LooseBidRecord
  BY DEF LooseTypeOK
<1>1. CASE PurseNext /\ UNCHANGED marketVars
  BY <1>1 DEF marketVars, Quiet
<1>2. ASSUME NEW b \in Bidders, InitBidPermission(b)
      PROVE  Quiet
  BY <1>0, <1>2 DEF InitBidPermission, LooseBidRecord, Quiet
<1>3. CASE Tick \/ VerdictStep
  BY <1>3, VerdictFrame DEF Tick, Quiet
<1>4. ASSUME NEW b \in Bidders, SettleBid(b)
      PROVE  Quiet
  <2>1. /\ bids'[b].account = bids[b].account /\ bids'[b].funded = bids[b].funded
        /\ bids'[b].side = bids[b].side
        /\ bids'[b].index = bids[b].index /\ bids'[b].read_rank = bids[b].read_rank
    BY ZenonT(60), <1>0, <1>4, SettleEffect DEF LooseBidRecord
  <2>2. \A c \in Bidders \ {b} : bids'[c] = bids[c]
    BY <1>4, SettleEffect
  <2>3. market'.bid_count = market.bid_count /\ market'.read_bid_count = market.read_bid_count
    BY <1>4, SettleMarket
  <2>4. QED
    BY <2>1, <2>2, <2>3 DEF Quiet
<1>5. ASSUME NEW b \in Bidders, CloseBid(b)
      PROVE  Quiet
  <2>1. /\ bids'[b].account = "closed" /\ bids[b].account = "open"
        /\ bids'[b].funded = bids[b].funded /\ bids'[b].side = bids[b].side
        /\ bids'[b].index = bids[b].index /\ bids'[b].read_rank = bids[b].read_rank
    <3>1. bids[b].account = "open"
      BY <1>5 DEF CloseBid, Closeable
    <3>2. QED
      BY ZenonT(60), <1>0, <1>5, <3>1, CloseEffect DEF LooseBidRecord
  <2>2. \A c \in Bidders \ {b} : bids'[c] = bids[c]
    BY <1>5, CloseEffect
  <2>3. market'.bid_count = market.bid_count /\ market'.read_bid_count = market.read_bid_count
    BY <1>5, CloseMarket
  <2>4. QED
    BY <2>1, <2>2, <2>3 DEF Quiet
<1>6. CASE CloseBook
  BY <1>6, CloseMarket DEF CloseBook, Quiet
<1>7. CASE UNCHANGED vars
  BY <1>7 DEF vars, marketVars, Quiet
<1>8. ASSUME NEW b \in Bidders, SettleAndClose(b)
      PROVE  Quiet
  <2>1. /\ bids'[b].account = "closed" /\ bids[b].account = "open"
        /\ bids'[b].funded = bids[b].funded /\ bids'[b].side = bids[b].side
        /\ bids'[b].index = bids[b].index /\ bids'[b].read_rank = bids[b].read_rank
    BY <1>8, SettledFields, ClosedAtOnce, SettleAndCloseMarket
  <2>2. \A c \in Bidders \ {b} : bids'[c] = bids[c]
    BY <1>8, SettleAndCloseEffect
  <2>3. market'.bid_count = market.bid_count /\ market'.read_bid_count = market.read_bid_count
    BY <1>8, SettleAndCloseMarket
  <2>4. QED
    BY <2>1, <2>2, <2>3 DEF Quiet
<1>9. QED
  BY <1>1, <1>2, <1>3, <1>4, <1>5, <1>6, <1>7, <1>8 DEF Next, BidStep, SettleStep

\* The order of the book is inductive.
LEMMA BookOrderStep == Life /\ BookOrder /\ [Next]_vars => BookOrder'
<1> SUFFICES ASSUME Life, BookOrder, [Next]_vars PROVE BookOrder'
  OBVIOUS
<1>0. /\ market.bid_count \in Nat /\ market.read_bid_count \in Nat
      /\ \A c \in Bidders : /\ bids[c] \in LooseBidRecord
                            /\ bids[c].index \in Nat /\ bids[c].read_rank \in Nat
  BY MarketAssumption DEF Life, LooseTypeOK, LooseMarketRecord, LooseBidRecord
<1>1. CASE Quiet
  BY <1>1 DEF Quiet, BookOrder, Placed, Ranked
<1>2. ASSUME NEW b \in Bidders, NEW side \in Sides, NEW amount \in Amounts, PlaceBid(b, side, amount)
      PROVE  BookOrder'
  <2>1. /\ bids[b].account = "none" /\ ~bids[b].funded /\ ~bids'[b].funded
        /\ bids'[b].index = market.bid_count /\ bids'[b].read_rank = NoRank
        /\ \A c \in Bidders \ {b} : bids'[c] = bids[c]
    BY <1>2, PlaceEffect DEF Life, BidLife
  <2>2. market'.bid_count = market.bid_count + 1 /\ market'.read_bid_count = market.read_bid_count
    BY <1>2, PlaceEffect DEF Life, LooseTypeOK, LooseMarketRecord
  <2>3. \A c \in Bidders : Ranked(c)' <=> Ranked(c)
    BY <2>1 DEF Ranked
  <2>4. \A c \in Bidders : Ranked(c) => c # b
    BY <2>1 DEF Ranked
  <2>5. \A c \in Bidders : Placed(c) => c # b
    BY <2>1 DEF Placed
  <2>6. \A c \in Bidders \ {b} : Placed(c)' <=> Placed(c)
    BY <2>1 DEF Placed
  <2>7. \A c \in Bidders : Placed(c)' => bids'[c].index < market'.bid_count
    BY <1>0, <2>1, <2>2, <2>6 DEF BookOrder
  <2>8. \A c, d \in Bidders : Placed(c)' /\ Placed(d)' /\ bids'[c].index = bids'[d].index => c = d
    BY <1>0, <2>1, <2>2, <2>6 DEF BookOrder
  <2>9. /\ \A c \in Bidders : Ranked(c)' => bids'[c].read_rank < market'.read_bid_count
        /\ \A c, d \in Bidders : Ranked(c)' /\ Ranked(d)' /\ bids'[c].read_rank = bids'[d].read_rank => c = d
        /\ \A r \in 0..(market'.read_bid_count - 1) : \E c \in Bidders : Ranked(c)' /\ bids'[c].read_rank = r
        /\ \A c \in Bidders : ~Ranked(c)' => bids'[c].read_rank = NoRank
    BY <1>0, <2>1, <2>2, <2>3, <2>4 DEF BookOrder
  <2>10. QED
    BY <2>7, <2>8, <2>9 DEF BookOrder
<1>3. ASSUME NEW b \in Bidders, FundBid(b)
      PROVE  BookOrder'
  <2>1. /\ bids[b].account = "open" /\ ~bids[b].funded /\ market'.bid_count = market.bid_count
        /\ \A c \in Bidders \ {b} : bids'[c] = bids[c]
    BY <1>3, FundMarket, FundEffect DEF Life
  <2>2. /\ bids'[b].funded = TRUE /\ bids'[b].side = bids[b].side /\ bids'[b].account = bids[b].account
        /\ bids'[b].index = bids[b].index
        /\ bids'[b].read_rank = IF bids[b].side = "Read" THEN market.read_bid_count ELSE bids[b].read_rank
    BY ZenonT(60), <1>0, <1>3, FundEffect DEF Life, LooseBidRecord
  <2>3. \A c \in Bidders : (Placed(c)' <=> Placed(c)) /\ bids'[c].index = bids[c].index
    BY <2>1, <2>2 DEF Placed
  <2>4. \A c \in Bidders \ {b} : (Ranked(c)' <=> Ranked(c)) /\ bids'[c].read_rank = bids[c].read_rank
    BY <2>1 DEF Ranked
  <2>5. ~Ranked(b)
    BY <2>1 DEF Ranked
  <2>6. CASE bids[b].side = "Read"
    <3>1. Ranked(b)' /\ bids'[b].read_rank = market.read_bid_count
      BY <2>2, <2>6 DEF Ranked
    <3>2. market'.read_bid_count = market.read_bid_count + 1
      BY <1>3, <2>6, FundMarket DEF Life
    <3>3. \A c \in Bidders : Ranked(c)' => bids'[c].read_rank < market'.read_bid_count
      BY <1>0, <2>4, <3>1, <3>2 DEF BookOrder
    <3>4. \A c, d \in Bidders : Ranked(c)' /\ Ranked(d)' /\ bids'[c].read_rank = bids'[d].read_rank => c = d
      BY <1>0, <2>4, <3>1, <3>2 DEF BookOrder
    <3>5. ASSUME NEW r \in 0..(market'.read_bid_count - 1)
          PROVE  \E c \in Bidders : Ranked(c)' /\ bids'[c].read_rank = r
      <4>1. CASE r = market.read_bid_count
        BY <3>1, <4>1
      <4>2. CASE r # market.read_bid_count
        <5>1. r \in 0..(market.read_bid_count - 1)
          BY <1>0, <3>2, <4>2
        <5>2. PICK c \in Bidders : Ranked(c) /\ bids[c].read_rank = r
          BY <5>1 DEF BookOrder
        <5>3. QED
          BY <2>4, <2>5, <5>2
      <4>3. QED
        BY <4>1, <4>2
    <3>6. \A c \in Bidders : ~Ranked(c)' => bids'[c].read_rank = NoRank
      BY <2>4, <3>1 DEF BookOrder
    <3>7. QED
      BY <2>1, <2>3, <3>3, <3>4, <3>5, <3>6 DEF BookOrder
  <2>7. CASE bids[b].side # "Read"
    <3>1. ~Ranked(b)' /\ bids'[b].read_rank = bids[b].read_rank
      BY <2>2, <2>7 DEF Ranked
    <3>2. market'.read_bid_count = market.read_bid_count
      BY <1>3, <2>7, FundMarket DEF Life
    <3>3. \A c \in Bidders : (Ranked(c)' <=> Ranked(c)) /\ bids'[c].read_rank = bids[c].read_rank
      BY <2>4, <2>5, <3>1
    <3>4. QED
      BY <2>1, <2>3, <3>2, <3>3 DEF BookOrder
  <2>8. QED
    BY <2>6, <2>7
<1>4. ASSUME NEW b \in Bidders, NEW side \in Sides, NEW amount \in Amounts,
             PlaceAndFund(b, side, amount)
      PROVE  BookOrder'
  <2>1. /\ bids[b].account = "none" /\ ~bids[b].funded /\ bids'[b].funded = TRUE
        /\ bids'[b].account = "open" /\ bids'[b].side = side
        /\ bids'[b].index = market.bid_count
        /\ bids'[b].read_rank = IF side = "Read" THEN market.read_bid_count ELSE NoRank
        /\ \A c \in Bidders \ {b} : bids'[c] = bids[c]
    <3>1. bids[b].account = "none" /\ ~bids[b].funded
      BY <1>4, PlaceAndFundIsFirst DEF Life
    <3>2. QED
      BY ZenonT(60), <1>4, <3>1, PlaceAndFundEffect DEF Life
  <2>2. /\ market'.bid_count = market.bid_count + 1
        /\ market'.read_bid_count = IF side = "Read" THEN market.read_bid_count + 1
                                    ELSE market.read_bid_count
    BY <1>4, PlaceAndFundMarket DEF Life
  <2>3. \A c \in Bidders \ {b} : /\ Placed(c)' <=> Placed(c)
                                 /\ Ranked(c)' <=> Ranked(c)
                                 /\ bids'[c].index = bids[c].index
                                 /\ bids'[c].read_rank = bids[c].read_rank
    BY <2>1 DEF Placed, Ranked
  <2>4. ~Placed(b) /\ ~Ranked(b) /\ (Ranked(b)' <=> side = "Read")
    BY <2>1 DEF Placed, Ranked
  <2>5. \A c \in Bidders : Placed(c)' => bids'[c].index < market'.bid_count
    BY <1>0, <2>1, <2>2, <2>3 DEF BookOrder
  <2>6. \A c, d \in Bidders : Placed(c)' /\ Placed(d)' /\ bids'[c].index = bids'[d].index => c = d
    BY <1>0, <2>1, <2>2, <2>3 DEF BookOrder
  <2>7. CASE side = "Read"
    <3>1. Ranked(b)' /\ bids'[b].read_rank = market.read_bid_count
          /\ market'.read_bid_count = market.read_bid_count + 1
      BY <2>1, <2>2, <2>4, <2>7
    <3>2. \A c \in Bidders : Ranked(c)' => bids'[c].read_rank < market'.read_bid_count
      BY <1>0, <2>3, <3>1 DEF BookOrder
    <3>3. \A c, d \in Bidders : Ranked(c)' /\ Ranked(d)' /\ bids'[c].read_rank = bids'[d].read_rank => c = d
      BY <1>0, <2>3, <3>1 DEF BookOrder
    <3>4. ASSUME NEW r \in 0..(market'.read_bid_count - 1)
          PROVE  \E c \in Bidders : Ranked(c)' /\ bids'[c].read_rank = r
      <4>1. CASE r = market.read_bid_count
        BY <3>1, <4>1
      <4>2. CASE r # market.read_bid_count
        <5>1. r \in 0..(market.read_bid_count - 1)
          BY <1>0, <3>1, <4>2
        <5>2. PICK c \in Bidders : Ranked(c) /\ bids[c].read_rank = r
          BY <5>1 DEF BookOrder
        <5>3. QED
          BY <2>3, <2>4, <5>2
      <4>3. QED
        BY <4>1, <4>2
    <3>5. \A c \in Bidders : ~Ranked(c)' => bids'[c].read_rank = NoRank
      BY <2>3, <3>1 DEF BookOrder
    <3>6. QED
      BY <2>5, <2>6, <3>2, <3>3, <3>4, <3>5 DEF BookOrder
  <2>8. CASE side # "Read"
    <3>1. /\ ~Ranked(b)' /\ bids'[b].read_rank = NoRank
          /\ market'.read_bid_count = market.read_bid_count
      BY <2>1, <2>2, <2>4, <2>8
    <3>2. /\ \A c \in Bidders : Ranked(c)' => bids'[c].read_rank < market'.read_bid_count
          /\ \A c, d \in Bidders : Ranked(c)' /\ Ranked(d)' /\ bids'[c].read_rank = bids'[d].read_rank => c = d
          /\ \A c \in Bidders : ~Ranked(c)' => bids'[c].read_rank = NoRank
      BY <2>3, <3>1 DEF BookOrder
    <3>3. \A r \in 0..(market'.read_bid_count - 1) : \E c \in Bidders : Ranked(c)' /\ bids'[c].read_rank = r
      BY <2>3, <2>4, <3>1 DEF BookOrder
    <3>4. QED
      BY <2>5, <2>6, <3>2, <3>3 DEF BookOrder
  <2>9. QED
    BY <2>7, <2>8
<1>5. QED
  BY <1>1, <1>2, <1>3, <1>4, BookSteps

----------------------------------------------------------------------------
(* The market's counters are cardinalities.                                *)

\* Bids that were ever placed, hold a rank, or were closed.
PlacedBids == {b \in Bidders : Placed(b)}
RankedBids == {b \in Bidders : Ranked(b)}
ClosedBids == {b \in Bidders : bids[b].account = "closed"}

\* bid_count, read_bid_count and closed_bid_count count them.
Counting ==
  /\ market.bid_count = Cardinality(PlacedBids)
  /\ market.read_bid_count = Cardinality(RankedBids)
  /\ market.closed_bid_count = Cardinality(ClosedBids)

\* Only close_bid closes a bid or counts one, on its own or behind settle_bid.
LEMMA ClosedSteps ==
  ASSUME Life, [Next]_vars
  PROVE  \/ /\ market'.closed_bid_count = market.closed_bid_count
            /\ \A c \in Bidders : bids'[c].account = "closed" <=> bids[c].account = "closed"
         \/ \E b \in Bidders : CloseBid(b) \/ SettleAndClose(b)
<1> USE DEF Life
<1> DEFINE Same == /\ market'.closed_bid_count = market.closed_bid_count
                   /\ \A c \in Bidders : bids'[c].account = "closed" <=> bids[c].account = "closed"
<1>0. /\ bids \in [Bidders -> LooseBidRecord] /\ \A c \in Bidders : bids[c] \in LooseBidRecord
      /\ market \in LooseMarketRecord
  BY DEF LooseTypeOK
<1>1. CASE PurseNext /\ UNCHANGED marketVars
  BY <1>1 DEF marketVars
<1>2. ASSUME NEW b \in Bidders, NEW side \in Sides, NEW amount \in Amounts, PlaceBid(b, side, amount)
      PROVE  Same
  <2>1. market'.closed_bid_count = market.closed_bid_count
    BY <1>0, <1>2, PlaceEffect DEF LooseMarketRecord
  <2>2. QED
    BY <1>2, <2>1, PlaceEffect
<1>3. ASSUME NEW b \in Bidders, FundBid(b)
      PROVE  Same
  <2>1. bids'[b].account = bids[b].account
    BY <1>3, FundFields
  <2>2. QED
    BY <1>3, <2>1, FundEffect, FundMarket
<1>4. ASSUME NEW b \in Bidders, InitBidPermission(b)
      PROVE  Same
  BY <1>0, <1>4 DEF InitBidPermission, LooseBidRecord
<1>5. CASE Tick \/ VerdictStep
  BY <1>5, VerdictFrame DEF Tick
<1>6. ASSUME NEW b \in Bidders, SettleBid(b)
      PROVE  Same
  <2>1. bids'[b].account = bids[b].account
    BY ZenonT(60), <1>0, <1>6, SettleEffect DEF LooseBidRecord
  <2>2. QED
    BY <1>6, <2>1, SettleEffect, SettleMarket
<1>7. CASE CloseBook
  BY <1>0, <1>7 DEF CloseBook, LooseMarketRecord
<1>8. CASE UNCHANGED vars
  BY <1>8 DEF vars, marketVars
<1>9. ASSUME NEW b \in Bidders, NEW side \in Sides, NEW amount \in Amounts,
             PlaceAndFund(b, side, amount)
      PROVE  Same
  <2>1. bids[b].account = "none" /\ bids'[b].account = "open"
        /\ \A c \in Bidders \ {b} : bids'[c] = bids[c]
    BY <1>9, PlaceAndFundEffect, PlaceAndFundIsFirst
  <2>2. market'.closed_bid_count = market.closed_bid_count
    BY <1>9, PlaceAndFundMarket
  <2>3. QED
    BY <2>1, <2>2
<1>10. QED
  BY <1>1, <1>2, <1>3, <1>4, <1>5, <1>6, <1>7, <1>8, <1>9 DEF Next, BidStep, SettleStep

\* The sets that are counted are finite, ranked and closed bids are placed bids,
\* so no counter exceeds bid_count, which MAX_BIDDERS bounds.
LEMMA CountBounds ==
  ASSUME Life
  PROVE  /\ IsFiniteSet(PlacedBids) /\ IsFiniteSet(RankedBids) /\ IsFiniteSet(ClosedBids)
         /\ RankedBids \subseteq PlacedBids /\ ClosedBids \subseteq PlacedBids
         /\ Counting => /\ market.read_bid_count \in 0..MaxBidders
                        /\ market.closed_bid_count \in 0..MaxBidders
<1>1. RankedBids \subseteq PlacedBids /\ ClosedBids \subseteq PlacedBids /\ PlacedBids \subseteq Bidders
  BY DEF Life, BidLife, PlacedBids, RankedBids, ClosedBids, Placed, Ranked
<1>2. IsFiniteSet(PlacedBids)
  BY <1>1, FS_Subset, MarketAssumption
<1>3. /\ IsFiniteSet(RankedBids) /\ Cardinality(RankedBids) <= Cardinality(PlacedBids)
      /\ IsFiniteSet(ClosedBids) /\ Cardinality(ClosedBids) <= Cardinality(PlacedBids)
  BY <1>1, <1>2, FS_Subset
<1>4. Cardinality(PlacedBids) \in Nat /\ Cardinality(RankedBids) \in Nat /\ Cardinality(ClosedBids) \in Nat
  BY <1>2, <1>3, FS_CardinalityType
<1>5. market.bid_count \in 0..MaxBidders
  BY DEF Life, LooseTypeOK, LooseMarketRecord
<1>6. QED
  BY <1>1, <1>2, <1>3, <1>4, <1>5, MarketAssumption DEF Counting

\* The counting invariant is inductive.
LEMMA CountingStep == Life /\ Counting /\ [Next]_vars => Counting'
<1> SUFFICES ASSUME Life, Counting, [Next]_vars PROVE Counting'
  OBVIOUS
<1>0. bids \in [Bidders -> LooseBidRecord] /\ \A c \in Bidders : bids[c] \in LooseBidRecord
  BY DEF Life, LooseTypeOK
<1>1. market'.bid_count = Cardinality(PlacedBids')
  <2>1. CASE Quiet
    <3>1. PlacedBids' = PlacedBids
      BY <2>1 DEF Quiet, PlacedBids, Placed
    <3>2. QED
      BY <2>1, <3>1 DEF Quiet, Counting
  <2>2. ASSUME NEW b \in Bidders, NEW side \in Sides, NEW amount \in Amounts, PlaceBid(b, side, amount)
        PROVE  market'.bid_count = Cardinality(PlacedBids')
    <3>1. PlacedBids' = PlacedBids \cup {b} /\ b \notin PlacedBids
      BY <2>2, PlaceEffect DEF Life, PlacedBids, Placed
    <3>2. market'.bid_count = market.bid_count + 1
      BY <2>2, PlaceEffect DEF Life, LooseTypeOK, LooseMarketRecord
    <3>3. QED
      BY <3>1, <3>2, CountBounds, FS_AddElement DEF Counting
  <2>3. ASSUME NEW b \in Bidders, FundBid(b)
        PROVE  market'.bid_count = Cardinality(PlacedBids')
    <3>1. bids'[b].account = bids[b].account /\ \A c \in Bidders \ {b} : bids'[c] = bids[c]
      BY <2>3, FundEffect, FundFields DEF Life
    <3>2. PlacedBids' = PlacedBids
      BY <3>1 DEF PlacedBids, Placed
    <3>3. QED
      BY <2>3, <3>2, FundMarket DEF Life, Counting
  <2>4. ASSUME NEW b \in Bidders, NEW side \in Sides, NEW amount \in Amounts,
               PlaceAndFund(b, side, amount)
        PROVE  market'.bid_count = Cardinality(PlacedBids')
    <3>1. /\ bids[b].account = "none" /\ bids'[b].account = "open"
          /\ \A c \in Bidders \ {b} : bids'[c] = bids[c]
      BY <2>4, PlaceAndFundEffect, PlaceAndFundIsFirst DEF Life
    <3>2. PlacedBids' = PlacedBids \cup {b} /\ b \notin PlacedBids
      BY <3>1 DEF PlacedBids, Placed
    <3>3. market'.bid_count = market.bid_count + 1
      BY <2>4, PlaceAndFundMarket DEF Life
    <3>4. QED
      BY <3>2, <3>3, CountBounds, FS_AddElement DEF Counting
  <2>5. QED
    BY <2>1, <2>2, <2>3, <2>4, BookSteps
<1>2. market'.read_bid_count = Cardinality(RankedBids')
  <2>1. CASE Quiet
    <3>1. RankedBids' = RankedBids
      BY <2>1 DEF Quiet, RankedBids, Ranked
    <3>2. QED
      BY <2>1, <3>1 DEF Quiet, Counting
  <2>2. ASSUME NEW b \in Bidders, NEW side \in Sides, NEW amount \in Amounts, PlaceBid(b, side, amount)
        PROVE  market'.read_bid_count = Cardinality(RankedBids')
    <3>1. ~bids[b].funded /\ ~bids'[b].funded /\ \A c \in Bidders \ {b} : bids'[c] = bids[c]
      BY <2>2, PlaceEffect DEF Life, BidLife
    <3>2. RankedBids' = RankedBids
      BY <3>1 DEF RankedBids, Ranked
    <3>3. market'.read_bid_count = market.read_bid_count
      BY <2>2, PlaceEffect DEF Life, LooseTypeOK, LooseMarketRecord
    <3>4. QED
      BY <3>2, <3>3 DEF Counting
  <2>3. ASSUME NEW b \in Bidders, FundBid(b)
        PROVE  market'.read_bid_count = Cardinality(RankedBids')
    <3>1. /\ ~bids[b].funded /\ bids'[b].funded = TRUE /\ bids'[b].side = bids[b].side
          /\ \A c \in Bidders \ {b} : bids'[c] = bids[c]
      <4>1. ~bids[b].funded
        BY <2>3, FundMarket DEF Life
      <4>2. bids'[b].funded = TRUE /\ bids'[b].side = bids[b].side
        BY <2>3, FundFields DEF Life
      <4>3. QED
        BY <2>3, <4>1, <4>2, FundEffect DEF Life
    <3>2. RankedBids' = (IF bids[b].side = "Read" THEN RankedBids \cup {b} ELSE RankedBids) /\ b \notin RankedBids
      BY <3>1 DEF RankedBids, Ranked
    <3>3. market'.read_bid_count = IF bids[b].side = "Read" THEN market.read_bid_count + 1 ELSE market.read_bid_count
      BY <2>3, FundMarket DEF Life
    <3>4. Cardinality(RankedBids \cup {b}) = IF b \in RankedBids THEN Cardinality(RankedBids)
                                             ELSE Cardinality(RankedBids) + 1
      BY CountBounds, FS_AddElement
    <3>5. QED
      BY <3>2, <3>3, <3>4 DEF Counting
  <2>4. ASSUME NEW b \in Bidders, NEW side \in Sides, NEW amount \in Amounts,
               PlaceAndFund(b, side, amount)
        PROVE  market'.read_bid_count = Cardinality(RankedBids')
    <3>1. /\ ~bids[b].funded /\ bids'[b].funded = TRUE /\ bids'[b].side = side
          /\ \A c \in Bidders \ {b} : bids'[c] = bids[c]
      <4>1. ~bids[b].funded
        BY <2>4, PlaceAndFundIsFirst DEF Life
      <4>2. QED
        BY ZenonT(60), <2>4, <4>1, PlaceAndFundEffect DEF Life
    <3>2. RankedBids' = (IF side = "Read" THEN RankedBids \cup {b} ELSE RankedBids) /\ b \notin RankedBids
      BY <3>1 DEF RankedBids, Ranked
    <3>3. market'.read_bid_count = IF side = "Read" THEN market.read_bid_count + 1 ELSE market.read_bid_count
      BY <2>4, PlaceAndFundMarket DEF Life
    <3>4. Cardinality(RankedBids \cup {b}) = IF b \in RankedBids THEN Cardinality(RankedBids)
                                             ELSE Cardinality(RankedBids) + 1
      BY CountBounds, FS_AddElement
    <3>5. QED
      BY <3>2, <3>3, <3>4 DEF Counting
  <2>5. QED
    BY <2>1, <2>2, <2>3, <2>4, BookSteps
<1>3. market'.closed_bid_count = Cardinality(ClosedBids')
  <2>1. CASE /\ market'.closed_bid_count = market.closed_bid_count
             /\ \A c \in Bidders : bids'[c].account = "closed" <=> bids[c].account = "closed"
    <3>1. ClosedBids' = ClosedBids
      BY <2>1 DEF ClosedBids
    <3>2. QED
      BY <2>1, <3>1 DEF Counting
  <2>2. ASSUME NEW b \in Bidders, CloseBid(b) \/ SettleAndClose(b)
        PROVE  market'.closed_bid_count = Cardinality(ClosedBids')
    <3>1. /\ bids[b].account = "open" /\ bids'[b].account = "closed"
          /\ \A c \in Bidders \ {b} : bids'[c] = bids[c]
      <4>1. CASE CloseBid(b)
        <5>1. bids[b].account = "open"
          BY <4>1 DEF CloseBid, Closeable
        <5>2. bids'[b].account = "closed"
          BY ZenonT(60), <1>0, <4>1, CloseEffect DEF Life, LooseBidRecord
        <5>3. QED
          BY <4>1, <5>1, <5>2, CloseEffect DEF Life
      <4>2. CASE SettleAndClose(b)
        BY <4>2, ClosedAtOnce, SettleAndCloseMarket, SettleAndCloseEffect DEF Life
      <4>3. QED
        BY <2>2, <4>1, <4>2
    <3>2. ClosedBids' = ClosedBids \cup {b} /\ b \notin ClosedBids
      BY <3>1 DEF ClosedBids
    <3>3. market'.closed_bid_count = market.closed_bid_count + 1
      <4>1. CASE CloseBid(b)
        BY <4>1 DEF CloseBid, Life, LooseTypeOK, LooseMarketRecord
      <4>2. CASE SettleAndClose(b)
        BY <4>2, SettleAndCloseMarket DEF Life
      <4>3. QED
        BY <2>2, <4>1, <4>2
    <3>4. Cardinality(ClosedBids \cup {b}) = IF b \in ClosedBids THEN Cardinality(ClosedBids)
                                             ELSE Cardinality(ClosedBids) + 1
      BY CountBounds, FS_AddElement
    <3>5. QED
      BY <3>2, <3>3, <3>4 DEF Counting
  <2>3. QED
    BY <2>1, <2>2, ClosedSteps
<1>4. QED
  BY <1>1, <1>2, <1>3 DEF Counting

----------------------------------------------------------------------------
\* The inductive invariant of the market.
Invariant == Life /\ PursesBackBids /\ BookOrder /\ Counting

\* The inductive invariant holds before the first bid.
LEMMA InvariantInit == FreshBook => Invariant
<1> SUFFICES ASSUME FreshBook PROVE PursesBackBids /\ BookOrder /\ Counting
  BY LifeAtInit DEF Invariant
<1>1. /\ \A b \in Bidders : bids[b] = NoBid
      /\ market.bid_count = 0 /\ market.read_bid_count = 0 /\ market.closed_bid_count = 0
  BY DEF FreshBook, MarketInit
<1>2. PursesBackBids
  BY PursesBackBidsInit
<1>3. BookOrder
  BY <1>1 DEF BookOrder, Placed, Ranked, NoBid
<1>4. PlacedBids = {} /\ RankedBids = {} /\ ClosedBids = {}
  BY <1>1 DEF PlacedBids, RankedBids, ClosedBids, Placed, Ranked, NoBid
<1>5. QED
  BY <1>1, <1>2, <1>3, <1>4, FS_EmptySet DEF Counting

\* The conjunction of the parts above is inductive.
LEMMA InvariantStep == Invariant /\ [Next]_vars => Invariant'
BY LifeStep, BackedStep, BookOrderStep, CountingStep DEF Invariant

\* It holds of every behaviour of the market.
THEOREM InvariantHolds == Spec => []Invariant
BY StartsFresh, InvariantInit, InvariantStep, PTL DEF Spec

\* Every account keeps its type: no counter passes MAX_BIDDERS, and a read rank
\* fits the u8 that holds it.
THEOREM TypeCorrect == Spec => []TypeOK
<1>1. ASSUME Invariant PROVE TypeOK
  <2>1. Life /\ LooseTypeOK /\ Counting /\ BookOrder
    BY <1>1 DEF Invariant, Life
  <2>2. market.read_bid_count \in 0..MaxBidders /\ market.closed_bid_count \in 0..MaxBidders
    BY <2>1, CountBounds
  <2>3. market \in MarketRecord
    BY <2>1, <2>2 DEF LooseTypeOK, LooseMarketRecord, MarketRecord
  <2>4. \A b \in Bidders : bids[b] \in LooseBidRecord /\ bids[b].read_rank \in 0..255
    <3> SUFFICES ASSUME NEW b \in Bidders
                 PROVE  bids[b] \in LooseBidRecord /\ bids[b].read_rank \in 0..255
      OBVIOUS
    <3>1. bids[b] \in LooseBidRecord /\ bids[b].read_rank \in Nat
      BY <2>1 DEF LooseTypeOK, LooseBidRecord
    <3>2. bids[b].read_rank <= 255
      <4>1. CASE Ranked(b)
        BY <2>1, <2>2, <3>1, <4>1, MarketAssumption DEF BookOrder
      <4>2. CASE ~Ranked(b)
        BY <2>1, <4>2 DEF BookOrder, NoRank
      <4>3. QED
        BY <4>1, <4>2
    <3>3. QED
      BY <3>1, <3>2
  <2>5. bids \in [Bidders -> BidRecord]
    <3>1. \A b \in Bidders : bids[b] \in BidRecord
      BY <2>4 DEF LooseBidRecord, BidRecord
    <3>2. QED
      BY <2>1, <3>1 DEF LooseTypeOK
  <2>6. QED
    BY <2>1, <2>3, <2>5 DEF LooseTypeOK, TypeOK
<1>2. QED
  BY <1>1, InvariantHolds, PTL

\* Each rank the oracle's draw can hit is held by exactly one paid read bid.
THEOREM RanksAreDense == Spec => []ReadRanksAreDense
<1>1. ASSUME Invariant PROVE ReadRanksAreDense
  <2>1. Life /\ Counting /\ BookOrder
    BY <1>1 DEF Invariant
  <2>2. market.read_bid_count \in 0..MaxBidders
    BY <2>1, CountBounds
  <2>3. ASSUME NEW r \in 0..(market.read_bid_count - 1)
        PROVE  \E b \in Bidders : /\ Placed(b) /\ bids[b].funded /\ bids[b].side = "Read"
                                  /\ bids[b].read_rank = r
                                  /\ \A c \in Bidders : Placed(c) /\ bids[c].read_rank = r => c = b
    <3>1. PICK b \in Bidders : Ranked(b) /\ bids[b].read_rank = r
      BY <2>1 DEF BookOrder
    <3>2. r # NoRank
      BY <2>2, MarketAssumption DEF NoRank
    <3>3. \A c \in Bidders : bids[c].read_rank = r => c = b
      BY <2>1, <3>1, <3>2 DEF BookOrder
    <3>4. Placed(b)
      BY <2>1, <3>1 DEF Life, BidLife, Placed, Ranked
    <3>5. QED
      BY <3>1, <3>3, <3>4 DEF Ranked
  <2>4. QED
    BY <2>3 DEF ReadRanksAreDense
<1>2. QED
  BY <1>1, InvariantHolds, PTL

----------------------------------------------------------------------------
(* Once the verdict is in: it is final, it names one reader at most, and a *)
(* book is closed only when nothing is left to do in it.                   *)


\* The verdict is in.
Decided == market.status \in {"Resolved", "Settled"}

\* Under a verdict no bid is opened or funded, the verdict stands, and what is
\* settled or closed stays so.
LEMMA DecidedStep ==
  ASSUME Life, [Next]_vars, Decided
  PROVE  /\ Quiet
         /\ Decided'
         /\ market.status = "Settled" => market'.status = "Settled"
         /\ market'.outcome = market.outcome /\ market'.randomness = market.randomness
         /\ market'.resolved_at = market.resolved_at
         /\ \A c \in Bidders : bids[c].settled => bids'[c].settled
<1> USE DEF Life, Decided
<1>0. /\ bids \in [Bidders -> LooseBidRecord] /\ \A c \in Bidders : bids[c] \in LooseBidRecord
      /\ market \in LooseMarketRecord
  BY DEF LooseTypeOK
<1>1. Quiet
  <2>1. ~ \E b \in Bidders, side \in Sides, amount \in Amounts : PlaceBid(b, side, amount)
    BY DEF PlaceBid, CheckBiddable
  <2>2. ~ \E b \in Bidders : FundBid(b)
    BY DEF FundBid, Fundable
  <2>3. ~ \E b \in Bidders, side \in Sides, amount \in Amounts : PlaceAndFund(b, side, amount)
    BY DEF PlaceAndFund, CheckBiddable
  <2>4. QED
    BY <2>1, <2>2, <2>3, BookSteps
<1> DEFINE Kept == /\ market'.status = market.status
                   /\ market'.outcome = market.outcome /\ market'.randomness = market.randomness
                   /\ market'.resolved_at = market.resolved_at
           Stays == \A c \in Bidders : bids[c].settled => bids'[c].settled
<1>2. CASE PurseNext /\ UNCHANGED marketVars
  BY <1>1, <1>2 DEF marketVars
<1>3. ASSUME NEW b \in Bidders, BidStep(b)
      PROVE  Kept /\ Stays
  <2>1. InitBidPermission(b)
    BY <1>3 DEF BidStep, PlaceBid, PlaceAndFund, CheckBiddable, FundBid, Fundable
  <2>2. QED
    BY <1>0, <2>1 DEF InitBidPermission, LooseBidRecord
<1>4. CASE Tick
  BY <1>4 DEF Tick
<1>5. CASE VerdictStep
  <2>1. market' = market /\ bids' = bids
    BY <1>5, VerdictFrame
  <2>2. QED
    BY <1>1, <2>1
<1>6. ASSUME NEW b \in Bidders, SettleBid(b)
      PROVE  Kept /\ Stays
  <2>1. bids'[b].settled = TRUE
    BY <1>0, <1>6, SettleEffect DEF LooseBidRecord
  <2>2. \A c \in Bidders \ {b} : bids'[c] = bids[c]
    BY <1>6, SettleEffect
  <2>3. Kept
    BY <1>6, SettleMarket
  <2>4. QED
    BY <2>1, <2>2, <2>3
<1>7. ASSUME NEW b \in Bidders, CloseBid(b)
      PROVE  Kept /\ Stays
  <2>1. bids'[b].settled = bids[b].settled
    BY <1>0, <1>7, CloseEffect DEF LooseBidRecord
  <2>2. \A c \in Bidders \ {b} : bids'[c] = bids[c]
    BY <1>7, CloseEffect
  <2>3. Kept
    BY <1>0, <1>7 DEF CloseBid, LooseMarketRecord
  <2>4. QED
    BY <2>1, <2>2, <2>3
<1>8. CASE CloseBook
  <2>1. bids' = bids /\ market.status = "Resolved" /\ market'.status = "Settled"
    BY <1>0, <1>8 DEF CloseBook, LooseMarketRecord
  <2>2. QED
    BY <1>1, <1>8, <2>1, CloseMarket
<1>9. CASE UNCHANGED vars
  BY <1>1, <1>9 DEF vars, marketVars
<1>10. ASSUME NEW b \in Bidders, SettleAndClose(b)
       PROVE  Kept /\ Stays
  <2>1. bids'[b].settled = TRUE
    BY <1>10, SettledFields
  <2>2. \A c \in Bidders \ {b} : bids'[c] = bids[c]
    BY <1>10, SettleAndCloseEffect
  <2>3. Kept
    BY <1>10, SettleAndCloseMarket
  <2>4. QED
    BY <2>1, <2>2, <2>3
<1>11. QED
  BY <1>1, <1>2, <1>3, <1>4, <1>5, <1>6, <1>7, <1>8, <1>9, <1>10 DEF Next, SettleStep

----------------------------------------------------------------------------
(* One reader.                                                             *)

\* At most one bid is chosen, however the bids arrived and were funded.
LEMMA OneChosen ==
  ASSUME Life, BookOrder, NEW b \in Bidders, NEW c \in Bidders,
         IsChosenBid(market, bids[b]), IsChosenBid(market, bids[c])
  PROVE  b = c
<1>1. Placed(b) /\ Placed(c)
  BY DEF Life, BidLife, Placed, IsChosenBid
<1>2. CASE market.outcome = "SoleReader"
  BY <1>2 DEF IsChosenBid, BookOrder, Ranked
<1>3. CASE market.outcome # "SoleReader"
  BY <1>1, <1>3 DEF IsChosenBid, BookOrder
<1>4. QED
  BY <1>2, <1>3

\* The reader the market names is the chosen bidder, and settled.
ReaderIsChosen ==
  market.sole_reader # Nobody =>
    /\ market.sole_reader \in Bidders
    /\ Decided
    /\ bids[market.sole_reader].settled
    /\ IsChosenBid(market, bids[market.sole_reader])

\* A step that settles no bid names no reader.
LEMMA ReaderSteps ==
  ASSUME Life, [Next]_vars
  PROVE  \/ market'.sole_reader = market.sole_reader
         \/ \E b \in Bidders : SettleBid(b) \/ SettleAndClose(b)
<1> USE DEF Life
<1>0. market \in LooseMarketRecord
  BY DEF LooseTypeOK
<1>1. CASE (PurseNext /\ UNCHANGED marketVars) \/ Tick \/ UNCHANGED vars
  BY <1>1 DEF marketVars, vars, Tick
<1>2. ASSUME NEW b \in Bidders, BidStep(b)
      PROVE  market'.sole_reader = market.sole_reader
  <2>1. ASSUME NEW side \in Sides, NEW amount \in Amounts, PlaceBid(b, side, amount)
        PROVE  market'.sole_reader = market.sole_reader
    BY <1>0, <2>1 DEF PlaceBid, RecordBid, LooseMarketRecord
  <2>2. QED
    BY <1>2, <2>1, FundMarket, PlaceAndFundMarket DEF BidStep, InitBidPermission
<1>3. CASE VerdictStep
  BY <1>3, VerdictFrame
<1>4. CASE SettleStep
  BY <1>4, CloseMarket DEF SettleStep
<1>5. QED
  BY <1>1, <1>2, <1>3, <1>4 DEF Next

\* Every step keeps the named reader the chosen one.
LEMMA ReaderStep == Invariant /\ ReaderIsChosen /\ [Next]_vars => ReaderIsChosen'
<1> SUFFICES ASSUME Invariant, ReaderIsChosen, [Next]_vars, market'.sole_reader # Nobody
             PROVE  /\ market'.sole_reader \in Bidders /\ Decided'
                    /\ bids'[market'.sole_reader].settled
                    /\ IsChosenBid(market', bids'[market'.sole_reader])
  BY DEF ReaderIsChosen, IsChosenBid
<1>0. Life /\ BookOrder /\ LooseTypeOK
  BY DEF Invariant, Life
<1>1. CASE market'.sole_reader = market.sole_reader
  <2> DEFINE r == market.sole_reader
  <2>1. r \in Bidders /\ Decided /\ bids[r].settled /\ IsChosenBid(market, bids[r])
    BY <1>1 DEF ReaderIsChosen
  <2>2. Decided' /\ bids'[r].settled
    BY <1>0, <2>1, DecidedStep
  <2>3. IsChosenBid(market', bids'[r])
    BY <1>0, <2>1, DecidedStep DEF Quiet, IsChosenBid
  <2>4. QED
    BY <1>1, <2>1, <2>2, <2>3
<1>2. ASSUME NEW b \in Bidders, SettleBid(b) \/ SettleAndClose(b), market'.sole_reader # market.sole_reader
      PROVE  /\ market'.sole_reader \in Bidders /\ Decided'
             /\ bids'[market'.sole_reader].settled
             /\ IsChosenBid(market', bids'[market'.sole_reader])
  <2>1. market'.sole_reader = b /\ IsChosenBid(market, bids[b]) /\ Decided
    BY <1>0, <1>2, SettleMarket, SettleAndCloseMarket DEF Decided
  <2>2. bids'[b].settled = TRUE
    BY <1>0, <1>2, SettledFields
  <2>3. Decided' /\ IsChosenBid(market', bids'[b])
    BY <1>0, <2>1, DecidedStep DEF Quiet, IsChosenBid
  <2>4. QED
    BY <2>1, <2>2, <2>3
<1>3. QED
  BY <1>0, <1>1, <1>2, ReaderSteps

\* A verdict, its draw and the reader it named are not touched by any step.
LEMMA FinalStep ==
  ASSUME Invariant, ReaderIsChosen, [Next]_vars
  PROVE  /\ market.outcome # "Pending" =>
              /\ market'.outcome = market.outcome
              /\ market'.randomness = market.randomness
              /\ market'.resolved_at = market.resolved_at
         /\ market.sole_reader # Nobody => market'.sole_reader = market.sole_reader
<1>0. Life /\ BookOrder /\ LooseTypeOK /\ MarketLife
  BY DEF Invariant, Life
<1>1. ASSUME market.outcome # "Pending"
      PROVE  /\ market'.outcome = market.outcome
             /\ market'.randomness = market.randomness
             /\ market'.resolved_at = market.resolved_at
  <2>1. market.status \in Statuses
    BY <1>0 DEF LooseTypeOK, LooseMarketRecord
  <2>2. Decided
    BY <1>0, <1>1, <2>1 DEF MarketLife, Decided, Statuses
  <2>3. QED
    BY <1>0, <2>2, DecidedStep
<1>2. ASSUME market.sole_reader # Nobody
      PROVE  market'.sole_reader = market.sole_reader
  <2>1. market.sole_reader \in Bidders /\ IsChosenBid(market, bids[market.sole_reader])
    BY <1>2 DEF ReaderIsChosen
  <2>2. ASSUME NEW b \in Bidders, SettleBid(b) \/ SettleAndClose(b)
        PROVE  market'.sole_reader = market.sole_reader
    <3>1. IsChosenBid(market, bids[b]) => b = market.sole_reader
      BY <1>0, <2>1, OneChosen
    <3>2. QED
      BY <1>0, <2>2, <3>1, SettleMarket, SettleAndCloseMarket
  <2>3. QED
    BY <1>0, <2>2, ReaderSteps
<1>3. QED
  BY <1>1, <1>2

\* A verdict is given once: no late answer, retry or second crank changes it,
\* the draw, or the reader it named.
THEOREM VerdictStands == Spec => VerdictIsFinal
<1>1. Init => ReaderIsChosen
  BY DEF Init, MarketInit, ReaderIsChosen
<1>2. ASSUME Invariant, ReaderIsChosen, [Next]_vars
      PROVE  /\ market.outcome # "Pending" =>
                  /\ market'.outcome = market.outcome
                  /\ market'.randomness = market.randomness
                  /\ market'.resolved_at = market.resolved_at
             /\ market.sole_reader # Nobody => market'.sole_reader = market.sole_reader
  BY <1>2, FinalStep
<1>3. QED
  BY <1>1, <1>2, InvariantHolds, ReaderStep, PTL DEF Spec, VerdictIsFinal

----------------------------------------------------------------------------
(* The closed book.                                                        *)

\* A closed book holds no open bid, and its escrow is the author's due.
BookClosed ==
  market.status = "Settled" =>
    /\ \A b \in Bidders : Placed(b) => bids[b].account = "closed"
    /\ market.escrow_lamports = market.author_payout

\* The sets close_book compares through their counters are equal when it fires.
LEMMA BookClosedStep == Invariant /\ BookClosed /\ [Next]_vars => BookClosed'
<1> SUFFICES ASSUME Invariant, BookClosed, [Next]_vars, market'.status = "Settled"
             PROVE  /\ \A b \in Bidders : Placed(b)' => bids'[b].account = "closed"
                    /\ market'.escrow_lamports = market'.author_payout
  BY DEF BookClosed
<1>0. Life /\ LooseTypeOK /\ Counting /\ market \in LooseMarketRecord
  BY DEF Invariant, Life, LooseTypeOK
<1>1. CASE CloseBook
  <2>1. market.closed_bid_count = market.bid_count /\ market.escrow_lamports = market.author_payout
        /\ bids' = bids
    BY <1>1 DEF CloseBook
  <2>2. ClosedBids = PlacedBids
    BY <1>0, <2>1, CountBounds, FS_Subset DEF Counting
  <2>3. market'.escrow_lamports = market'.author_payout
    BY <1>0, <1>1, <2>1 DEF CloseBook, LooseMarketRecord
  <2>4. QED
    BY <2>1, <2>2, <2>3 DEF ClosedBids, PlacedBids, Placed
<1>2. CASE market.status = "Settled"
  <2>1. /\ \A b \in Bidders : Placed(b) => bids[b].account = "closed"
        /\ market.escrow_lamports = market.author_payout
    BY <1>2 DEF BookClosed
  <2>2. \A b \in Bidders : bids[b].account # "open"
    BY <2>1 DEF Placed
  <2>3. ASSUME NEW b \in Bidders PROVE ~BidStep(b) /\ ~SettleBid(b) /\ ~CloseBid(b) /\ ~SettleAndClose(b)
    BY <1>2, <2>2 DEF BidStep, PlaceBid, PlaceAndFund, CheckBiddable, FundBid, Fundable, InitBidPermission,
                      SettleBid, SettleAndClose, Settleable, CloseBid, Closeable
  <2>4. ~CloseBook
    BY <1>2 DEF CloseBook
  <2>5. CASE VerdictStep
    BY <1>0, <1>2, <2>1, <2>5, VerdictFrame DEF Placed
  <2>6. CASE (PurseNext /\ UNCHANGED marketVars) \/ Tick \/ UNCHANGED vars
    <3>1. bids' = bids /\ market' = market
      BY <2>6 DEF marketVars, vars, Tick
    <3>2. QED
      BY <2>1, <3>1 DEF Placed
  <2>7. QED
    BY <2>3, <2>4, <2>5, <2>6 DEF Next, SettleStep
<1>3. ASSUME market.status # "Settled", ~CloseBook
      PROVE  FALSE
  <2>1. ASSUME NEW b \in Bidders, BidStep(b) PROVE FALSE
    <3>1. ASSUME NEW side \in Sides, NEW amount \in Amounts, PlaceBid(b, side, amount)
          PROVE  market'.status = market.status
      BY <1>0, <3>1 DEF PlaceBid, RecordBid, LooseMarketRecord
    <3>2. QED
      BY <1>0, <1>3, <2>1, <3>1, FundMarket, PlaceAndFundMarket DEF BidStep, InitBidPermission
  <2>2. ASSUME NEW b \in Bidders, SettleBid(b) \/ CloseBid(b) \/ SettleAndClose(b) PROVE FALSE
    <3>1. CASE SettleBid(b)
      BY <1>0, <1>3, <3>1, SettleMarket
    <3>2. CASE CloseBid(b)
      BY <1>0, <1>3, <3>2 DEF CloseBid, LooseMarketRecord
    <3>3. CASE SettleAndClose(b)
      BY <1>0, <1>3, <3>3, SettleAndCloseMarket
    <3>4. QED
      BY <2>2, <3>1, <3>2, <3>3
  <2>3. CASE VerdictStep
    BY <1>0, <1>3, <2>3, VerdictFrame
  <2>4. CASE (PurseNext /\ UNCHANGED marketVars) \/ Tick \/ UNCHANGED vars
    BY <1>3, <2>4 DEF marketVars, vars, Tick
  <2>5. QED
    BY <1>3, <2>1, <2>2, <2>3, <2>4 DEF Next, SettleStep
<1>4. QED
  BY <1>1, <1>2, <1>3

\* A closed book has nothing left to do.
LEMMA DoneWhenClosed == Invariant /\ BookClosed => SettledMeansDone
<1> SUFFICES ASSUME Invariant, BookClosed, market.status = "Settled"
             PROVE  /\ \A b \in Bidders : Placed(b) => bids[b].account = "closed" /\ bids[b].settled
                    /\ \A b \in Bidders : purse[b].locked = 0
                    /\ market.escrow_lamports = market.author_payout
  BY DEF SettledMeansDone
<1>1. BidLife /\ PursesBackBids
  BY DEF Invariant, Life
<1>2. \A b \in Bidders : Placed(b) => bids[b].account = "closed" /\ bids[b].settled
  BY <1>1 DEF BookClosed, BidLife
<1>3. ASSUME NEW b \in Bidders PROVE purse[b].locked = 0
  <2>1. bids[b].settled \/ ~bids[b].funded
    BY <1>1, <1>2 DEF Placed, BidLife
  <2>2. LiveStake(b) = 0
    BY <2>1 DEF LiveStake, Staked
  <2> QED
    BY <1>1, <2>2 DEF PursesBackBids
<1> QED
  BY <1>2, <1>3 DEF BookClosed

\* A book is closed only when every bid is settled and its account gone, no
\* purse has anything locked and the escrow is what the author is owed.
THEOREM ClosedIsDone == Spec => []SettledMeansDone
<1>1. Init => BookClosed
  BY DEF Init, MarketInit, BookClosed
<1>2. QED
  BY <1>1, DoneWhenClosed, InvariantHolds, BookClosedStep, PTL DEF Spec

----------------------------------------------------------------------------
(* What the verdict was reached on.                                        *)

\* Nothing a verdict is computed from changes once it is in.
LEMMA GroundsStand ==
  ASSUME Life, [Next]_vars, Decided
  PROVE  /\ market'.room = market.room /\ market'.ransom = market.ransom
         /\ market'.pot = market.pot
         /\ market'.bid_count = market.bid_count
         /\ market'.read_bid_count = market.read_bid_count
<1> USE DEF Life, Decided
<1>0. market \in LooseMarketRecord
  BY DEF LooseTypeOK
<1> DEFINE Same == /\ market'.room = market.room /\ market'.ransom = market.ransom
                   /\ market'.pot = market.pot
<1>1. CASE (PurseNext /\ UNCHANGED marketVars) \/ Tick \/ UNCHANGED vars
  BY <1>1 DEF marketVars, vars, Tick
<1>2. ASSUME NEW b \in Bidders, BidStep(b)
      PROVE  Same
  BY <1>2 DEF BidStep, PlaceBid, PlaceAndFund, CheckBiddable, FundBid, Fundable, InitBidPermission
<1>3. CASE VerdictStep
  BY <1>3, VerdictFrame
<1>4. ASSUME NEW b \in Bidders, SettleBid(b)
      PROVE  Same
  <2>1. market'.ransom = market.ransom
    <3> DEFINE reader == IF IsChosenBid(market, bids[b]) THEN b ELSE market.sole_reader
               left == SatSub(market.escrow_lamports, PayoutOf(market, bids[b]))
               due == market.author_payout + Forfeited(market, bids[b])
    <3>1. market' = [market EXCEPT !.sole_reader = reader, !.escrow_lamports = left,
                                   !.author_payout = due]
      BY <1>4 DEF SettleBid
    <3> HIDE DEF reader, left, due
    <3>2. QED
      BY <1>0, <3>1 DEF LooseMarketRecord
  <2>2. QED
    BY <1>4, <2>1, SettleMarket
<1>5. ASSUME NEW b \in Bidders, CloseBid(b)
      PROVE  Same
  BY <1>0, <1>5 DEF CloseBid, LooseMarketRecord
<1>6. CASE CloseBook
  BY <1>0, <1>6 DEF CloseBook, LooseMarketRecord
<1>7. Same
  BY <1>1, <1>2, <1>3, <1>4, <1>5, <1>6, SettleAndCloseMarket DEF Next, SettleStep
<1>8. Quiet
  BY DecidedStep
<1>9. QED
  BY <1>7, <1>8 DEF Quiet

\* A market is decided by expire_market, by the oracle's answer, or by the
\* author of a rumor.
LEMMA DecidingSteps ==
  ASSUME Life, [Next]_vars, market.outcome = "Pending", market'.outcome # "Pending"
  PROVE  \/ /\ ExpireMarket /\ IsConfession(market)
            /\ market.pot["Seal"] = 0 /\ market.pot["Read"] = 0
            /\ market' = [market EXCEPT !.status = "Resolved", !.outcome = "PublicLeak",
                                        !.resolved_at = now]
         \/ /\ market.status = "VrfPending"
            /\ \E draw \in Draws, coin \in BOOLEAN :
                 market' = [market EXCEPT !.status = "Resolved", !.outcome = Verdict(market, now, coin),
                                          !.randomness = draw, !.resolved_at = now]
         \/ /\ market.room = "WhisperIpo"
            /\ \E result \in 1..2 : ResolveRumor(result)
<1> USE DEF Life
<1>0. market \in LooseMarketRecord
  BY DEF LooseTypeOK
<1>1. ~((PurseNext /\ UNCHANGED marketVars) \/ Tick \/ UNCHANGED vars)
  BY DEF marketVars, vars, Tick
<1>2. ASSUME NEW b \in Bidders, BidStep(b)
      PROVE  market'.outcome = market.outcome
  <2>1. ASSUME NEW side \in Sides, NEW amount \in Amounts, PlaceBid(b, side, amount)
        PROVE  market'.outcome = market.outcome
    BY <1>0, <2>1 DEF PlaceBid, RecordBid, LooseMarketRecord
  <2>2. QED
    BY <1>2, <2>1, FundMarket, PlaceAndFundMarket DEF BidStep, InitBidPermission
<1>3. ~SettleStep
  BY SettleMarket, SettleAndCloseMarket, CloseMarket DEF SettleStep
<1>4. VerdictStep
  BY <1>1, <1>2, <1>3 DEF Next
<1>5. CASE ExpireMarket
  BY <1>0, <1>5 DEF ExpireMarket, LooseMarketRecord
<1>6. CASE \E draw \in Draws, coin \in BOOLEAN : CallbackResolve(draw, coin)
  BY <1>6 DEF CallbackResolve, Awaited
<1>7. CASE RequestResolutionVrf \/ CallbackRejected \/ OracleFails \/ RetryVrf
  BY <1>0, <1>7 DEF RequestResolutionVrf, CallbackRejected, OracleFails, RetryVrf, LooseMarketRecord
<1>8. CASE \E result \in 1..2 : ResolveRumor(result)
  BY <1>8 DEF ResolveRumor
<1>9. QED
  BY <1>4, <1>5, <1>6, <1>7, <1>8 DEF VerdictStep

\* The verdict is a function of the room, the ransom, the pots and the counters.
LEMMA VerdictGrounds ==
  ASSUME NEW m, NEW n, NEW t, NEW coin,
         n.room = m.room, n.ransom = m.ransom, n.pot = m.pot,
         n.bid_count = m.bid_count, n.read_bid_count = m.read_bid_count
  PROVE  Verdict(n, t, coin) = Verdict(m, t, coin)
BY DEF Verdict, GuiltVerdict, BlackmailVerdict, RansomDue

\* Every step keeps the verdict what the recorded pots call for.
LEMMA FollowsStep == Invariant /\ VerdictFollowsBook /\ [Next]_vars => VerdictFollowsBook'
<1> SUFFICES ASSUME Invariant, VerdictFollowsBook, [Next]_vars,
                    market'.outcome # "Pending", IsConfession(market')
             PROVE  IF market'.pot["Seal"] = 0 /\ market'.pot["Read"] = 0
                    THEN market'.outcome = "PublicLeak"
                    ELSE \E coin \in BOOLEAN :
                           market'.outcome = Verdict(market', market'.resolved_at, coin)
  BY DEF VerdictFollowsBook, IsConfession
<1>0. Life /\ market \in LooseMarketRecord /\ MarketLife
  BY DEF Invariant, Life, LooseTypeOK
<1>1. CASE market.outcome # "Pending"
  <2>1. Decided
    <3>1. market.status \in Statuses
      BY <1>0 DEF LooseMarketRecord
    <3>2. QED
      BY <1>0, <1>1, <3>1 DEF MarketLife, Decided, Statuses
  <2>2. /\ market'.room = market.room /\ market'.ransom = market.ransom
        /\ market'.pot = market.pot
        /\ market'.bid_count = market.bid_count
        /\ market'.read_bid_count = market.read_bid_count
    BY <1>0, <2>1, GroundsStand
  <2>3. market'.outcome = market.outcome /\ market'.resolved_at = market.resolved_at
    BY <1>0, <2>1, DecidedStep
  <2>4. IsConfession(market)
    BY <2>2 DEF IsConfession
  <2>5. \A coin : Verdict(market', market'.resolved_at, coin)
                  = Verdict(market, market.resolved_at, coin)
    BY <2>2, <2>3, VerdictGrounds
  <2>6. QED
    BY <1>1, <2>2, <2>3, <2>4, <2>5 DEF VerdictFollowsBook
<1>2. CASE market.outcome = "Pending"
  <2>1. CASE market.room = "WhisperIpo" /\ \E result \in 1..2 : ResolveRumor(result)
    <3>1. market'.room = market.room
      BY <1>0, <2>1 DEF ResolveRumor, LooseMarketRecord
    <3>2. QED
      BY <2>1, <3>1 DEF IsConfession, ConfessionRooms
  <2>2. CASE /\ market.pot["Seal"] = 0 /\ market.pot["Read"] = 0
             /\ market' = [market EXCEPT !.status = "Resolved", !.outcome = "PublicLeak",
                                         !.resolved_at = now]
    BY <1>0, <2>2 DEF LooseMarketRecord
  <2>3. ASSUME NEW draw \in Draws, NEW coin \in BOOLEAN, market.status = "VrfPending",
               market' = [market EXCEPT !.status = "Resolved", !.outcome = Verdict(market, now, coin),
                                        !.randomness = draw, !.resolved_at = now]
        PROVE  /\ ~(market'.pot["Seal"] = 0 /\ market'.pot["Read"] = 0)
               /\ market'.outcome = Verdict(market', market'.resolved_at, coin)
    <3> DEFINE verdict == Verdict(market, now, coin)
    <3> HIDE DEF verdict
    <3>1. market' = [market EXCEPT !.status = "Resolved", !.outcome = verdict,
                                   !.randomness = draw, !.resolved_at = now]
      BY <2>3 DEF verdict
    <3>2. /\ market'.room = market.room /\ market'.ransom = market.ransom
          /\ market'.pot = market.pot
          /\ market'.bid_count = market.bid_count
          /\ market'.read_bid_count = market.read_bid_count
          /\ market'.outcome = verdict /\ market'.resolved_at = now
      BY <1>0, <3>1 DEF LooseMarketRecord
    <3>3. market.pot["Seal"] + market.pot["Read"] > 0
      BY <1>0, <2>3 DEF MarketLife
    <3>4. Verdict(market', now, coin) = verdict
      BY <3>2, VerdictGrounds DEF verdict
    <3>5. QED
      BY <3>2, <3>3, <3>4
  <2>4. QED
    BY <1>0, <1>2, <2>1, <2>2, <2>3, DecidingSteps
<1>3. QED
  BY <1>1, <1>2

\* A confession's verdict can be recomputed for ever from the pots the market
\* records, and a book nobody paid into leaks.
THEOREM VerdictIsRecomputable == Spec => []VerdictFollowsBook
<1>1. Init => VerdictFollowsBook
  BY DEF Init, MarketInit, VerdictFollowsBook
<1>2. QED
  BY <1>1, FollowsStep, InvariantHolds, PTL DEF Spec
============================================================================
