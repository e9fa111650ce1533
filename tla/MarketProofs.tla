---------------------------- MODULE MarketProofs ----------------------------
(***************************************************************************)
(* Theorems about one market, for any number of bidders, any amounts and   *)
(* any interleaving.  Typing comes first, in a loose form in which the     *)
(* counters are only known to be naturals; the counting invariant then     *)
(* bounds them, and the money, oracle and closing invariants follow.       *)
(***************************************************************************)
EXTENDS Market, FiniteSetTheorems, TLAPS

LooseMarketRecord ==
  [room : LiveRooms, ransom : [floor : Nat, slope : Nat],
   status : Statuses, outcome : Outcomes, pot : [Sides -> Nat],
   bid_count : 0..MaxBidders, closed_bid_count : Nat,
   read_bid_count : Nat, sole_reader : Bidders \cup {Nobody},
   randomness : Nat, resolved_at : Nat, rumor_result : 0..2,
   escrow_lamports : Nat, author_payout : Nat]

LooseBidRecord ==
  [account : {"none", "open", "closed"}, side : Sides, amount : Nat,
   index : 0..MaxBidders, read_rank : Nat, funded : BOOLEAN,
   settled : BOOLEAN, private : BOOLEAN]

LooseTypeOK ==
  /\ wallet \in [Bidders -> Nat]
  /\ purse \in [Bidders -> PurseRecord]
  /\ market \in LooseMarketRecord
  /\ bids \in [Bidders -> LooseBidRecord]
  /\ now \in Nat
  /\ vrf \in Nat

\* Whatever a market records, what settle_bid computes from it and a bid is a
\* natural number of lamports.
LEMMA PayoutType ==
  ASSUME NEW m \in LooseMarketRecord, NEW bid \in LooseBidRecord
  PROVE  PayoutOf(m, bid) \in Nat /\ Forfeited(m, bid) \in Nat /\ Staked(bid) \in Nat
<1>1. Winnings(m, bid) \in Nat
  <2> DEFINE win == IF m.outcome = "Forgiven" THEN "Yes" ELSE "No"
             lose == IF m.outcome = "Forgiven" THEN "No" ELSE "Yes"
  <2>1. m.pot[win] \in Nat /\ m.pot[lose] \in Nat /\ bid.amount \in Nat
    BY DEF LooseMarketRecord, LooseBidRecord, Sides
  <2> HIDE DEF win, lose
  <2>2. bid.amount * m.pot[lose] \in Nat
    BY <2>1
  <2>3. m.pot[win] # 0 => (bid.amount * m.pot[lose]) \div m.pot[win] \in Nat
    BY <2>1, <2>2
  <2>4. QED
    BY <2>1, <2>3 DEF Winnings, win, lose
<1>2. ComputePayout(m, bid) \in Nat
  BY <1>1 DEF ComputePayout, LooseBidRecord
<1>3. Staked(bid) \in Nat /\ PayoutOf(m, bid) \in Nat
  BY <1>2 DEF Staked, PayoutOf, LooseBidRecord
<1>4. QED
  BY <1>3 DEF Forfeited, Shortfall, SatSub

\* A book nobody has bid in, whatever the villagers hold: all that the proofs need of
\* where a market starts, here and in the modules that start from fuller purses.
FreshBook ==
  /\ MarketInit
  /\ wallet \in [Bidders -> Nat]
  /\ purse \in [Bidders -> PurseRecord]
  /\ \A b \in Bidders : purse[b].locked = 0

\* The market starts with a fresh book.
LEMMA StartsFresh == Init => FreshBook
BY PurseAssumption, MarketAssumption DEF Init, PurseInit, PurseRecord, PurseLayers, FreshBook

\* The accounts a market starts with have their types.
LEMMA LooseInit == FreshBook => LooseTypeOK
<1> SUFFICES ASSUME FreshBook PROVE LooseTypeOK
  OBVIOUS
<1> USE PurseAssumption, MarketAssumption
<1>1. wallet \in [Bidders -> Nat] /\ purse \in [Bidders -> PurseRecord]
  BY DEF FreshBook
<1>2. market \in LooseMarketRecord
  BY DEF FreshBook, MarketInit, LooseMarketRecord, LiveRooms, Statuses, Outcomes
<1>3. bids \in [Bidders -> LooseBidRecord]
  BY DEF FreshBook, MarketInit, NoBid, NoRank, LooseBidRecord, Sides
<1>4. QED
  BY <1>1, <1>2, <1>3 DEF FreshBook, MarketInit, LooseTypeOK

\* An action that rewrites several fields of one villager's purse or bid keeps
\* the type of the whole map, and every other entry of it.
LEMMA EntryUpdate ==
  ASSUME NEW S, NEW f \in [Bidders -> S], NEW b \in Bidders, NEW e \in S, NEW g,
         g = [f EXCEPT ![b] = e]
  PROVE  /\ g \in [Bidders -> S]
         /\ g[b] = e
         /\ \A c \in Bidders \ {b} : g[c] = f[c]
OBVIOUS

\* What FundBid does to each account, entry by entry.
LEMMA FundEffect ==
  ASSUME LooseTypeOK, NEW b \in Bidders, FundBid(b)
  PROVE  /\ purse' \in [Bidders -> PurseRecord]
         /\ purse'[b] = [purse[b] EXCEPT !.available = @ - bids[b].amount, !.locked = @ + bids[b].amount]
         /\ \A c \in Bidders \ {b} : purse'[c] = purse[c]
         /\ bids' \in [Bidders -> LooseBidRecord]
         /\ bids'[b] = [bids[b] EXCEPT !.funded = TRUE,
                          !.read_rank = IF bids[b].side = "Read" THEN market.read_bid_count ELSE @]
         /\ \A c \in Bidders \ {b} : bids'[c] = bids[c]
<1> DEFINE p == [purse[b] EXCEPT !.available = @ - bids[b].amount, !.locked = @ + bids[b].amount]
           e == [bids[b] EXCEPT !.funded = TRUE,
                   !.read_rank = IF bids[b].side = "Read" THEN market.read_bid_count ELSE @]
<1>1. purse \in [Bidders -> PurseRecord] /\ bids \in [Bidders -> LooseBidRecord]
  BY DEF LooseTypeOK
<1>2. bids[b] \in LooseBidRecord /\ purse[b] \in PurseRecord /\ market.read_bid_count \in Nat
  BY <1>1 DEF LooseTypeOK, LooseMarketRecord
<1>3. bids[b].amount \in Nat /\ purse[b].available - bids[b].amount \in Nat /\ purse[b].locked + bids[b].amount \in Nat
  BY <1>2 DEF FundBid, Lock, PurseRecord, LooseBidRecord
<1>4. p \in PurseRecord
  BY <1>2, <1>3 DEF PurseRecord
<1>5. e \in LooseBidRecord
  BY <1>2 DEF LooseBidRecord
<1>6. purse' = [purse EXCEPT ![b] = p]
  BY <1>1 DEF FundBid, Lock
<1>7. bids' = [bids EXCEPT ![b] = e]
  BY <1>1 DEF FundBid
<1> HIDE DEF p, e
<1>8. purse' \in [Bidders -> PurseRecord] /\ purse'[b] = p /\ \A c \in Bidders \ {b} : purse'[c] = purse[c]
  BY <1>1, <1>4, <1>6, EntryUpdate
<1>9. bids' \in [Bidders -> LooseBidRecord] /\ bids'[b] = e /\ \A c \in Bidders \ {b} : bids'[c] = bids[c]
  BY <1>1, <1>5, <1>7, EntryUpdate
<1>10. QED
  BY <1>8, <1>9 DEF p, e

\* The fields of a bid that funding it leaves alone.
LEMMA FundFields ==
  ASSUME LooseTypeOK, NEW b \in Bidders, FundBid(b)
  PROVE  /\ bids'[b].funded = TRUE
         /\ bids'[b].account = bids[b].account /\ bids'[b].side = bids[b].side
         /\ bids'[b].amount = bids[b].amount /\ bids'[b].index = bids[b].index
         /\ bids'[b].settled = bids[b].settled
<1> DEFINE rank == IF bids[b].side = "Read" THEN market.read_bid_count ELSE bids[b].read_rank
<1>1. bids[b] \in LooseBidRecord
  BY DEF LooseTypeOK
<1>2. bids'[b] = [bids[b] EXCEPT !.funded = TRUE, !.read_rank = rank]
  BY FundEffect
<1> HIDE DEF rank
<1>3. QED
  BY <1>1, <1>2 DEF LooseBidRecord

\* What SettleBid does to each account, entry by entry.
LEMMA SettleEffect ==
  ASSUME LooseTypeOK, NEW b \in Bidders, SettleBid(b)
  PROVE  /\ purse' \in [Bidders -> PurseRecord]
         /\ purse'[b] = [purse[b] EXCEPT !.available = @ + PayoutOf(market, bids[b]),
                                         !.locked = SatSub(@, Staked(bids[b]))]
         /\ \A c \in Bidders \ {b} : purse'[c] = purse[c]
         /\ bids' \in [Bidders -> LooseBidRecord]
         /\ bids'[b] = [bids[b] EXCEPT !.settled = TRUE]
         /\ \A c \in Bidders \ {b} : bids'[c] = bids[c]
<1> DEFINE pay == PayoutOf(market, bids[b])
           p == [purse[b] EXCEPT !.available = @ + pay, !.locked = SatSub(@, Staked(bids[b]))]
           e == [bids[b] EXCEPT !.settled = TRUE]
<1>1. purse \in [Bidders -> PurseRecord] /\ bids \in [Bidders -> LooseBidRecord]
  BY DEF LooseTypeOK
<1>2. bids[b] \in LooseBidRecord /\ purse[b] \in PurseRecord
  BY <1>1
<1>3. pay \in Nat /\ Staked(bids[b]) \in Nat
  BY <1>2, PayoutType DEF LooseTypeOK
<1>4. p \in PurseRecord
  <2> HIDE DEF pay
  <2>1. purse[b].available + pay \in Nat /\ SatSub(purse[b].locked, Staked(bids[b])) \in Nat
    BY <1>2, <1>3 DEF PurseRecord, SatSub
  <2>2. QED
    BY <1>2, <2>1 DEF PurseRecord
<1>5. e \in LooseBidRecord
  BY <1>2 DEF LooseBidRecord
<1>6. purse' = [purse EXCEPT ![b] = p]
  BY <1>1 DEF SettleBid, Release
<1>7. bids' = [bids EXCEPT ![b] = e]
  BY <1>1 DEF SettleBid
<1> HIDE DEF p, e
<1>8. purse' \in [Bidders -> PurseRecord] /\ purse'[b] = p /\ \A c \in Bidders \ {b} : purse'[c] = purse[c]
  BY <1>1, <1>4, <1>6, EntryUpdate
<1>9. bids' \in [Bidders -> LooseBidRecord] /\ bids'[b] = e /\ \A c \in Bidders \ {b} : bids'[c] = bids[c]
  BY <1>1, <1>5, <1>7, EntryUpdate
<1>10. QED
  BY <1>8, <1>9 DEF p, e

\* What CloseBid does to the bids, entry by entry.
LEMMA CloseEffect ==
  ASSUME LooseTypeOK, NEW b \in Bidders, CloseBid(b)
  PROVE  /\ bids' \in [Bidders -> LooseBidRecord]
         /\ bids'[b] = [bids[b] EXCEPT !.account = "closed", !.private = FALSE]
         /\ \A c \in Bidders \ {b} : bids'[c] = bids[c]
<1> DEFINE e == [bids[b] EXCEPT !.account = "closed", !.private = FALSE]
<1>1. bids \in [Bidders -> LooseBidRecord]
  BY DEF LooseTypeOK
<1>2. e \in LooseBidRecord
  BY <1>1 DEF LooseBidRecord
<1>3. bids' = [bids EXCEPT ![b] = e]
  BY <1>1 DEF CloseBid
<1> HIDE DEF e
<1>4. bids' \in [Bidders -> LooseBidRecord] /\ bids'[b] = e /\ \A c \in Bidders \ {b} : bids'[c] = bids[c]
  BY <1>1, <1>2, <1>3, EntryUpdate
<1>5. QED
  BY <1>4 DEF e

\* What PlaceAndFund does to the purses.
LEMMA PlaceAndFundPurse ==
  ASSUME LooseTypeOK, NEW b \in Bidders, NEW side \in Sides, NEW amount \in Amounts,
         PlaceAndFund(b, side, amount)
  PROVE  /\ purse' \in [Bidders -> PurseRecord]
         /\ purse[b].layer = "ER" /\ purse'[b].layer = "ER"
         /\ purse'[b].available = purse[b].available - amount
         /\ purse'[b].locked = purse[b].locked + amount
         /\ \A c \in Bidders \ {b} : purse'[c] = purse[c]
<1> DEFINE p == [purse[b] EXCEPT !.available = @ - amount, !.locked = @ + amount]
<1>0. purse \in [Bidders -> PurseRecord] /\ purse[b] \in PurseRecord /\ amount \in Nat
  BY MarketAssumption DEF LooseTypeOK
<1>1. purse' = [purse EXCEPT ![b] = p] /\ purse[b].layer = "ER"
  BY <1>0 DEF PlaceAndFund, Lock
<1>2. p \in PurseRecord
  <2>1. purse[b].available - amount \in Nat /\ purse[b].locked + amount \in Nat
    BY <1>0 DEF PlaceAndFund, Lock, PurseRecord
  <2> QED
    BY <1>0, <2>1 DEF PurseRecord
<1>3. /\ p.layer = purse[b].layer /\ p.available = purse[b].available - amount
      /\ p.locked = purse[b].locked + amount
  BY <1>0 DEF PurseRecord
<1> HIDE DEF p
<1>4. purse' \in [Bidders -> PurseRecord] /\ purse'[b] = p /\ \A c \in Bidders \ {b} : purse'[c] = purse[c]
  BY <1>0, <1>1, <1>2, EntryUpdate
<1> QED
  BY <1>1, <1>3, <1>4

\* What PlaceAndFund does to the bids.
LEMMA PlaceAndFundEffect ==
  ASSUME LooseTypeOK, NEW b \in Bidders, NEW side \in Sides, NEW amount \in Amounts,
         PlaceAndFund(b, side, amount)
  PROVE  /\ bids' \in [Bidders -> LooseBidRecord]
         /\ bids'[b].account = "open" /\ bids'[b].side = side /\ bids'[b].amount = amount
         /\ bids'[b].index = market.bid_count
         /\ bids'[b].read_rank = IF side = "Read" THEN market.read_bid_count ELSE NoRank
         /\ bids'[b].funded = TRUE /\ bids'[b].settled = FALSE /\ bids'[b].private = FALSE
         /\ \A c \in Bidders \ {b} : bids'[c] = bids[c]
<1> DEFINE rank == IF side = "Read" THEN market.read_bid_count ELSE NoRank
           e == [OpenBid(side, amount) EXCEPT !.funded = TRUE, !.read_rank = rank]
<1>0. market \in LooseMarketRecord /\ bids \in [Bidders -> LooseBidRecord] /\ amount \in Nat
  BY MarketAssumption DEF LooseTypeOK
<1>1. /\ OpenBid(side, amount) \in LooseBidRecord /\ OpenBid(side, amount).read_rank = NoRank
      /\ OpenBid(side, amount).account = "open" /\ OpenBid(side, amount).amount = amount
      /\ OpenBid(side, amount).side = side /\ OpenBid(side, amount).index = market.bid_count
      /\ OpenBid(side, amount).settled = FALSE /\ OpenBid(side, amount).private = FALSE
  <2>1. NoBid \in LooseBidRecord
    BY MarketAssumption DEF NoBid, NoRank, LooseBidRecord, Sides
  <2>2. market.bid_count \in 0..MaxBidders
    BY <1>0 DEF LooseMarketRecord
  <2> QED
    BY <1>0, <2>1, <2>2 DEF OpenBid, LooseBidRecord, NoBid
<1>2. rank \in Nat
  BY <1>0 DEF LooseMarketRecord, NoRank
<1>3. bids' = [bids EXCEPT ![b] = e]
  BY <1>0, <1>1 DEF PlaceAndFund
<1> HIDE DEF rank
<1>4. /\ e \in LooseBidRecord /\ e.account = "open" /\ e.side = side /\ e.amount = amount
      /\ e.index = market.bid_count /\ e.read_rank = rank /\ e.funded = TRUE
      /\ e.settled = FALSE /\ e.private = FALSE
  BY <1>1, <1>2 DEF LooseBidRecord
<1> HIDE DEF e
<1>5. bids' \in [Bidders -> LooseBidRecord] /\ bids'[b] = e /\ \A c \in Bidders \ {b} : bids'[c] = bids[c]
  BY <1>0, <1>3, <1>4, EntryUpdate
<1> QED
  BY <1>4, <1>5 DEF rank

\* What PlaceAndFund changes of the market.
LEMMA PlaceAndFundMarket ==
  ASSUME LooseTypeOK, NEW b \in Bidders, NEW side \in Sides, NEW amount \in Amounts,
         PlaceAndFund(b, side, amount)
  PROVE  /\ market' \in LooseMarketRecord
         /\ market.status = "Open" /\ bids[b].account # "open"
         /\ market'.status = "Open" /\ market'.outcome = market.outcome
         /\ market'.room = market.room /\ market'.ransom = market.ransom
         /\ market'.pot = [market.pot EXCEPT ![side] = @ + amount]
         /\ market'.bid_count = market.bid_count + 1
         /\ market'.closed_bid_count = market.closed_bid_count
         /\ market'.read_bid_count = IF side = "Read" THEN market.read_bid_count + 1
                                     ELSE market.read_bid_count
         /\ market'.sole_reader = market.sole_reader
         /\ market'.randomness = market.randomness /\ market'.resolved_at = market.resolved_at
         /\ market'.escrow_lamports = market.escrow_lamports + amount
         /\ market'.author_payout = market.author_payout
         /\ UNCHANGED <<wallet, now, vrf>>
<1> DEFINE pot == [market.pot EXCEPT ![side] = @ + amount]
           count == market.bid_count + 1
           held == market.escrow_lamports + amount
           reads == IF side = "Read" THEN market.read_bid_count + 1 ELSE market.read_bid_count
<1>0. market \in LooseMarketRecord /\ amount \in Nat
  BY MarketAssumption DEF LooseTypeOK
<1>1. market' = [market EXCEPT !.bid_count = count, !.escrow_lamports = held, !.pot = pot,
                               !.read_bid_count = reads]
  BY DEF PlaceAndFund
<1>2. pot \in [Sides -> Nat] /\ held \in Nat /\ reads \in Nat
  BY <1>0 DEF LooseMarketRecord
<1>3. count \in 0..MaxBidders
  BY <1>0, MarketAssumption DEF PlaceAndFund, CheckBiddable, LooseMarketRecord
<1>4. market.status = "Open" /\ bids[b].account # "open" /\ UNCHANGED <<wallet, now, vrf>>
  BY DEF PlaceAndFund, CheckBiddable
<1> HIDE DEF pot, count, held, reads
<1>5. market' \in LooseMarketRecord
  BY <1>0, <1>1, <1>2, <1>3 DEF LooseMarketRecord
<1>6. /\ market'.bid_count = count /\ market'.escrow_lamports = held
      /\ market'.pot = pot /\ market'.read_bid_count = reads
  BY <1>0, <1>1 DEF LooseMarketRecord
<1>7. /\ market'.status = market.status /\ market'.outcome = market.outcome
      /\ market'.room = market.room /\ market'.ransom = market.ransom
      /\ market'.closed_bid_count = market.closed_bid_count
      /\ market'.sole_reader = market.sole_reader
      /\ market'.randomness = market.randomness /\ market'.resolved_at = market.resolved_at
      /\ market'.author_payout = market.author_payout
  BY <1>0, <1>1 DEF LooseMarketRecord
<1> QED
  BY <1>4, <1>5, <1>6, <1>7 DEF pot, count, held, reads

\* What SettleAndClose does to the purses and the bids, entry by entry.
LEMMA SettleAndCloseEffect ==
  ASSUME LooseTypeOK, NEW b \in Bidders, SettleAndClose(b)
  PROVE  /\ purse' \in [Bidders -> PurseRecord]
         /\ purse'[b] = [purse[b] EXCEPT !.available = @ + PayoutOf(market, bids[b]),
                                         !.locked = SatSub(@, Staked(bids[b]))]
         /\ \A c \in Bidders \ {b} : purse'[c] = purse[c]
         /\ bids' \in [Bidders -> LooseBidRecord]
         /\ bids'[b] = [bids[b] EXCEPT !.settled = TRUE, !.account = "closed", !.private = FALSE]
         /\ \A c \in Bidders \ {b} : bids'[c] = bids[c]
<1> DEFINE pay == PayoutOf(market, bids[b])
           p == [purse[b] EXCEPT !.available = @ + pay, !.locked = SatSub(@, Staked(bids[b]))]
           e == [bids[b] EXCEPT !.settled = TRUE, !.account = "closed", !.private = FALSE]
<1>1. purse \in [Bidders -> PurseRecord] /\ bids \in [Bidders -> LooseBidRecord]
  BY DEF LooseTypeOK
<1>2. bids[b] \in LooseBidRecord /\ purse[b] \in PurseRecord
  BY <1>1
<1>3. pay \in Nat /\ Staked(bids[b]) \in Nat
  BY <1>2, PayoutType DEF LooseTypeOK
<1>4. p \in PurseRecord
  <2> HIDE DEF pay
  <2>1. purse[b].available + pay \in Nat /\ SatSub(purse[b].locked, Staked(bids[b])) \in Nat
    BY <1>2, <1>3 DEF PurseRecord, SatSub
  <2>2. QED
    BY <1>2, <2>1 DEF PurseRecord
<1>5. e \in LooseBidRecord
  BY <1>2 DEF LooseBidRecord
<1>6. purse' = [purse EXCEPT ![b] = p]
  BY <1>1 DEF SettleAndClose, Release
<1>7. bids' = [bids EXCEPT ![b] = e]
  BY <1>1 DEF SettleAndClose
<1> HIDE DEF p, e
<1>8. purse' \in [Bidders -> PurseRecord] /\ purse'[b] = p /\ \A c \in Bidders \ {b} : purse'[c] = purse[c]
  BY <1>1, <1>4, <1>6, EntryUpdate
<1>9. bids' \in [Bidders -> LooseBidRecord] /\ bids'[b] = e /\ \A c \in Bidders \ {b} : bids'[c] = bids[c]
  BY <1>1, <1>5, <1>7, EntryUpdate
<1>10. QED
  BY <1>8, <1>9 DEF p, e

\* What a bid keeps when it is settled, and closed with that or not.
LEMMA SettledFields ==
  ASSUME LooseTypeOK, NEW b \in Bidders, SettleBid(b) \/ SettleAndClose(b)
  PROVE  /\ bids'[b].settled = TRUE
         /\ bids'[b].account \in {bids[b].account, "closed"}
         /\ bids'[b].side = bids[b].side /\ bids'[b].amount = bids[b].amount
         /\ bids'[b].index = bids[b].index /\ bids'[b].read_rank = bids[b].read_rank
         /\ bids'[b].funded = bids[b].funded
<1>1. bids[b] \in LooseBidRecord
  BY DEF LooseTypeOK
<1>2. CASE SettleBid(b)
  <2>1. bids'[b] = [bids[b] EXCEPT !.settled = TRUE]
    BY <1>2, SettleEffect
  <2> QED
    BY <1>1, <2>1 DEF LooseBidRecord
<1>3. CASE SettleAndClose(b)
  <2>1. bids'[b] = [bids[b] EXCEPT !.settled = TRUE, !.account = "closed", !.private = FALSE]
    BY <1>3, SettleAndCloseEffect
  <2> QED
    BY <1>1, <2>1 DEF LooseBidRecord
<1> QED
  BY <1>2, <1>3

\* A bid settled and closed at once is gone.
LEMMA ClosedAtOnce ==
  ASSUME LooseTypeOK, NEW b \in Bidders, SettleAndClose(b)
  PROVE  bids'[b].account = "closed"
<1>1. bids[b] \in LooseBidRecord
  BY DEF LooseTypeOK
<1>2. bids'[b] = [bids[b] EXCEPT !.settled = TRUE, !.account = "closed", !.private = FALSE]
  BY SettleAndCloseEffect
<1> QED
  BY <1>1, <1>2 DEF LooseBidRecord

\* What SettleAndClose changes of the market.
LEMMA SettleAndCloseMarket ==
  ASSUME LooseTypeOK, NEW b \in Bidders, SettleAndClose(b)
  PROVE  /\ market' \in LooseMarketRecord
         /\ market.status = "Resolved" /\ bids[b].account = "open" /\ ~bids[b].settled
         /\ market'.sole_reader = IF IsChosenBid(market, bids[b]) THEN b ELSE market.sole_reader
         /\ market'.room = market.room /\ market'.ransom = market.ransom /\ market'.pot = market.pot
         /\ market'.status = market.status /\ market'.outcome = market.outcome
         /\ market'.randomness = market.randomness /\ market'.resolved_at = market.resolved_at
         /\ market'.bid_count = market.bid_count
         /\ market'.closed_bid_count = market.closed_bid_count + 1
         /\ market'.read_bid_count = market.read_bid_count
         /\ market'.escrow_lamports = SatSub(market.escrow_lamports, PayoutOf(market, bids[b]))
         /\ market'.author_payout = market.author_payout + Forfeited(market, bids[b])
         /\ UNCHANGED <<wallet, now, vrf>>
<1> DEFINE reader == IF IsChosenBid(market, bids[b]) THEN b ELSE market.sole_reader
           left == SatSub(market.escrow_lamports, PayoutOf(market, bids[b]))
           due == market.author_payout + Forfeited(market, bids[b])
           count == market.closed_bid_count + 1
<1>1. market \in LooseMarketRecord /\ bids[b] \in LooseBidRecord
  BY DEF LooseTypeOK
<1>2. market' = [market EXCEPT !.sole_reader = reader, !.escrow_lamports = left, !.author_payout = due,
                               !.closed_bid_count = count]
  BY DEF SettleAndClose
<1>3. /\ market.status = "Resolved" /\ bids[b].account = "open" /\ ~bids[b].settled
      /\ UNCHANGED <<wallet, now, vrf>>
  BY DEF SettleAndClose, Settleable
<1>4. PayoutOf(market, bids[b]) \in Nat /\ Forfeited(market, bids[b]) \in Nat
  BY <1>1, PayoutType
<1>5. left \in Nat /\ due \in Nat /\ count \in Nat /\ reader \in Bidders \cup {Nobody}
  BY <1>1, <1>4 DEF SatSub, LooseMarketRecord
<1> HIDE DEF reader, left, due, count
<1>6. market' \in LooseMarketRecord
  BY <1>1, <1>2, <1>5 DEF LooseMarketRecord
<1>7. /\ market'.sole_reader = reader /\ market'.escrow_lamports = left
      /\ market'.author_payout = due /\ market'.closed_bid_count = count
  BY <1>1, <1>2 DEF LooseMarketRecord
<1>8. /\ market'.room = market.room /\ market'.ransom = market.ransom /\ market'.pot = market.pot
      /\ market'.status = market.status /\ market'.outcome = market.outcome
      /\ market'.randomness = market.randomness /\ market'.resolved_at = market.resolved_at
      /\ market'.bid_count = market.bid_count /\ market'.read_bid_count = market.read_bid_count
  BY <1>1, <1>2 DEF LooseMarketRecord
<1> QED
  BY <1>3, <1>6, <1>7, <1>8 DEF reader, left, due, count

\* What a step of one purse alone does to it.
LEMMA PurseEffect ==
  ASSUME LooseTypeOK, PurseNext
  PROVE  /\ wallet' \in [Bidders -> Nat]
         /\ purse' \in [Bidders -> PurseRecord]
         /\ \A c \in Bidders : /\ purse'[c].locked = purse[c].locked
                               /\ purse[c].layer = "ER" /\ purse[c].locked > 0 => purse'[c].layer = "ER"
<1> USE PurseAssumption
<1>1. /\ wallet \in [Bidders -> Nat] /\ purse \in [Bidders -> PurseRecord]
      /\ \A c \in Bidders : purse[c] \in PurseRecord
  BY DEF LooseTypeOK
<1>2. PICK b \in Bidders :
        \/ \E amount \in Transfers : DepositPurse(b, amount) \/ WithdrawPurse(b, amount)
        \/ DelegatePurse(b) \/ UndelegatePurse(b) \/ PurseReturns(b)
  BY DEF PurseNext
<1>3. ASSUME NEW amount \in Transfers, DepositPurse(b, amount)
      PROVE  wallet' \in [Bidders -> Nat] /\ \E e \in PurseRecord :
               purse' = [purse EXCEPT ![b] = e] /\ e.locked = purse[b].locked /\ purse[b].layer # "ER"
  <2> DEFINE e == [purse[b] EXCEPT !.available = @ + amount, !.layer = "L1"]
  <2>1. wallet[b] - amount \in Nat /\ purse[b].available + amount \in Nat
    BY <1>1, <1>3 DEF DepositPurse, PurseRecord
  <2>2. e \in PurseRecord /\ e.locked = purse[b].locked /\ purse[b].layer # "ER"
    BY <1>1, <1>3, <2>1 DEF DepositPurse, PurseRecord, PurseLayers
  <2>3. purse' = [purse EXCEPT ![b] = e]
    BY <1>1, <1>3 DEF DepositPurse
  <2>4. wallet' \in [Bidders -> Nat]
    BY <1>1, <1>3, <2>1 DEF DepositPurse
  <2>5. QED
    BY <2>2, <2>3, <2>4
<1>4. ASSUME NEW amount \in Transfers, WithdrawPurse(b, amount)
      PROVE  wallet' \in [Bidders -> Nat] /\ \E e \in PurseRecord :
               purse' = [purse EXCEPT ![b] = e] /\ e.locked = purse[b].locked /\ purse[b].layer # "ER"
  <2> DEFINE e == [purse[b] EXCEPT !.available = @ - amount]
  <2>1. wallet[b] + amount \in Nat /\ purse[b].available - amount \in Nat
    BY <1>1, <1>4 DEF WithdrawPurse, PurseRecord
  <2>2. e \in PurseRecord /\ e.locked = purse[b].locked /\ purse[b].layer # "ER"
    BY <1>1, <1>4, <2>1 DEF WithdrawPurse, PurseRecord, PurseLayers
  <2>3. purse' = [purse EXCEPT ![b] = e]
    BY <1>1, <1>4 DEF WithdrawPurse
  <2>4. wallet' \in [Bidders -> Nat]
    BY <1>1, <1>4, <2>1 DEF WithdrawPurse
  <2>5. QED
    BY <2>2, <2>3, <2>4
<1>5. ASSUME DelegatePurse(b) \/ UndelegatePurse(b) \/ PurseReturns(b)
      PROVE  wallet' \in [Bidders -> Nat] /\ \E e \in PurseRecord :
               /\ purse' = [purse EXCEPT ![b] = e] /\ e.locked = purse[b].locked
               /\ purse[b].layer # "ER" \/ purse[b].locked = 0
  <2> DEFINE e == [purse[b] EXCEPT !.layer = IF DelegatePurse(b) THEN "ER"
                                             ELSE IF UndelegatePurse(b) THEN "returning" ELSE "L1"]
  <2>1. e \in PurseRecord /\ e.locked = purse[b].locked
    BY <1>1 DEF PurseRecord, PurseLayers
  <2>2. purse' = [purse EXCEPT ![b] = e] /\ wallet' = wallet /\ (purse[b].layer # "ER" \/ purse[b].locked = 0)
    BY <1>1, <1>5 DEF DelegatePurse, UndelegatePurse, Undelegatable, PurseReturns
  <2> HIDE DEF e
  <2>3. QED
    BY <1>1, <2>1, <2>2
<1>6. wallet' \in [Bidders -> Nat] /\ \E e \in PurseRecord :
        /\ purse' = [purse EXCEPT ![b] = e] /\ e.locked = purse[b].locked
        /\ purse[b].layer # "ER" \/ purse[b].locked = 0
  BY <1>2, <1>3, <1>4, <1>5
<1>7. PICK e \in PurseRecord :
        /\ purse' = [purse EXCEPT ![b] = e] /\ e.locked = purse[b].locked
        /\ purse[b].layer # "ER" \/ purse[b].locked = 0
  BY <1>6
<1>8. purse' \in [Bidders -> PurseRecord] /\ purse'[b] = e /\ \A c \in Bidders \ {b} : purse'[c] = purse[c]
  BY <1>1, <1>7, EntryUpdate
<1>9. purse[b].locked \in Nat
  BY <1>1 DEF PurseRecord
<1>10. QED
  BY <1>6, <1>7, <1>8, <1>9

\* Every instruction keeps the types.
LEMMA LooseStep == LooseTypeOK /\ [Next]_vars => LooseTypeOK'
<1> SUFFICES ASSUME LooseTypeOK, [Next]_vars PROVE LooseTypeOK'
  OBVIOUS
<1>0. market \in LooseMarketRecord /\ bids \in [Bidders -> LooseBidRecord] /\ vrf \in Nat
  BY DEF LooseTypeOK
<1>1. CASE PurseNext /\ UNCHANGED marketVars
  BY <1>1, PurseEffect DEF LooseTypeOK, marketVars
<1>2. ASSUME NEW b \in Bidders, NEW side \in Sides, NEW amount \in Amounts, PlaceBid(b, side, amount)
      PROVE  LooseTypeOK'
  <2>1. market' \in LooseMarketRecord
    BY <1>0, <1>2, MarketAssumption DEF PlaceBid, RecordBid, CheckBiddable, LooseMarketRecord
  <2>2. OpenBid(side, amount) \in LooseBidRecord
    <3>1. amount \in Nat /\ market.bid_count \in 0..MaxBidders
      BY <1>0, MarketAssumption DEF LooseMarketRecord
    <3>2. NoBid \in LooseBidRecord
      BY MarketAssumption DEF NoBid, NoRank, LooseBidRecord, Sides
    <3>3. QED
      BY <3>1, <3>2 DEF OpenBid, LooseBidRecord
  <2>3. bids' \in [Bidders -> LooseBidRecord]
    BY <1>0, <1>2, <2>2 DEF PlaceBid, RecordBid
  <2>4. QED
    BY <1>2, <2>1, <2>3 DEF LooseTypeOK, PlaceBid, purseVars
<1>3. ASSUME NEW b \in Bidders, FundBid(b)
      PROVE  LooseTypeOK'
  <2>1. bids[b].amount \in Nat /\ bids[b].side \in Sides
    BY <1>0 DEF LooseBidRecord
  <2>2. /\ market.escrow_lamports + bids[b].amount \in Nat /\ market.read_bid_count + 1 \in Nat
        /\ [market.pot EXCEPT ![bids[b].side] = @ + bids[b].amount] \in [Sides -> Nat]
    BY <1>0, <2>1 DEF LooseMarketRecord
  <2>3. market' \in LooseMarketRecord
    <3> DEFINE pot == [market.pot EXCEPT ![bids[b].side] = @ + bids[b].amount]
               m == [market EXCEPT !.escrow_lamports = @ + bids[b].amount, !.pot = pot,
                       !.read_bid_count = IF bids[b].side = "Read" THEN @ + 1 ELSE @]
    <3>1. m \in LooseMarketRecord
      <4> HIDE DEF pot
      <4>1. pot \in [Sides -> Nat]
        BY <2>2 DEF pot
      <4>2. QED
        BY <1>0, <2>2, <4>1 DEF LooseMarketRecord
    <3>2. market' = m
      BY <1>3 DEF FundBid
    <3>3. QED
      BY <3>1, <3>2
  <2>4. QED
    BY <1>3, <2>3, FundEffect DEF LooseTypeOK, FundBid
<1>4. ASSUME NEW b \in Bidders, InitBidPermission(b)
      PROVE  LooseTypeOK'
  <2>1. bids' \in [Bidders -> LooseBidRecord]
    BY <1>0, <1>4 DEF InitBidPermission, LooseBidRecord
  <2>2. QED
    BY <1>4, <2>1 DEF LooseTypeOK, InitBidPermission, purseVars
<1>5. CASE Tick
  BY <1>5 DEF LooseTypeOK, Tick, purseVars
<1>6. CASE VerdictStep
  <2>1. market' \in LooseMarketRecord
    <3> now \in Nat
      BY DEF LooseTypeOK
    <3>1. CASE ExpireMarket
      BY <1>0, <3>1 DEF ExpireMarket, LooseMarketRecord, Statuses, Outcomes
    <3>2. CASE RequestResolutionVrf
      BY <1>0, <3>2 DEF RequestResolutionVrf, LooseMarketRecord, Statuses
    <3>3. ASSUME NEW draw \in Draws, NEW coin \in BOOLEAN, CallbackResolve(draw, coin)
          PROVE  market' \in LooseMarketRecord
      <4>1. Verdict(market, now, coin) \in Outcomes
        BY DEF Verdict, GuiltVerdict, BlackmailVerdict, Outcomes
      <4>2. QED
        BY <1>0, <3>3, <4>1, MarketAssumption DEF CallbackResolve, LooseMarketRecord, Statuses
    <3>4. CASE CallbackRejected \/ OracleFails
      BY <1>0, <3>4 DEF CallbackRejected, OracleFails
    <3>5. CASE RetryVrf
      BY <1>0, <3>5 DEF RetryVrf, LooseMarketRecord, Statuses
    <3>6. ASSUME NEW result \in 1..2, ResolveRumor(result)
          PROVE  market' \in LooseMarketRecord
      <4> DEFINE outcome == IF result = 1 THEN "Forgiven" ELSE "Slashed"
      <4>1. outcome \in Outcomes /\ result \in 0..2
        BY DEF Outcomes
      <4>2. market' = [market EXCEPT !.rumor_result = result, !.outcome = outcome,
                                     !.status = "Resolved", !.resolved_at = now]
        BY <3>6 DEF ResolveRumor
      <4> HIDE DEF outcome
      <4>3. QED
        BY <1>0, <4>1, <4>2 DEF LooseMarketRecord, Statuses
    <3>7. QED
      BY <1>6, <3>1, <3>2, <3>3, <3>4, <3>5, <3>6 DEF VerdictStep
  <2>2. vrf' \in Nat
    <3>1. vrf' \in {vrf, vrf + 1} \/ (vrf > 0 /\ vrf' = vrf - 1)
      BY <1>6 DEF VerdictStep, ExpireMarket, RequestResolutionVrf, CallbackResolve,
           Awaited, CallbackRejected, OracleFails, RetryVrf, ResolveRumor
    <3>2. QED
      BY <1>0, <3>1
  <2>3. UNCHANGED <<wallet, purse, bids, now>>
    BY <1>6 DEF VerdictStep, ExpireMarket, RequestResolutionVrf, CallbackResolve,
                CallbackRejected, OracleFails, RetryVrf, ResolveRumor, purseVars
  <2>4. QED
    BY <2>1, <2>2, <2>3 DEF LooseTypeOK
<1>7. ASSUME NEW b \in Bidders, SettleBid(b)
      PROVE  LooseTypeOK'
  <2> DEFINE pay == PayoutOf(market, bids[b])
             due == Forfeited(market, bids[b])
             reader == IF IsChosenBid(market, bids[b]) THEN b ELSE market.sole_reader
  <2>1. pay \in Nat /\ due \in Nat /\ reader \in Bidders \cup {Nobody}
    BY <1>0, PayoutType DEF LooseMarketRecord
  <2>2. market' = [market EXCEPT !.sole_reader = reader, !.escrow_lamports = SatSub(@, pay),
                                 !.author_payout = @ + due]
    BY <1>7 DEF SettleBid
  <2> HIDE DEF pay, due, reader
  <2>3. market' \in LooseMarketRecord
    <3>1. SatSub(market.escrow_lamports, pay) \in Nat /\ market.author_payout + due \in Nat
      BY <1>0, <2>1 DEF SatSub, LooseMarketRecord
    <3>2. QED
      BY <1>0, <2>1, <2>2, <3>1 DEF LooseMarketRecord
  <2>4. QED
    BY <1>7, <2>3, SettleEffect DEF LooseTypeOK, SettleBid
<1>8. ASSUME NEW b \in Bidders, CloseBid(b)
      PROVE  LooseTypeOK'
  <2>1. market' \in LooseMarketRecord
    BY <1>0, <1>8 DEF CloseBid, LooseMarketRecord
  <2>2. QED
    BY <1>8, <2>1, CloseEffect DEF LooseTypeOK, CloseBid, purseVars
<1>9. CASE CloseBook
  BY <1>0, <1>9 DEF LooseTypeOK, CloseBook, LooseMarketRecord, Statuses, purseVars
<1>10. CASE UNCHANGED vars
  BY <1>10 DEF LooseTypeOK, vars, purseVars, marketVars
<1>11. ASSUME NEW b \in Bidders, NEW side \in Sides, NEW amount \in Amounts,
              PlaceAndFund(b, side, amount)
       PROVE  LooseTypeOK'
  BY <1>11, PlaceAndFundPurse, PlaceAndFundEffect, PlaceAndFundMarket DEF LooseTypeOK
<1>12. ASSUME NEW b \in Bidders, SettleAndClose(b)
       PROVE  LooseTypeOK'
  BY <1>12, SettleAndCloseEffect, SettleAndCloseMarket DEF LooseTypeOK
<1>13. QED
  BY <1>1, <1>2, <1>3, <1>4, <1>5, <1>6, <1>7, <1>8, <1>9, <1>10, <1>11, <1>12
  DEF Next, BidStep, SettleStep

\* Types hold of every behaviour of the market.
THEOREM LooseTypes == Spec => []LooseTypeOK
BY StartsFresh, LooseInit, LooseStep, PTL DEF Spec

----------------------------------------------------------------------------
(* The life of a bid and of the market: which states go together.          *)

\* A bid pays before it settles, settles before it closes, and settles only
\* under a verdict.
BidLife ==
  \A b \in Bidders :
    /\ bids[b].account = "none" => ~bids[b].funded /\ ~bids[b].settled
    /\ bids[b].account = "closed" => bids[b].settled
    /\ bids[b].settled => market.status \in {"Resolved", "Settled"}

\* The verdict comes with the status that says so, and a confession nobody paid
\* into leaks at its expiry instead of going on to the oracle.
MarketLife ==
  /\ market.outcome = "Pending" <=> market.status \in {"Open", "Expired", "VrfPending"}
  /\ market.status = "VrfPending" => IsConfession(market)
  /\ IsConfession(market) /\ market.status \in {"Expired", "VrfPending"} =>
       market.pot["Seal"] + market.pot["Read"] > 0

Life == LooseTypeOK /\ BidLife /\ MarketLife

\* What the verdict instructions leave alone, and that they never disturb a
\* verdict once it is in.
LEMMA VerdictFrame ==
  ASSUME LooseTypeOK, VerdictStep
  PROVE  /\ wallet' = wallet /\ purse' = purse /\ bids' = bids /\ now' = now
         /\ market'.room = market.room /\ market'.pot = market.pot
         /\ market'.bid_count = market.bid_count
         /\ market'.closed_bid_count = market.closed_bid_count
         /\ market'.read_bid_count = market.read_bid_count
         /\ market'.sole_reader = market.sole_reader
         /\ market'.escrow_lamports = market.escrow_lamports
         /\ market'.author_payout = market.author_payout
         /\ market'.status # "Settled" \/ market'.status = market.status
         /\ market.status \in {"Resolved", "Settled"} => market' = market
<1>1. market \in LooseMarketRecord
  BY DEF LooseTypeOK
<1>2. CASE ExpireMarket
  BY <1>1, <1>2 DEF ExpireMarket, LooseMarketRecord, purseVars
<1>3. CASE RequestResolutionVrf
  BY <1>1, <1>3 DEF RequestResolutionVrf, Requestable, LooseMarketRecord, purseVars
<1>4. ASSUME NEW draw \in Draws, NEW coin \in BOOLEAN, CallbackResolve(draw, coin)
      PROVE  market' = [market EXCEPT !.status = "Resolved", !.outcome = Verdict(market, now, coin),
                                      !.randomness = draw, !.resolved_at = now]
             /\ UNCHANGED <<wallet, purse, bids, now>> /\ market.status = "VrfPending"
  BY <1>4 DEF CallbackResolve, Awaited, purseVars
<1>5. CASE CallbackRejected \/ OracleFails
  BY <1>5 DEF CallbackRejected, OracleFails, purseVars
<1>6. CASE RetryVrf
  BY <1>1, <1>6 DEF RetryVrf, LooseMarketRecord, purseVars
<1>7. ASSUME NEW result \in 1..2, ResolveRumor(result)
      PROVE  market' = [market EXCEPT !.rumor_result = result,
                                      !.outcome = IF result = 1 THEN "Forgiven" ELSE "Slashed",
                                      !.status = "Resolved", !.resolved_at = now]
             /\ UNCHANGED <<wallet, purse, bids, now>> /\ market.status \in {"Open", "Expired"}
  BY <1>7 DEF ResolveRumor, purseVars
<1>8. CASE \E draw \in Draws, coin \in BOOLEAN : CallbackResolve(draw, coin)
  <2>1. PICK draw \in Draws, coin \in BOOLEAN : CallbackResolve(draw, coin)
    BY <1>8
  <2>2. /\ market' = [market EXCEPT !.status = "Resolved", !.outcome = Verdict(market, now, coin),
                                    !.randomness = draw, !.resolved_at = now]
        /\ UNCHANGED <<wallet, purse, bids, now>> /\ market.status = "VrfPending"
    BY <1>4, <2>1
  <2>3. QED
    BY <1>1, <2>2 DEF LooseMarketRecord
<1>9. CASE \E result \in 1..2 : ResolveRumor(result)
  <2>1. PICK result \in 1..2 : ResolveRumor(result)
    BY <1>9
  <2>2. /\ market' = [market EXCEPT !.rumor_result = result,
                                    !.outcome = IF result = 1 THEN "Forgiven" ELSE "Slashed",
                                    !.status = "Resolved", !.resolved_at = now]
        /\ UNCHANGED <<wallet, purse, bids, now>> /\ market.status \in {"Open", "Expired"}
    BY <1>7, <2>1
  <2>3. QED
    BY <1>1, <2>2 DEF LooseMarketRecord
<1>10. \/ ExpireMarket \/ RequestResolutionVrf
       \/ \E draw \in Draws, coin \in BOOLEAN : CallbackResolve(draw, coin)
       \/ CallbackRejected \/ OracleFails \/ RetryVrf
       \/ \E result \in 1..2 : ResolveRumor(result)
  BY Zenon DEF VerdictStep
<1>11. QED
  BY <1>2, <1>3, <1>5, <1>6, <1>8, <1>9, <1>10, Zenon

\* The verdict instructions keep the market's statuses, outcomes and pots
\* consistent.
LEMMA VerdictLife ==
  ASSUME LooseTypeOK, MarketLife, VerdictStep
  PROVE  MarketLife'
<1> USE DEF MarketLife, IsConfession
<1>1. /\ market \in LooseMarketRecord
      /\ market.pot["Seal"] \in Nat /\ market.pot["Read"] \in Nat
  BY DEF LooseTypeOK, LooseMarketRecord, Sides
<1>2. CASE ExpireMarket
  <2>1. CASE IsConfession(market) /\ market.pot["Seal"] = 0 /\ market.pot["Read"] = 0
    BY <1>1, <1>2, <2>1 DEF ExpireMarket, LooseMarketRecord
  <2>2. CASE ~(IsConfession(market) /\ market.pot["Seal"] = 0 /\ market.pot["Read"] = 0)
    BY <1>1, <1>2, <2>2 DEF ExpireMarket, LooseMarketRecord
  <2>3. QED
    BY <2>1, <2>2
<1>3. CASE RequestResolutionVrf
  BY <1>1, <1>3 DEF RequestResolutionVrf, Requestable, LooseMarketRecord
<1>4. ASSUME NEW draw \in Draws, NEW coin \in BOOLEAN, CallbackResolve(draw, coin)
      PROVE  MarketLife'
  <2>1. Verdict(market, now, coin) # "Pending"
    BY DEF Verdict, GuiltVerdict, BlackmailVerdict
  <2>2. QED
    BY <1>1, <1>4, <2>1 DEF CallbackResolve, LooseMarketRecord
<1>5. CASE CallbackRejected \/ OracleFails
  BY <1>5 DEF CallbackRejected, OracleFails
<1>6. CASE RetryVrf
  BY <1>1, <1>6 DEF RetryVrf, LooseMarketRecord
<1>7. ASSUME NEW result \in 1..2, ResolveRumor(result)
      PROVE  MarketLife'
  BY <1>1, <1>7 DEF ResolveRumor, LooseMarketRecord
<1>8. QED
  BY <1>2, <1>3, <1>4, <1>5, <1>6, <1>7 DEF VerdictStep

\* A bid that is opened is the villager's first, as long as bids close only
\* under a verdict.
LEMMA PlaceEffect ==
  ASSUME LooseTypeOK, BidLife,
         NEW b \in Bidders, NEW side \in Sides, NEW amount \in Amounts, PlaceBid(b, side, amount)
  PROVE  /\ market.status = "Open" /\ bids[b].account = "none"
         /\ bids' = [bids EXCEPT ![b] = bids'[b]]
         /\ \A c \in Bidders \ {b} : bids'[c] = bids[c]
         /\ bids'[b].account = "open" /\ bids'[b].side = side /\ bids'[b].index = market.bid_count
         /\ ~bids'[b].funded /\ ~bids'[b].settled /\ bids'[b].read_rank = NoRank
         /\ market' = [market EXCEPT !.bid_count = @ + 1]
         /\ UNCHANGED <<wallet, purse, now, vrf>>
<1>1. bids \in [Bidders -> LooseBidRecord] /\ bids[b].account \in {"none", "open", "closed"}
  BY DEF LooseTypeOK, LooseBidRecord
<1>2. market.status = "Open" /\ bids[b].account = "none"
  BY <1>1 DEF PlaceBid, CheckBiddable, BidLife
<1>3. bids' = [bids EXCEPT ![b] = OpenBid(side, amount)]
  BY DEF PlaceBid, RecordBid
<1>4. bids'[b] = OpenBid(side, amount) /\ \A c \in Bidders \ {b} : bids'[c] = bids[c]
  BY <1>1, <1>3
<1>5. QED
  BY <1>2, <1>3, <1>4 DEF PlaceBid, RecordBid, OpenBid, NoBid, purseVars

\* Nor did the villager bid before who places and funds at once.
LEMMA PlaceAndFundIsFirst ==
  ASSUME LooseTypeOK, BidLife,
         NEW b \in Bidders, NEW side \in Sides, NEW amount \in Amounts,
         PlaceAndFund(b, side, amount)
  PROVE  bids[b].account = "none" /\ ~bids[b].funded /\ ~bids[b].settled
<1>1. bids[b].account \in {"none", "open", "closed"}
  BY DEF LooseTypeOK, LooseBidRecord
<1>2. QED
  BY <1>1, PlaceAndFundMarket DEF BidLife

\* What funding a bid changes of the market.
LEMMA FundMarket ==
  ASSUME LooseTypeOK, NEW b \in Bidders, FundBid(b)
  PROVE  /\ market.status = "Open" /\ bids[b].account = "open" /\ ~bids[b].funded
         /\ market'.status = "Open" /\ market'.outcome = market.outcome /\ market'.room = market.room
         /\ market'.bid_count = market.bid_count
         /\ market'.closed_bid_count = market.closed_bid_count
         /\ market'.read_bid_count = IF bids[b].side = "Read" THEN market.read_bid_count + 1
                                     ELSE market.read_bid_count
         /\ market'.sole_reader = market.sole_reader
BY DEF LooseTypeOK, LooseMarketRecord, FundBid, Fundable

\* What settling a bid changes of the market.
LEMMA SettleMarket ==
  ASSUME LooseTypeOK, NEW b \in Bidders, SettleBid(b)
  PROVE  /\ market.status = "Resolved" /\ bids[b].account = "open" /\ ~bids[b].settled
         /\ market'.sole_reader = IF IsChosenBid(market, bids[b]) THEN b ELSE market.sole_reader
         /\ market'.room = market.room /\ market'.pot = market.pot
         /\ market'.status = market.status /\ market'.outcome = market.outcome
         /\ market'.randomness = market.randomness /\ market'.resolved_at = market.resolved_at
         /\ market'.bid_count = market.bid_count
         /\ market'.closed_bid_count = market.closed_bid_count
         /\ market'.read_bid_count = market.read_bid_count
<1> DEFINE reader == IF IsChosenBid(market, bids[b]) THEN b ELSE market.sole_reader
           left == SatSub(market.escrow_lamports, PayoutOf(market, bids[b]))
           due == market.author_payout + Forfeited(market, bids[b])
<1>1. market \in LooseMarketRecord
  BY DEF LooseTypeOK
<1>2. market' = [market EXCEPT !.sole_reader = reader, !.escrow_lamports = left, !.author_payout = due]
  BY DEF SettleBid
<1>3. market.status = "Resolved" /\ bids[b].account = "open" /\ ~bids[b].settled
  BY DEF SettleBid, Settleable
<1> HIDE DEF reader, left, due
<1>4. market'.sole_reader = reader
  BY <1>1, <1>2 DEF LooseMarketRecord
<1>5. QED
  BY <1>1, <1>2, <1>3, <1>4 DEF LooseMarketRecord, reader

\* What closing a bid, or the book, changes of the market.
LEMMA CloseMarket ==
  ASSUME LooseTypeOK, (\E b \in Bidders : CloseBid(b)) \/ CloseBook
  PROVE  /\ market'.room = market.room /\ market'.pot = market.pot
         /\ market'.status \in {market.status, "Settled"} /\ market'.outcome = market.outcome
         /\ market'.status # market.status => market.status = "Resolved"
         /\ market'.randomness = market.randomness /\ market'.resolved_at = market.resolved_at
         /\ market'.bid_count = market.bid_count
         /\ market'.read_bid_count = market.read_bid_count
         /\ market'.sole_reader = market.sole_reader
         /\ purse' = purse
BY DEF LooseTypeOK, LooseMarketRecord, CloseBid, CloseBook, purseVars

\* The life of bids and market starts as it should.
LEMMA LifeAtInit == FreshBook => Life
<1> SUFFICES ASSUME FreshBook PROVE BidLife /\ MarketLife
  BY LooseInit DEF Life
<1> QED
  BY DEF FreshBook, MarketInit, BidLife, MarketLife, NoBid

\* The life invariant is inductive.
LEMMA LifeStep == Life /\ [Next]_vars => Life'
<1> SUFFICES ASSUME Life, [Next]_vars PROVE BidLife' /\ MarketLife'
  BY LooseStep DEF Life
<1> USE DEF Life
<1>0. /\ market \in LooseMarketRecord
      /\ market.pot["Seal"] \in Nat /\ market.pot["Read"] \in Nat
      /\ \A c \in Bidders : bids[c] \in LooseBidRecord
  BY DEF LooseTypeOK, LooseMarketRecord, Sides
<1>1. CASE PurseNext /\ UNCHANGED marketVars
  BY <1>1 DEF marketVars, BidLife, MarketLife, IsConfession
<1>2. ASSUME NEW b \in Bidders, NEW side \in Sides, NEW amount \in Amounts, PlaceBid(b, side, amount)
      PROVE  BidLife' /\ MarketLife'
  <2>1. market'.status = market.status /\ market'.outcome = market.outcome
        /\ market'.room = market.room /\ market'.pot = market.pot
    BY <1>0, <1>2, PlaceEffect DEF LooseMarketRecord
  <2>2. BidLife'
    BY <1>2, <2>1, PlaceEffect DEF BidLife
  <2>3. MarketLife'
    BY <2>1 DEF MarketLife, IsConfession
  <2>4. QED
    BY <2>2, <2>3
<1>3. ASSUME NEW b \in Bidders, FundBid(b)
      PROVE  BidLife' /\ MarketLife'
  <2>1. bids'[b].account = bids[b].account /\ bids'[b].settled = bids[b].settled
        /\ \A c \in Bidders \ {b} : bids'[c] = bids[c]
    BY ZenonT(60), <1>0, <1>3, FundEffect DEF LooseBidRecord
  <2>2. BidLife'
    BY <1>3, <2>1, FundMarket DEF BidLife
  <2>3. MarketLife'
    BY <1>3, FundMarket DEF MarketLife
  <2>4. QED
    BY <2>2, <2>3
<1>4. ASSUME NEW b \in Bidders, InitBidPermission(b)
      PROVE  BidLife' /\ MarketLife'
  <2>1. market' = market
    BY <1>4 DEF InitBidPermission
  <2>2. \A c \in Bidders : /\ bids'[c].account = bids[c].account /\ bids'[c].funded = bids[c].funded
                           /\ bids'[c].settled = bids[c].settled
    BY <1>0, <1>4 DEF InitBidPermission, LooseBidRecord, LooseTypeOK
  <2>3. QED
    BY <2>1, <2>2 DEF BidLife, MarketLife, IsConfession
<1>5. CASE Tick
  BY <1>5 DEF Tick, BidLife, MarketLife, IsConfession
<1>6. CASE VerdictStep
  <2>1. MarketLife'
    BY <1>6, VerdictLife
  <2>2. BidLife'
    BY <1>6, VerdictFrame DEF BidLife
  <2>3. QED
    BY <2>1, <2>2
<1>7. ASSUME NEW b \in Bidders, SettleBid(b)
      PROVE  BidLife' /\ MarketLife'
  <2>1. bids'[b].account = "open" /\ \A c \in Bidders \ {b} : bids'[c] = bids[c]
    BY <1>0, <1>7, SettleEffect, SettleMarket DEF LooseBidRecord
  <2>2. BidLife'
    BY <1>7, <2>1, SettleMarket DEF BidLife
  <2>3. MarketLife'
    BY <1>7, SettleMarket DEF MarketLife, IsConfession
  <2>4. QED
    BY <2>2, <2>3
<1>8. ASSUME NEW b \in Bidders, CloseBid(b)
      PROVE  BidLife' /\ MarketLife'
  <2>1. market'.status = market.status
    BY <1>0, <1>8 DEF CloseBid, LooseMarketRecord
  <2>2. /\ bids'[b].account = "closed" /\ bids'[b].settled = bids[b].settled /\ bids[b].settled
        /\ \A c \in Bidders \ {b} : bids'[c] = bids[c]
    <3>1. bids[b].settled
      BY <1>8 DEF CloseBid, Closeable
    <3>2. bids'[b].account = "closed" /\ bids'[b].settled = bids[b].settled
      BY ZenonT(60), <1>0, <1>8, CloseEffect DEF LooseBidRecord
    <3>3. QED
      BY <1>8, <3>1, <3>2, CloseEffect
  <2>3. BidLife'
    BY <2>1, <2>2 DEF BidLife
  <2>4. MarketLife'
    BY <1>8, <2>1, CloseMarket DEF MarketLife, IsConfession
  <2>5. QED
    BY <2>3, <2>4
<1>9. CASE CloseBook
  <2>1. bids' = bids
    BY <1>9 DEF CloseBook
  <2>2. market.status = "Resolved" /\ market'.status = "Settled"
    BY <1>0, <1>9 DEF CloseBook, LooseMarketRecord
  <2>3. QED
    BY <1>9, <2>1, <2>2, CloseMarket DEF BidLife, MarketLife, IsConfession
<1>10. CASE UNCHANGED vars
  BY <1>10 DEF vars, marketVars, BidLife, MarketLife, IsConfession
<1>11. ASSUME NEW b \in Bidders, NEW side \in Sides, NEW amount \in Amounts,
              PlaceAndFund(b, side, amount)
       PROVE  BidLife' /\ MarketLife'
  <2>1. BidLife'
    <3>1. bids'[b].account = "open" /\ bids'[b].settled = FALSE
          /\ \A c \in Bidders \ {b} : bids'[c] = bids[c]
      BY <1>11, PlaceAndFundEffect
    <3>2. market'.status = market.status
      BY <1>11, PlaceAndFundMarket
    <3> QED
      BY <3>1, <3>2 DEF BidLife
  <2>2. MarketLife'
    BY <1>11, PlaceAndFundMarket DEF MarketLife
  <2>3. QED
    BY <2>1, <2>2
<1>12. ASSUME NEW b \in Bidders, SettleAndClose(b)
       PROVE  BidLife' /\ MarketLife'
  <2>1. BidLife'
    <3>1. bids'[b].account = "closed" /\ bids'[b].settled = TRUE
          /\ \A c \in Bidders \ {b} : bids'[c] = bids[c]
      BY <1>12, SettleAndCloseEffect, SettledFields, ClosedAtOnce
    <3>2. market'.status = market.status /\ market.status = "Resolved"
      BY <1>12, SettleAndCloseMarket
    <3> QED
      BY <3>1, <3>2 DEF BidLife
  <2>2. MarketLife'
    BY <1>12, SettleAndCloseMarket DEF MarketLife, IsConfession
  <2>3. QED
    BY <2>1, <2>2
<1>13. QED
  BY <1>1, <1>2, <1>3, <1>4, <1>5, <1>6, <1>7, <1>8, <1>9, <1>10, <1>11, <1>12
  DEF Next, BidStep, SettleStep

\* Only a paid, undecided confession ever waits for the oracle.
THEOREM OracleIsOwedAPaidConfession == Spec => []OnlyPaidConfessionsAwaitOracle
<1>1. Life => OnlyPaidConfessionsAwaitOracle
  BY DEF Life, MarketLife, OnlyPaidConfessionsAwaitOracle
<1>2. QED
  BY <1>1, StartsFresh, LifeAtInit, LifeStep, PTL DEF Spec
============================================================================
