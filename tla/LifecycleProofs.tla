-------------------------- MODULE LifecycleProofs --------------------------
(***************************************************************************)
(* Proofs about module Lifecycle: what Solana publishes, who is let in and *)
(* what the tombstone says, for every number of villagers and seals.  What *)
(* was proved of the book carries over: outside its own steps a market's   *)
(* life only pays the author out of it.                                    *)
(***************************************************************************)
EXTENDS Reading, MarketMoney

----------------------------------------------------------------------------
(* What holds between the market, the secret and the tombstone.            *)

\* The commitment is to the text in the secret.
CommittedToBody == secret.body = commitment

\* Nothing is shown before the market is settled, nor on stone before it is carved.
ShownOnceSettled ==
  /\ revealed # NoReveal => market.status = "Settled"
  /\ tomb.account # "carved" => tomb.revealed = NoReveal

\* Whoever is let in beside the author is the market's reader.
MembersAreReader ==
  \A b \in secret.members \ {Author} :
    b = market.sole_reader /\ b # Nobody /\ secret.permission = "private"

\* In a confession's room every bid is to seal or to read.
Sided == IsConfession(market) => \A b \in Bidders : Placed(b) => bids[b].side \in {"Seal", "Read"}

\* What was proved of the book, with what the proofs below add to it.
Book ==
  /\ Invariant /\ ReaderIsChosen /\ Money
  /\ BookClosed /\ VerdictFollowsBook /\ ChosenAreNamed
  /\ Priced /\ Sided

LifeInvariant ==
  /\ Book
  /\ LifeTypeOK
  /\ CommittedToBody /\ ShownOnceSettled /\ MembersAreReader
  /\ OnlyTheVerdictPublishes
  /\ TombstoneIsTrue

----------------------------------------------------------------------------
(* What a step may do to the book.                                         *)

\* A settled book stays as it is, but for what the author is still owed, and a named
\* reader stays named.
Settles ==
  /\ market.status = "Settled" =>
       /\ market'.status = "Settled" /\ market'.outcome = market.outcome
       /\ market'.sole_reader = market.sole_reader /\ market'.pot = market.pot
  /\ market.sole_reader # Nobody => market'.sole_reader = market.sole_reader

\* A settled market's pots and reader stand.
LEMMA PotStays ==
  ASSUME Life, [Next]_vars, market.status = "Settled"
  PROVE  market'.pot = market.pot /\ market'.sole_reader = market.sole_reader
<1>0. LooseTypeOK /\ market \in LooseMarketRecord
  BY DEF Life, LooseTypeOK
<1>1. CASE (PurseNext /\ UNCHANGED marketVars) \/ Tick \/ UNCHANGED vars
  BY <1>1 DEF marketVars, vars, Tick
<1>2. ASSUME NEW b \in Bidders, BidStep(b)
      PROVE  market' = market
  BY <1>2 DEF BidStep, PlaceBid, PlaceAndFund, CheckBiddable, FundBid, Fundable, InitBidPermission
<1>3. CASE VerdictStep
  BY <1>0, <1>3, VerdictFrame
<1>4. ASSUME NEW b \in Bidders, CloseBid(b)
      PROVE  market'.pot = market.pot /\ market'.sole_reader = market.sole_reader
  BY <1>0, <1>4 DEF CloseBid, LooseMarketRecord
<1>5. CASE CloseBook
  BY <1>0, <1>5 DEF CloseBook, LooseMarketRecord
<1>6. ASSUME NEW b \in Bidders, SettleBid(b) \/ SettleAndClose(b)
      PROVE  FALSE
  BY <1>6 DEF SettleBid, SettleAndClose, Settleable
<1> QED
  BY <1>1, <1>2, <1>3, <1>4, <1>5, <1>6 DEF Next, SettleStep

\* A market never changes room, and only placing a bid gives it its side.
LEMMA SidedStep == Life /\ Sided /\ [Next]_vars => Sided'
<1> SUFFICES ASSUME Life, Sided, [Next]_vars PROVE Sided'
  OBVIOUS
<1> USE DEF Life
<1>0. /\ market \in LooseMarketRecord /\ bids \in [Bidders -> LooseBidRecord]
      /\ \A c \in Bidders : bids[c] \in LooseBidRecord
  BY DEF LooseTypeOK
<1>1. ASSUME market'.room = market.room,
             \A c \in Bidders : bids'[c].account # "none" => bids[c].account # "none" /\ bids'[c].side = bids[c].side
      PROVE  Sided'
  BY <1>1 DEF Sided, Placed, IsConfession
<1>2. ASSUME NEW b \in Bidders, NEW side \in Sides, NEW amount \in Amounts, PlaceBid(b, side, amount)
      PROVE  Sided'
  <2>1. /\ market'.room = market.room /\ bids'[b].side = side
        /\ \A c \in Bidders \ {b} : bids'[c] = bids[c]
    BY <1>0, <1>2, PlaceEffect DEF LooseMarketRecord
  <2>2. IsConfession(market) => side \in {"Seal", "Read"}
    BY <1>2 DEF PlaceBid, CheckBiddable, IsConfession, ConfessionRooms
  <2>3. QED
    BY <2>1, <2>2 DEF Sided, Placed, IsConfession
<1>3. CASE Quiet
  <2>1. market'.room = market.room
    <3>1. CASE (PurseNext /\ UNCHANGED marketVars) \/ Tick \/ UNCHANGED vars
      BY <3>1 DEF marketVars, vars, Tick
    <3>2. ASSUME NEW b \in Bidders, BidStep(b) PROVE market'.room = market.room
      <4>1. ASSUME NEW side \in Sides, NEW amount \in Amounts, PlaceBid(b, side, amount)
            PROVE  market'.room = market.room
        BY <1>0, <4>1, PlaceEffect DEF LooseMarketRecord
      <4>2. ASSUME NEW side \in Sides, NEW amount \in Amounts, PlaceAndFund(b, side, amount)
            PROVE  market'.room = market.room
        BY <4>2, PlaceAndFundMarket
      <4>3. QED
        BY <3>2, <4>1, <4>2, FundMarket DEF BidStep, InitBidPermission
    <3>3. CASE VerdictStep
      BY <3>3, VerdictFrame
    <3>4. CASE SettleStep
      BY <3>4, SettleMarket, SettleAndCloseMarket, CloseMarket DEF SettleStep
    <3>5. QED
      BY <3>1, <3>2, <3>3, <3>4 DEF Next
  <2>2. QED
    BY <1>1, <1>3, <2>1 DEF Quiet
<1>4. ASSUME NEW b \in Bidders, FundBid(b) PROVE Sided'
  <2>1. market'.room = market.room /\ bids'[b].side = bids[b].side /\ bids[b].account = "open"
    BY <1>4, FundMarket, FundFields
  <2>2. \A c \in Bidders \ {b} : bids'[c] = bids[c]
    BY <1>4, FundEffect
  <2>3. QED
    BY <1>1, <2>1, <2>2
<1>5. ASSUME NEW b \in Bidders, NEW side \in Sides, NEW amount \in Amounts,
             PlaceAndFund(b, side, amount)
      PROVE  Sided'
  <2>1. /\ market'.room = market.room /\ bids'[b].side = side
        /\ \A c \in Bidders \ {b} : bids'[c] = bids[c]
    BY <1>5, PlaceAndFundMarket, PlaceAndFundEffect
  <2>2. IsConfession(market) => side \in {"Seal", "Read"}
    BY <1>5 DEF PlaceAndFund, CheckBiddable, IsConfession, ConfessionRooms
  <2>3. QED
    BY <2>1, <2>2 DEF Sided, Placed, IsConfession
<1>6. QED
  BY <1>2, <1>3, <1>4, <1>5, BookSteps

\* The book's own steps.
LEMMA BookFrame ==
  ASSUME Book, [Next]_vars
  PROVE  Book' /\ Settles
<1>0. /\ Invariant /\ ReaderIsChosen /\ Money /\ BookClosed /\ VerdictFollowsBook
      /\ ChosenAreNamed /\ Priced /\ Sided /\ Life
  BY DEF Book, Invariant
<1>1. Invariant'
  BY <1>0, LifeStep, BackedStep, BookOrderStep, CountingStep DEF Invariant
<1>2. ReaderIsChosen' /\ Money' /\ BookClosed' /\ VerdictFollowsBook' /\ ChosenAreNamed'
  BY <1>0, ReaderStep, MoneyStep, BookClosedStep, FollowsStep, NamedStep
<1>3. market.sole_reader # Nobody => market'.sole_reader = market.sole_reader
  BY <1>0, FinalStep
<1>4. ASSUME market.status = "Settled"
      PROVE  /\ market'.status = "Settled" /\ market'.outcome = market.outcome
             /\ market'.sole_reader = market.sole_reader /\ market'.pot = market.pot
  BY <1>0, <1>4, DecidedStep, PotStays DEF Decided
<1>5. Priced' /\ Sided'
  BY <1>0, PricedStep, SidedStep
<1> QED
  BY <1>1, <1>2, <1>3, <1>4, <1>5 DEF Settles, Book

\* claim_author: a settled book holds the author's due and nothing else, so paying it
\* leaves an empty escrow that still covers every claim.
LEMMA ClaimFrame ==
  ASSUME Book, ClaimAuthor
  PROVE  /\ Book' /\ Settles
         /\ market'.escrow_lamports = market.escrow_lamports - market.author_payout
<1> DEFINE rest == SatSub(market.escrow_lamports, market.author_payout)
<1>0. /\ Invariant /\ ReaderIsChosen /\ Money /\ BookClosed /\ VerdictFollowsBook
      /\ ChosenAreNamed /\ Priced /\ Sided /\ market.status = "Settled"
  BY DEF Book, ClaimAuthor
<1>1. Life /\ LooseTypeOK /\ market \in LooseMarketRecord /\ bids \in [Bidders -> LooseBidRecord]
  BY <1>0 DEF Invariant, Life, LooseTypeOK
<1>2. rest \in Nat /\ PaidOff \in Nat
  BY <1>1 DEF SatSub, PaidOff, LooseMarketRecord
<1>3. market' = [market EXCEPT !.author_payout = PaidOff, !.escrow_lamports = rest]
  BY DEF ClaimAuthor
<1> HIDE DEF rest
<1>4. market' \in LooseMarketRecord
  BY <1>1, <1>2, <1>3 DEF LooseMarketRecord
<1>5. /\ market'.status = market.status /\ market'.outcome = market.outcome
      /\ market'.sole_reader = market.sole_reader /\ market'.pot = market.pot
      /\ market'.room = market.room /\ market'.randomness = market.randomness
      /\ market'.bid_count = market.bid_count /\ market'.read_bid_count = market.read_bid_count
      /\ market'.closed_bid_count = market.closed_bid_count
  BY <1>1, <1>3 DEF LooseMarketRecord
<1>6. UNCHANGED <<wallet, purse, bids, now, vrf>>
  BY DEF ClaimAuthor, purseVars
<1>7. LooseTypeOK'
  BY <1>1, <1>4, <1>6 DEF LooseTypeOK
<1>8. BidLife' /\ MarketLife'
  BY <1>1, <1>5, <1>6 DEF Life, BidLife, MarketLife, IsConfession
<1>9. PursesBackBids'
  BY <1>0, <1>6 DEF Invariant, PursesBackBids, LiveStake
<1>10. BookOrder'
  BY <1>0, <1>5, <1>6 DEF Invariant, BookOrder, Placed, Ranked
<1>11. Counting'
  BY <1>0, <1>5, <1>6 DEF Invariant, Counting, PlacedBids, RankedBids, ClosedBids, Placed, Ranked
<1>12. ReaderIsChosen' /\ ChosenAreNamed'
  BY <1>0, <1>5, <1>6 DEF ReaderIsChosen, ChosenAreNamed, Decided, IsChosenBid, IsConfession
<1>13. Priced' /\ Sided'
  BY <1>0, <1>5, <1>6 DEF Priced, Sided, Placed, IsConfession
<1>14. VerdictFollowsBook'
  <2>1. market'.ransom = market.ransom /\ market'.resolved_at = market.resolved_at
    BY <1>1, <1>3 DEF LooseMarketRecord
  <2>2. \A coin : Verdict(market', market'.resolved_at, coin) = Verdict(market, market.resolved_at, coin)
    BY <1>5, <2>1, VerdictGrounds
  <2> QED
    BY <1>0, <1>5, <2>1, <2>2 DEF VerdictFollowsBook, IsConfession
<1>15. /\ market.escrow_lamports = market.author_payout
       /\ market.escrow_lamports \in Nat
       /\ market'.author_payout = 0 /\ market'.escrow_lamports = 0
  <2>1. market.escrow_lamports = market.author_payout /\ market.escrow_lamports \in Nat
    BY <1>0, <1>1 DEF BookClosed, LooseMarketRecord
  <2>2. rest = 0
    BY <2>1 DEF rest, SatSub
  <2> QED
    BY <1>1, <1>3, <2>1, <2>2 DEF LooseMarketRecord, PaidOff
<1>16. BookClosed'
  BY <1>0, <1>5, <1>6, <1>15 DEF BookClosed, Placed
<1>17. Money'
  <2>1. PotsAreStakes(market', bids')
    BY <1>0, <1>5, <1>6 DEF Money, PotsAreStakes
  <2>2. LiveStakes(bids') = LiveStakes(bids) /\ LivePayouts(market', bids') = LivePayouts(market, bids)
    <3>1. ASSUME NEW b \in Bidders
          PROVE  PayoutOf(market', bids'[b]) = PayoutOf(market, bids[b])
      BY <1>5, <1>6 DEF PayoutOf, ComputePayout, Winnings, IsChosenBid
    <3> QED
      BY <1>6, <3>1, Zenon DEF LiveStakes, LivePayouts
  <2>3. SumFunction(LivePayouts(market, bids)) \in Nat /\ SumFunction(LiveStakes(bids)) \in Nat
    BY <1>1, MoneyTypes
  <2>4. Covered(market', bids')
    BY <1>0, <1>5, <1>15, <2>2, <2>3 DEF Money, Covered
  <2> QED
    BY <2>1, <2>4 DEF Money
<1>18. Settles
  BY <1>5 DEF Settles
<1>19. Invariant'
  BY <1>7, <1>8, <1>9, <1>10, <1>11 DEF Invariant, Life
<1> QED
  BY <1>12, <1>13, <1>14, <1>15, <1>16, <1>17, <1>18, <1>19 DEF Book

\* Lifecycle takes the book's instructions as they are.
LEMMA BookStepIsNext == BookStep => [Next]_vars /\ UNCHANGED lifeVars
BY DEF BookStep, Next, BidStep, VerdictStep, SettleStep

\* Outside the book's own steps only claim_author touches it.
LEMMA LifeSteps == [LifeNext]_allVars => [Next]_vars \/ ClaimAuthor
BY BookStepIsNext DEF LifeNext, SecretStep, HomeStep, CreateMarket, CreateSecretShell,
   DelegateMarket, DelegateSecret, InitSecretPermission, SealSecret, GrantReader, Admissible, FinalizeMarket,
   MarketReturns, OpenTombstone, WriteTombstone, SealTombstone, ActionDropped, RecordRead, allVars

\* Every step of a market's life keeps its book.
LEMMA LifeFrame ==
  ASSUME Book, [LifeNext]_allVars
  PROVE  Book' /\ Settles
<1>1. CASE ClaimAuthor
  BY <1>1, ClaimFrame
<1>2. CASE [Next]_vars
  BY <1>2, BookFrame
<1> QED
  BY <1>1, <1>2, LifeSteps

----------------------------------------------------------------------------
(* What a step does to the market's life.                                  *)

\* The parts of the secret and the stone have their types.
LEMMA SecretFields ==
  ASSUME LifeTypeOK
  PROVE  /\ secret \in SecretRecord
         /\ secret.body \in 0..MaxSeals /\ secret.members \subseteq Bidders \cup {Author}
         /\ tomb \in TombRecord /\ revealed \in Reveal /\ tomb.revealed \in Reveal
         /\ NoReveal \in Reveal
BY LifecycleAssumption DEF LifeTypeOK, SecretRecord, TombRecord, Reveal, NoReveal, Texts

\* What is shown stays true while what it is about stays.
LEMMA ShownStays ==
  ASSUME LifeInvariant, Settles, UNCHANGED <<revealed, tomb>>, tombstoned => tombstoned',
         market.status = "Settled" => commitment' = commitment
  PROVE  ShownOnceSettled' /\ OnlyTheVerdictPublishes' /\ TombstoneIsTrue'
<1>1. ShownOnceSettled /\ OnlyTheVerdictPublishes /\ TombstoneIsTrue
  BY DEF LifeInvariant
<1>2. ShownOnceSettled'
  BY <1>1 DEF ShownOnceSettled, Settles
<1>3. TombstoneIsTrue'
  BY <1>1 DEF TombstoneIsTrue, Settles
<1>4. ASSUME NEW shown \in {revealed, tomb.revealed}
      PROVE  /\ shown.text = "body" => market'.outcome = "PublicLeak"
             /\ shown.text = "redacted" => market'.outcome = "RandomReveal"
             /\ shown.salt => shown.text = "body" /\ shown.version = commitment'
  <2>1. CASE shown = NoReveal
    BY <2>1 DEF NoReveal
  <2>2. CASE shown # NoReveal
    <3>1. market.status = "Settled"
      BY <1>1, <2>2 DEF ShownOnceSettled, TombstoneIsTrue
    <3> QED
      BY <1>1, <3>1 DEF OnlyTheVerdictPublishes, Settles
  <2> QED
    BY <2>1, <2>2
<1>5. OnlyTheVerdictPublishes'
  BY <1>4 DEF OnlyTheVerdictPublishes
<1> QED
  BY <1>2, <1>3, <1>5

\* A step that lets no one in, and no one out, keeps the reader admitted.
LEMMA MembersStay ==
  ASSUME MembersAreReader, Settles, secret'.members = secret.members,
         secret'.permission = secret.permission
  PROVE  MembersAreReader'
BY DEF MembersAreReader, Settles

\* The steps that leave the secret alone, and what is published and carved.
LEMMA MovesKeep ==
  ASSUME LifeInvariant, Settles, UNCHANGED <<commitment, revealed, secret, tomb, tombstoned>>,
         home' \in {"none", "L1", "ER", "returning"}, read_at' \in BOOLEAN, action' \in BOOLEAN,
         earned' \in Nat
  PROVE  /\ LifeTypeOK' /\ CommittedToBody' /\ ShownOnceSettled' /\ MembersAreReader'
         /\ OnlyTheVerdictPublishes' /\ TombstoneIsTrue'
<1>1. LifeTypeOK' /\ CommittedToBody'
  BY DEF LifeInvariant, LifeTypeOK, CommittedToBody
<1>2. MembersAreReader'
  BY MembersStay DEF LifeInvariant
<1> QED
  BY <1>1, <1>2, ShownStays

\* The steps on the secret that reach no text.
LEMMA AdmissionsKeep ==
  ASSUME LifeInvariant, Settles, NEW next \in SecretRecord, secret' = next, next.body = secret.body,
         UNCHANGED <<home, commitment, revealed, tombstoned, read_at, tomb, action, earned>>,
         MembersAreReader'
  PROVE  /\ LifeTypeOK' /\ CommittedToBody' /\ ShownOnceSettled' /\ MembersAreReader'
         /\ OnlyTheVerdictPublishes' /\ TombstoneIsTrue'
<1>1. LifeTypeOK' /\ CommittedToBody'
  BY DEF LifeInvariant, LifeTypeOK, CommittedToBody
<1> QED
  BY <1>1, ShownStays

\* Every instruction on the secret keeps the invariant.
LEMMA SecretKeeps ==
  ASSUME LifeInvariant, Settles, SecretStep
  PROVE  /\ LifeTypeOK' /\ CommittedToBody' /\ ShownOnceSettled' /\ MembersAreReader'
         /\ OnlyTheVerdictPublishes' /\ TombstoneIsTrue'
<1>0. /\ LifeTypeOK /\ MembersAreReader /\ ReaderIsChosen /\ secret \in SecretRecord
      /\ Author \notin Bidders \cup {Nobody}
  BY SecretFields, LifecycleAssumption DEF LifeInvariant, Book
<1>1. ASSUME NEW layer \in {"L1", "ER"}, secret' = [secret EXCEPT !.layer = layer],
             UNCHANGED <<home, commitment, revealed, tombstoned, read_at, tomb, action, earned>>
      PROVE  /\ LifeTypeOK' /\ CommittedToBody' /\ ShownOnceSettled' /\ MembersAreReader'
             /\ OnlyTheVerdictPublishes' /\ TombstoneIsTrue'
  <2>1. /\ secret' \in SecretRecord /\ secret'.body = secret.body
        /\ secret'.members = secret.members /\ secret'.permission = secret.permission
    BY <1>0, <1>1 DEF SecretRecord
  <2> QED
    BY <1>0, <1>1, <2>1, MembersStay, AdmissionsKeep
<1>2. CASE InitSecretPermission
  <2> DEFINE permission == IF IsConfession(market) THEN "private" ELSE "public"
  <2>1. permission \in {"private", "public"}
    OBVIOUS
  <2>2. secret' = [secret EXCEPT !.permission = permission, !.members = {Author}]
    BY <1>2 DEF InitSecretPermission
  <2> HIDE DEF permission
  <2>3. secret' \in SecretRecord /\ secret'.body = secret.body /\ secret'.members = {Author}
    BY <1>0, <2>1, <2>2 DEF SecretRecord
  <2>4. MembersAreReader'
    BY <2>3 DEF MembersAreReader
  <2> QED
    BY <1>2, <2>3, <2>4, AdmissionsKeep DEF InitSecretPermission
<1>3. ASSUME NEW b \in Bidders, GrantReader(b)
      PROVE  /\ LifeTypeOK' /\ CommittedToBody' /\ ShownOnceSettled' /\ MembersAreReader'
             /\ OnlyTheVerdictPublishes' /\ TombstoneIsTrue'
  <2>1. b = market.sole_reader /\ b # Nobody /\ market'.sole_reader = b
    BY <1>3 DEF GrantReader, Admissible, Grantable, Settles
  <2>2. secret' \in SecretRecord /\ secret'.body = secret.body
        /\ secret'.members = {Author, b} /\ secret'.permission = "private"
    BY <1>0, <1>3 DEF GrantReader, Admissible, SecretRecord
  <2>3. MembersAreReader'
    BY <2>1, <2>2 DEF MembersAreReader
  <2> QED
    BY <1>3, <2>2, <2>3, AdmissionsKeep DEF GrantReader, Admissible
<1>4. ASSUME NEW version \in 1..MaxSeals, SealSecret(version)
      PROVE  /\ LifeTypeOK' /\ CommittedToBody' /\ ShownOnceSettled' /\ MembersAreReader'
             /\ OnlyTheVerdictPublishes' /\ TombstoneIsTrue'
  <2>1. secret' = [secret EXCEPT !.body = version] /\ commitment' = version
        /\ version \in 0..MaxSeals /\ market.status = "Open"
    BY <1>4 DEF SealSecret, Sealable
  <2>2. /\ secret' \in SecretRecord /\ secret'.body = version
        /\ secret'.members = secret.members /\ secret'.permission = secret.permission
    BY <1>0, <2>1 DEF SecretRecord
  <2>3. LifeTypeOK' /\ CommittedToBody'
    BY <1>0, <1>4, <2>1, <2>2 DEF LifeTypeOK, CommittedToBody, SealSecret
  <2>4. MembersAreReader'
    BY <1>0, <2>2, MembersStay
  <2>5. ShownOnceSettled' /\ OnlyTheVerdictPublishes' /\ TombstoneIsTrue'
    BY <1>4, <2>1, ShownStays DEF SealSecret
  <2> QED
    BY <2>3, <2>4, <2>5
<1> QED
  BY <1>1, <1>2, <1>3, <1>4 DEF SecretStep, CreateSecretShell, DelegateSecret

\* finalize_market publishes what the verdict calls for.
LEMMA FinalizeKeeps ==
  ASSUME LifeInvariant, FinalizeMarket
  PROVE  /\ LifeTypeOK' /\ CommittedToBody' /\ ShownOnceSettled' /\ MembersAreReader'
         /\ OnlyTheVerdictPublishes' /\ TombstoneIsTrue'
<1>0. /\ LifeTypeOK /\ CommittedToBody /\ market.status = "Settled" /\ market' = market
      /\ UNCHANGED <<commitment, tombstoned, read_at, secret, tomb, earned>>
      /\ secret.body \in 0..MaxSeals /\ NoReveal \in Reveal
  BY SecretFields DEF LifeInvariant, FinalizeMarket, vars, marketVars
<1>1. revealed' = RevealOf /\ home' = "returning" /\ action' \in BOOLEAN
  BY <1>0 DEF FinalizeMarket, LifeTypeOK
<1>2. RevealOf \in Reveal
  BY <1>0 DEF RevealOf, Reveal, Texts
<1>3. LifeTypeOK' /\ CommittedToBody'
  BY <1>0, <1>1, <1>2 DEF LifeTypeOK, CommittedToBody
<1>4. ShownOnceSettled' /\ MembersAreReader' /\ TombstoneIsTrue'
  BY <1>0 DEF LifeInvariant, ShownOnceSettled, MembersAreReader, TombstoneIsTrue
<1>5. /\ RevealOf.text = "body" => market.outcome = "PublicLeak"
      /\ RevealOf.text = "redacted" => market.outcome = "RandomReveal"
      /\ RevealOf.salt => RevealOf.text = "body" /\ RevealOf.version = secret.body
  BY DEF RevealOf, NoReveal
<1>6. OnlyTheVerdictPublishes'
  BY <1>0, <1>1, <1>5 DEF LifeInvariant, OnlyTheVerdictPublishes, CommittedToBody
<1> QED
  BY <1>3, <1>4, <1>6

\* write_tombstone and seal_tombstone carve what the market says.
LEMMA CarvingKeeps ==
  ASSUME LifeInvariant, Carveable, tomb' = Carved, tombstoned' = TRUE, action' \in BOOLEAN,
         UNCHANGED <<vars, home, commitment, revealed, read_at, secret, earned>>
  PROVE  /\ LifeTypeOK' /\ CommittedToBody' /\ ShownOnceSettled' /\ MembersAreReader'
         /\ OnlyTheVerdictPublishes' /\ TombstoneIsTrue'
<1> DEFINE shown == IF market.outcome \in {"PublicLeak", "RandomReveal"} THEN revealed ELSE NoReveal
<1>0. /\ LifeTypeOK /\ market.status = "Settled" /\ market' = market /\ revealed \in Reveal
      /\ NoReveal \in Reveal /\ market \in LooseMarketRecord
  BY SecretFields DEF LifeInvariant, Book, Carveable, vars, marketVars, Invariant, Life, LooseTypeOK
<1>1. /\ Carved.account = "carved" /\ Carved.outcome = market.outcome
      /\ Carved.sole_reader = market.sole_reader /\ Carved.pot = market.pot
      /\ Carved.commitment = commitment /\ Carved.revealed = shown
  BY DEF Carved
<1>2. shown \in {revealed, NoReveal}
  OBVIOUS
<1>3. Carved \in TombRecord
  <2>1. shown \in Reveal
    BY <1>0, <1>2
  <2> HIDE DEF shown
  <2>2. Carved = [account |-> "carved", outcome |-> market.outcome,
                  sole_reader |-> market.sole_reader, pot |-> market.pot,
                  commitment |-> commitment, revealed |-> shown, read_at |-> read_at]
    BY DEF Carved, shown
  <2> QED
    BY <1>0, <2>1, <2>2 DEF LifeTypeOK, LooseMarketRecord, TombRecord
<1> HIDE DEF shown
<1>4. LifeTypeOK' /\ CommittedToBody'
  BY <1>0, <1>3 DEF LifeInvariant, LifeTypeOK, CommittedToBody
<1>5. ShownOnceSettled' /\ MembersAreReader' /\ TombstoneIsTrue'
  BY <1>0, <1>1 DEF LifeInvariant, ShownOnceSettled, MembersAreReader, TombstoneIsTrue
<1>6. OnlyTheVerdictPublishes'
  <2>1. ASSUME NEW out \in {revealed, NoReveal}
        PROVE  /\ out.text = "body" => market.outcome = "PublicLeak"
               /\ out.text = "redacted" => market.outcome = "RandomReveal"
               /\ out.salt => out.text = "body" /\ out.version = commitment
    BY DEF LifeInvariant, OnlyTheVerdictPublishes, NoReveal
  <2>2. {revealed', tomb'.revealed} \subseteq {revealed, NoReveal}
    BY <1>1, <1>2
  <2> QED
    BY <1>0, <2>1, <2>2 DEF OnlyTheVerdictPublishes
<1> QED
  BY <1>4, <1>5, <1>6

\* open_tombstone allocates a blank stone.
LEMMA OpeningKeeps ==
  ASSUME LifeInvariant, OpenTombstone
  PROVE  /\ LifeTypeOK' /\ CommittedToBody' /\ ShownOnceSettled' /\ MembersAreReader'
         /\ OnlyTheVerdictPublishes' /\ TombstoneIsTrue'
<1>0. /\ LifeTypeOK /\ tomb \in TombRecord /\ market' = market /\ tomb.account = "none"
      /\ UNCHANGED <<home, commitment, revealed, tombstoned, read_at, secret, action, earned>>
  BY SecretFields DEF LifeInvariant, OpenTombstone, vars, marketVars
<1>1. tomb' \in TombRecord /\ tomb'.account = "open" /\ tomb'.revealed = tomb.revealed
  BY <1>0 DEF OpenTombstone, TombRecord
<1>2. LifeTypeOK' /\ CommittedToBody'
  BY <1>0, <1>1 DEF LifeInvariant, LifeTypeOK, CommittedToBody
<1>3. ShownOnceSettled' /\ MembersAreReader' /\ TombstoneIsTrue'
  BY <1>0, <1>1 DEF LifeInvariant, ShownOnceSettled, MembersAreReader, TombstoneIsTrue
<1>4. OnlyTheVerdictPublishes'
  BY <1>0, <1>1 DEF LifeInvariant, OnlyTheVerdictPublishes
<1> QED
  BY <1>2, <1>3, <1>4

\* claim_author pays out of the market and touches neither secret nor stone.
LEMMA ClaimKeeps ==
  ASSUME LifeInvariant, Settles, ClaimAuthor
  PROVE  /\ LifeTypeOK' /\ CommittedToBody' /\ ShownOnceSettled' /\ MembersAreReader'
         /\ OnlyTheVerdictPublishes' /\ TombstoneIsTrue'
<1>0. LifeTypeOK /\ market \in LooseMarketRecord
  BY DEF LifeInvariant, Book, Invariant, Life, LooseTypeOK
<1>1. market.author_payout \in Nat /\ earned \in Nat
  BY <1>0 DEF LooseMarketRecord, LifeTypeOK
<1>2. /\ earned' = earned + market.author_payout
      /\ UNCHANGED <<home, commitment, revealed, tombstoned, read_at, secret, tomb, action>>
  BY DEF ClaimAuthor
<1>3. earned' \in Nat
  BY <1>1, <1>2
<1> QED
  BY <1>0, <1>2, <1>3, MovesKeep DEF LifeTypeOK

----------------------------------------------------------------------------
(* The invariant, and what it gives.                                       *)

\* Every step of a market's life keeps the invariant.
LEMMA LifeKeeps == LifeInvariant /\ [LifeNext]_allVars => LifeInvariant'
<1> SUFFICES ASSUME LifeInvariant, [LifeNext]_allVars
             PROVE  /\ LifeTypeOK' /\ CommittedToBody' /\ ShownOnceSettled' /\ MembersAreReader'
                    /\ OnlyTheVerdictPublishes' /\ TombstoneIsTrue'
  BY LifeFrame DEF LifeInvariant
<1>0. Settles /\ LifeTypeOK
  BY LifeFrame DEF LifeInvariant
<1>1. CASE SecretStep
  BY <1>0, <1>1, SecretKeeps
<1>2. CASE FinalizeMarket
  BY <1>2, FinalizeKeeps
<1>3. CASE OpenTombstone
  BY <1>3, OpeningKeeps
<1>4. CASE WriteTombstone
  BY <1>0, <1>4, CarvingKeeps DEF WriteTombstone, LifeTypeOK
<1>5. CASE SealTombstone
  BY <1>5, CarvingKeeps DEF SealTombstone
<1>6. CASE ClaimAuthor
  BY <1>0, <1>6, ClaimKeeps
<1>7. CASE CreateMarket \/ DelegateMarket \/ MarketReturns
  BY <1>0, <1>7, MovesKeep DEF CreateMarket, DelegateMarket, MarketReturns, LifeTypeOK
<1>8. CASE ActionDropped \/ RecordRead
  BY <1>0, <1>8, MovesKeep DEF ActionDropped, RecordRead, LifeTypeOK
<1>9. CASE BookStep \/ UNCHANGED allVars
  BY <1>0, <1>9, MovesKeep DEF BookStep, allVars, lifeVars, LifeTypeOK
<1> QED
  BY <1>1, <1>2, <1>3, <1>4, <1>5, <1>6, <1>7, <1>8, <1>9 DEF LifeNext, HomeStep

\* A fresh book has nothing in it.
LEMMA BookInit == FreshBook => Book
<1> SUFFICES ASSUME FreshBook PROVE Book
  OBVIOUS
<1>1. market.outcome = "Pending" /\ market.status = "Open" /\ market.sole_reader = Nobody
      /\ bids = [b \in Bidders |-> NoBid]
  BY DEF FreshBook, MarketInit
<1> QED
  BY <1>1, InvariantInit, MoneyInit DEF Book, ReaderIsChosen, BookClosed, VerdictFollowsBook,
     ChosenAreNamed, Priced, Sided, Placed, NoBid

\* It holds before the market is created.
LEMMA LifeInvariantInit == Init /\ LifeInit => LifeInvariant
<1> SUFFICES ASSUME Init, LifeInit PROVE LifeInvariant
  OBVIOUS
<1>1. market.outcome = "Pending" /\ market.sole_reader = Nobody
  BY DEF Init, MarketInit
<1>8. Book
  BY StartsFresh, BookInit
<1>2. 0 \in 0..MaxSeals /\ NoReveal \in Reveal
  BY LifecycleAssumption DEF Reveal, NoReveal, Texts
<1>3. secret \in SecretRecord
  BY <1>2 DEF LifeInit, SecretRecord
<1>4. tomb \in TombRecord
  BY <1>2 DEF LifeInit, TombRecord, BlankTomb, Outcomes
<1>5. LifeTypeOK
  BY <1>2, <1>3, <1>4 DEF LifeInit, LifeTypeOK
<1>6. CommittedToBody /\ MembersAreReader
  BY DEF LifeInit, CommittedToBody, MembersAreReader
<1>7. ShownOnceSettled /\ OnlyTheVerdictPublishes /\ TombstoneIsTrue
  BY DEF LifeInit, BlankTomb, NoReveal, ShownOnceSettled, OnlyTheVerdictPublishes, TombstoneIsTrue
<1> QED
  BY <1>5, <1>6, <1>7, <1>8 DEF LifeInvariant

\* Through every delegation and return the market's book, its secret and its stone
\* agree: the market commits to the text in the secret, and nothing is shown or
\* carved before the market is settled.
THEOREM LifeInvariantHolds == LifeSpec => []LifeInvariant
BY LifeInvariantInit, LifeKeeps, PTL DEF LifeSpec

\* What an instruction takes out of what is held, the author has earned.
LEMMA ClaimsAreEarned ==
  ASSUME LifeInvariant, [LifeNext]_allVars
  PROVE  Holdings' + earned' = Holdings + earned
<1>0. Book /\ Invariant /\ Money /\ market \in LooseMarketRecord /\ earned \in Nat
  BY DEF LifeInvariant, LifeTypeOK, Book, Invariant, Life, LooseTypeOK
<1>1. CASE ClaimAuthor
  <2>1. /\ wallet' = wallet /\ Available' = Available
        /\ earned' = earned + market.author_payout
        /\ market'.escrow_lamports = market.escrow_lamports - market.author_payout
        /\ market.escrow_lamports \in Nat /\ market.author_payout \in Nat
    BY <1>0, <1>1, ClaimFrame DEF ClaimAuthor, purseVars, Available, LooseMarketRecord
  <2>2. SumFunction(wallet) \in Int /\ SumFunction(Available) \in Int
    <3>1. wallet \in [Bidders -> Int] /\ Available \in [Bidders -> Int] /\ IsFiniteSet(Bidders)
      BY <1>0, MarketAssumption DEF Invariant, Life, LooseTypeOK, PurseRecord, Available
    <3> QED
      BY <3>1, SumType
  <2> QED
    BY <1>0, <2>1, <2>2 DEF Holdings
<1>2. CASE [Next]_vars /\ earned' = earned
  BY <1>0, <1>2, HoldingsStep
<1>3. ClaimAuthor \/ earned' = earned
  BY DEF LifeNext, BookStep, SecretStep, HomeStep, CreateMarket, CreateSecretShell,
     DelegateMarket, DelegateSecret, InitSecretPermission, SealSecret, GrantReader, Admissible, FinalizeMarket,
     MarketReturns, OpenTombstone, WriteTombstone, SealTombstone, ActionDropped, RecordRead,
     allVars, lifeVars
<1> QED
  BY <1>1, <1>2, <1>3, LifeSteps

\* So the sum of both stays what it was.
LEMMA AuthorsPayStep ==
  ASSUME LifeInvariant, [LifeNext]_allVars, AuthorIsPaidOnce
  PROVE  AuthorIsPaidOnce'
BY ClaimsAreEarned DEF AuthorIsPaidOnce, Holdings, Available

\* The author is paid once what settlement forfeited: what claim_author pays leaves
\* the escrow, and no step makes or loses a lamport.
THEOREM TheAuthorIsPaid == LifeSpec => []AuthorIsPaidOnce
<1>1. Init /\ LifeInit => AuthorIsPaidOnce
  <2> SUFFICES ASSUME Init, LifeInit PROVE AuthorIsPaidOnce
    OBVIOUS
  <2>1. Holdings = Funds * Cardinality(Bidders) /\ earned = 0
    BY HoldingsInit DEF LifeInit
  <2>2. Funds * Cardinality(Bidders) \in Int
    BY PurseAssumption, MarketAssumption, FS_CardinalityType
  <2>3. Holdings + earned = Funds * Cardinality(Bidders)
    BY <2>1, <2>2
  <2> QED
    BY <2>3 DEF AuthorIsPaidOnce, Holdings, Available
<1> QED
  BY <1>1, AuthorsPayStep, LifeInvariantHolds, PTL DEF LifeSpec

\* What Solana shows of a secret is what the verdict calls for, and a salt is shown
\* only beside the body that the commitment was made to (finalize_market,
\* carve_tombstone).
THEOREM PublishedAsDecided == LifeSpec => []OnlyTheVerdictPublishes
<1>1. LifeInvariant => OnlyTheVerdictPublishes
  BY DEF LifeInvariant
<1> QED
  BY <1>1, LifeInvariantHolds, PTL

\* The tombstone says what the market says, whoever carved it and wherever the
\* market has been since (write_tombstone, seal_tombstone).
THEOREM TombstonesTellTheTruth == LifeSpec => []TombstoneIsTrue
<1>1. LifeInvariant => TombstoneIsTrue
  BY DEF LifeInvariant
<1> QED
  BY <1>1, LifeInvariantHolds, PTL

\* Whoever is let in beside the author is the market's reader, whom the draw chose.
LEMMA ReaderAlone == LifeInvariant => OnlyTheChosenRead
<1> SUFFICES ASSUME LifeInvariant, NEW b \in secret.members \ {Author}
             PROVE  /\ b = market.sole_reader /\ IsChosenBid(market, bids[b])
                    /\ secret.permission = "private"
  BY DEF OnlyTheChosenRead
<1>1. b = market.sole_reader /\ b # Nobody /\ secret.permission = "private"
  BY DEF LifeInvariant, MembersAreReader
<1> QED
  BY <1>1 DEF LifeInvariant, Book, ReaderIsChosen

\* Whoever is let in to the secret beside its author paid, was chosen by the draw and
\* is the reader the market names (settle_bid, grant_reader).
THEOREM OnlyTheReaderIsLetIn == LifeSpec => []OnlyTheChosenRead
BY ReaderAlone, LifeInvariantHolds, PTL

\* No step touches a carved stone.
LEMMA CarvedStays ==
  ASSUME LifeInvariant, [LifeNext]_allVars, tomb.account = "carved"
  PROVE  tomb' = tomb
<1>1. tombstoned
  BY DEF LifeInvariant, TombstoneIsTrue
<1>2. ~OpenTombstone /\ ~WriteTombstone /\ ~SealTombstone
  BY <1>1 DEF OpenTombstone, WriteTombstone, SealTombstone, Carveable
<1>3. CASE SecretStep
  BY <1>3 DEF SecretStep, CreateSecretShell, DelegateSecret, InitSecretPermission, SealSecret,
     GrantReader, Admissible
<1>4. CASE HomeStep
  BY <1>2, <1>4 DEF HomeStep, CreateMarket, DelegateMarket, FinalizeMarket, MarketReturns,
     ActionDropped, RecordRead, ClaimAuthor
<1> QED
  BY <1>3, <1>4 DEF LifeNext, BookStep, lifeVars, allVars

\* A stone is carved once: a late Magic Action, a retry or a second crank finds the
\* market's flag set, or the account taken (carve_tombstone).
THEOREM CarvedOnce == LifeSpec => CarvedForGood
BY CarvedStays, LifeInvariantHolds, PTL DEF LifeSpec, CarvedForGood

\* Once expire_market has run, no instruction touches the text or what the market
\* commits to.  Bids end earlier, when the timer is dead.
LEMMA BodyStands ==
  ASSUME LifeInvariant, [LifeNext]_allVars, market.status # "Open"
  PROVE  commitment' = commitment /\ secret'.body = secret.body
<1>0. secret \in SecretRecord
  BY DEF LifeInvariant, LifeTypeOK
<1>1. CASE SecretStep
  BY <1>0, <1>1 DEF SecretStep, CreateSecretShell, DelegateSecret, InitSecretPermission,
     SealSecret, Sealable, GrantReader, Admissible, SecretRecord
<1>2. CASE HomeStep
  BY <1>2 DEF HomeStep, CreateMarket, DelegateMarket, FinalizeMarket, MarketReturns,
     OpenTombstone, WriteTombstone, SealTombstone, ActionDropped, RecordRead, ClaimAuthor
<1> QED
  BY <1>1, <1>2 DEF LifeNext, BookStep, lifeVars, allVars

----------------------------------------------------------------------------
(* What is read off the stone.                                             *)

\* A carved stone shows what the market shows, which is what its verdict calls for; and
\* only a market that named its reader has a receipt.
Engraved ==
  /\ tombstoned => tomb.account = "carved"
  /\ read_at \/ tomb.read_at => market.sole_reader # Nobody
  /\ revealed # NoReveal => revealed = RevealOf
  /\ tomb.revealed # NoReveal => tomb.revealed = revealed

\* Every step keeps the stone and the market of one mind, a market that is finalized
\* twice too.
LEMMA EngravedStep == LifeInvariant /\ Engraved /\ [LifeNext]_allVars => Engraved'
<1> SUFFICES ASSUME LifeInvariant, Engraved, [LifeNext]_allVars PROVE Engraved'
  OBVIOUS
<1>0. Settles /\ ShownOnceSettled /\ TombstoneIsTrue /\ LifeTypeOK
  BY LifeFrame DEF LifeInvariant
<1>1. market.status = "Settled" => RevealOf' = RevealOf
  BY <1>0, BodyStands DEF RevealOf, Settles
<1>2. revealed # NoReveal \/ tomb.revealed # NoReveal => market.status = "Settled"
  BY <1>0 DEF ShownOnceSettled, TombstoneIsTrue
<1>3. CASE UNCHANGED <<revealed, tombstoned, read_at, tomb>>
  BY <1>0, <1>1, <1>2, <1>3 DEF Engraved, Settles
<1>4. CASE FinalizeMarket
  <2>1. revealed' = RevealOf /\ market.status = "Settled" /\ UNCHANGED <<tombstoned, read_at, tomb>>
    BY <1>4 DEF FinalizeMarket
  <2> QED
    BY <1>0, <1>1, <2>1 DEF Engraved, Settles
<1>5. CASE WriteTombstone \/ SealTombstone
  <2>1. /\ tomb' = Carved /\ UNCHANGED <<revealed, read_at>>
        /\ Carved.account = "carved" /\ Carved.revealed \in {revealed, NoReveal}
        /\ Carved.read_at = read_at
    BY <1>5 DEF WriteTombstone, SealTombstone, Carved
  <2> QED
    BY <1>0, <1>1, <1>2, <2>1 DEF Engraved, Settles
<1>6. CASE OpenTombstone
  <2>1. tomb'.revealed = tomb.revealed /\ tomb'.read_at = tomb.read_at /\ ~tombstoned
        /\ UNCHANGED <<revealed, tombstoned, read_at>>
    BY <1>0, <1>6 DEF OpenTombstone, Engraved, LifeTypeOK, TombRecord
  <2> QED
    BY <1>0, <1>1, <1>2, <2>1 DEF Engraved, Settles
<1>7. CASE RecordRead
  <2>1. market.sole_reader # Nobody /\ UNCHANGED <<revealed, tombstoned, tomb>>
    BY <1>7, MarketAssumption DEF RecordRead
  <2> QED
    BY <1>0, <1>1, <1>2, <2>1 DEF Engraved, Settles
<1> QED
  BY <1>3, <1>4, <1>5, <1>6, <1>7 DEF LifeNext, BookStep, SecretStep, HomeStep, CreateMarket,
     CreateSecretShell, DelegateMarket, DelegateSecret, InitSecretPermission, SealSecret,
     GrantReader, Admissible, MarketReturns, ActionDropped, ClaimAuthor, allVars, lifeVars

\* A settled confession's verdict is the one its pots call for.
LEMMA SettledVerdict ==
  ASSUME Book, market.status = "Settled"
  PROVE  /\ market.outcome # "Pending"
         /\ market.room = "GuiltMarket" =>
              market.outcome = IF market.pot["Seal"] > 0 THEN "Buried"
                               ELSE IF market.pot["Read"] > 0 THEN "SoleReader" ELSE "PublicLeak"
         /\ market.outcome = "Buried" => market.pot["Seal"] > 0
<1>0. /\ market \in LooseMarketRecord /\ MarketLife /\ VerdictFollowsBook /\ ChosenAreNamed
      /\ market.pot["Seal"] \in Nat /\ market.pot["Read"] \in Nat
  BY DEF Book, Invariant, Life, LooseTypeOK, LooseMarketRecord, Sides
<1>1. market.outcome # "Pending"
  BY <1>0 DEF MarketLife
<1>2. ASSUME market.room = "GuiltMarket"
      PROVE  market.outcome = IF market.pot["Seal"] > 0 THEN "Buried"
                              ELSE IF market.pot["Read"] > 0 THEN "SoleReader" ELSE "PublicLeak"
  <2>1. IsConfession(market)
    BY <1>2 DEF IsConfession, ConfessionRooms
  <2>2. CASE market.pot["Seal"] = 0 /\ market.pot["Read"] = 0
    BY <1>0, <1>1, <2>1, <2>2 DEF VerdictFollowsBook
  <2>3. CASE ~(market.pot["Seal"] = 0 /\ market.pot["Read"] = 0)
    <3>1. PICK coin \in BOOLEAN : market.outcome = Verdict(market, market.resolved_at, coin)
      BY <1>0, <1>1, <2>1, <2>3 DEF VerdictFollowsBook
    <3> QED
      BY <1>2, <3>1 DEF Verdict, GuiltVerdict
  <2> QED
    BY <2>2, <2>3
<1>3. ASSUME market.outcome = "Buried" PROVE market.pot["Seal"] > 0
  <2>1. IsConfession(market)
    BY <1>0, <1>3 DEF ChosenAreNamed, RumorVerdicts
  <2>2. PICK coin \in BOOLEAN : market.outcome = Verdict(market, market.resolved_at, coin)
    BY <1>0, <1>3, <2>1 DEF VerdictFollowsBook
  <2>3. CASE market.room = "GuiltMarket"
    BY <1>0, <1>3, <2>2, <2>3 DEF Verdict, GuiltVerdict
  <2>4. CASE market.room # "GuiltMarket"
    <3> DEFINE due == RansomDue(market, market.resolved_at)
    <3>1. due \in Nat
      BY <1>0 DEF RansomDue, LooseMarketRecord
    <3>2. market.pot["Seal"] >= due /\ due > 0
      BY <1>3, <2>2, <2>4 DEF Verdict, BlackmailVerdict
    <3> HIDE DEF due
    <3> QED
      BY <1>0, <3>1, <3>2
  <2> QED
    BY <2>3, <2>4
<1> QED
  BY <1>1, <1>2, <1>3


\* What a reader of the stone, the page or the graveyard works out agrees with what the
\* market and its secret are.
LEMMA StoneVerifies ==
  ASSUME LifeInvariant, Engraved
  PROVE  BuriedMarketsVerify
<1>0. /\ Book /\ TombstoneIsTrue /\ OnlyTheVerdictPublishes /\ MembersAreReader /\ ReaderIsChosen
      /\ tomb \in TombRecord /\ tomb.revealed \in Reveal
  BY SecretFields DEF LifeInvariant, Book
<1>1. (Graves # {}) <=> tombstoned
  BY <1>0 DEF Graves, Buried, Engraved, TombstoneIsTrue
<1> SUFFICES ASSUME Buried
             PROVE  /\ Verifies \/ (tomb.outcome = "Inherited" /\ ~ReaderNamed)
                    /\ CommitmentOpens /\ TextIsAuthorised /\ SaltIsAuthorised /\ RuleFollowed
                    /\ ReceiptHasReader /\ AgreesWithMarket
                    /\ Leaked => CommitmentCheck # "mismatch"
                    /\ Leaked => PagePublishes
                    /\ Epitaph = "someone paid for the silence" => tomb.pot["Seal"] > 0
                    /\ \A b \in Bidders : Told(b) = "not on that list" => b \notin secret.members
                    /\ \A b \in Bidders : Told(b) \in {"the hash and nothing else", "only the hash"}
                                            => ~Published
  BY <1>1 DEF BuriedMarketsVerify
<1>2. /\ tombstoned /\ market.status = "Settled" /\ tomb.outcome = market.outcome
      /\ tomb.sole_reader = market.sole_reader /\ tomb.pot = market.pot
      /\ tomb.commitment = commitment
  BY <1>0 DEF TombstoneIsTrue, Buried
<1>3. /\ tomb.revealed.text = "body" => market.outcome = "PublicLeak"
      /\ tomb.revealed.text = "redacted" => market.outcome = "RandomReveal"
      /\ tomb.revealed.salt => tomb.revealed.text = "body" /\ tomb.revealed.version = commitment
      /\ tomb.revealed.text \in Texts
  BY <1>0 DEF OnlyTheVerdictPublishes, Reveal
<1>4. CommitmentOpens /\ TextIsAuthorised /\ SaltIsAuthorised
  BY <1>2, <1>3 DEF CommitmentOpens, TextIsAuthorised, SaltIsAuthorised, Published, SaltIsZero,
     DigestMatches, RevealsText, PublishesSalt, Texts
<1>5. RuleFollowed
  BY <1>0, <1>2, SettledVerdict DEF RuleFollowed
<1>6. ReceiptHasReader
  BY <1>2 DEF Engraved, ReceiptHasReader, ReaderNamed
<1>7. AgreesWithMarket
  BY <1>2 DEF AgreesWithMarket
<1>8. ReaderIsNamed \/ (tomb.outcome = "Inherited" /\ ~ReaderNamed)
  <2>1. ReaderNamed => tomb.outcome \in {"SoleReader", "Inherited"}
    BY <1>0, <1>2 DEF ReaderNamed, ReaderIsChosen, IsChosenBid
  <2>2. tomb.outcome = "SoleReader" => ReaderNamed
    BY <1>0, <1>2, AReaderIsNamed, MarketAssumption DEF Book, ReaderNamed
  <2> QED
    BY <2>1, <2>2 DEF ReaderIsNamed
<1>9. Leaked => CommitmentCheck # "mismatch"
  BY <1>2, <1>3 DEF CommitmentCheck, SaltIsZero, DigestMatches
<1>10. Leaked => PagePublishes
  <2>1. Published => tomb.revealed = revealed
    BY DEF Published, Engraved, NoReveal
  <2> QED
    BY <1>2, <2>1 DEF Leaked, PagePublishes, Published
<1>11. Epitaph = "someone paid for the silence" => tomb.pot["Seal"] > 0
  <2>1. Epitaph = "someone paid for the silence" => tomb.outcome = "Buried"
    BY DEF Epitaph
  <2> QED
    BY <1>0, <1>2, <2>1, SettledVerdict
<1>12. ASSUME NEW b \in Bidders, Told(b) = "not on that list"
       PROVE  b \notin secret.members
  <2>1. b # market.sole_reader
    BY <1>12 DEF Told
  <2> QED
    BY <1>0, <2>1, LifecycleAssumption DEF MembersAreReader
<1>13. ASSUME NEW b \in Bidders, Told(b) \in {"the hash and nothing else", "only the hash"}
       PROVE  ~Published
  <2>1. market.outcome \notin RevealsText
    BY <1>13 DEF Told, RevealsText
  <2> QED
    BY <1>3, <2>1 DEF Published, RevealsText, Texts
<1> QED
  BY <1>4, <1>5, <1>6, <1>7, <1>8, <1>9, <1>10, <1>11, <1>12, <1>13 DEF Verifies

\* Whoever carved a tombstone and in whatever order the cranks ran, a stranger's
\* verification of it succeeds, and neither the graveyard nor the verdict's page says
\* what the market and its secret belie (verify-market.ts, carve_tombstone).
THEOREM BuriedMarketsAreVerified == LifeSpec => []BuriedMarketsVerify
<1>1. Init /\ LifeInit => Engraved
  BY DEF LifeInit, BlankTomb, NoReveal, Engraved
<1> QED
  BY <1>1, EngravedStep, StoneVerifies, LifeInvariantHolds, PTL DEF LifeSpec

----------------------------------------------------------------------------
(* The rule the page shows beside an open book is the program's.           *)

\* A side of the book that nobody's stake is in has no stake of anyone's.
LEMMA EmptyPotIsNobodys ==
  ASSUME Invariant, Money, NEW side \in Sides, market.pot[side] = 0, NEW b \in Bidders
  PROVE  ~(bids[b].funded /\ bids[b].side = side /\ bids[b].amount > 0)
<1> DEFINE stakes == StakesOn(bids, side)
           others == [stakes EXCEPT ![b] = 0]
<1>0. /\ market \in LooseMarketRecord /\ bids \in [Bidders -> LooseBidRecord]
      /\ IsFiniteSet(Bidders) /\ stakes \in [Bidders -> Nat] /\ SumFunction(stakes) = 0
  <2>1. market \in LooseMarketRecord /\ bids \in [Bidders -> LooseBidRecord]
    BY DEF Invariant, Life, LooseTypeOK
  <2>2. SumFunction(stakes) = 0
    BY DEF Money, PotsAreStakes
  <2> QED
    BY <2>1, <2>2, MoneyTypes
<1>1. stakes[b] = IF bids[b].side = side THEN Staked(bids[b]) ELSE 0
  BY DEF StakesOn
<1> HIDE DEF stakes
<1>2. /\ stakes \in [Bidders -> Int] /\ others \in [Bidders -> Int] /\ others \in [Bidders -> Nat]
      /\ others[b] = 0 /\ \A c \in Bidders \ {b} : others[c] = stakes[c]
  BY <1>0
<1> HIDE DEF others
<1>3. SumFunction(others) = SumFunction(stakes) - stakes[b] + others[b]
  BY <1>0, <1>2, SumChange
<1>4. SumFunction(others) \in Nat
  BY <1>0, <1>2, SumType
<1>5. stakes[b] \in Nat /\ stakes[b] <= 0
  BY <1>0, <1>2, <1>3, <1>4
<1> QED
  BY <1>1, <1>5 DEF Staked

\* A confession whose bids have all paid and whose pots are empty has no bid.
LEMMA UnpaidBookIsEmpty ==
  ASSUME Book, market.outcome = "Pending", IsConfession(market),
         market.pot["Seal"] = 0, market.pot["Read"] = 0,
         \A b \in Bidders : bids[b].account = "open" => bids[b].funded
  PROVE  market.bid_count = 0
<1>0. /\ Invariant /\ Money /\ Priced /\ Sided /\ Life /\ Counting
      /\ bids \in [Bidders -> LooseBidRecord] /\ market \in LooseMarketRecord
  BY DEF Book, Invariant, Life, LooseTypeOK
<1>1. ASSUME NEW b \in Bidders, Placed(b) PROVE FALSE
  <2>1. market.status \notin {"Resolved", "Settled"}
    BY <1>0 DEF Life, MarketLife
  <2>2. bids[b].account = "open"
    BY <1>0, <1>1, <2>1 DEF Life, BidLife, Placed, LooseBidRecord
  <2>3. bids[b].funded /\ bids[b].amount > 0 /\ bids[b].side \in {"Seal", "Read"}
    BY <1>0, <1>1, <2>2 DEF Priced, Sided
  <2> QED
    BY <1>0, <2>3, EmptyPotIsNobodys DEF Sides
<1>2. PlacedBids = {}
  BY <1>1 DEF PlacedBids
<1> QED
  BY <1>0, <1>2, FS_EmptySet DEF Counting

\* A market with a reader's rank has a bid.
LEMMA ReadersAreBidders ==
  ASSUME Invariant, market.read_bid_count > 0
  PROVE  market.bid_count > 0
<1>0. Counting /\ Life /\ BidLife /\ market.read_bid_count \in Nat /\ market.bid_count \in Nat
  BY DEF Invariant, Life, LooseTypeOK, LooseMarketRecord
<1>1. RankedBids \subseteq PlacedBids
  BY <1>0 DEF RankedBids, PlacedBids, Ranked, Placed, BidLife
<1>2. IsFiniteSet(PlacedBids)
  BY MarketAssumption, FS_Subset DEF PlacedBids
<1>3. Cardinality(RankedBids) <= Cardinality(PlacedBids)
  BY <1>1, <1>2, FS_Subset
<1> QED
  BY <1>0, <1>3 DEF Counting

\* The verdict that falls is one the page had lit.
LEMMA VerdictIsLit ==
  ASSUME Book, [Next]_vars, market.outcome = "Pending", market'.outcome # "Pending",
         IsConfession(market), market.room = "BlackmailEscrow" => RansomDue(market, now) > 0,
         \A b \in Bidders : bids[b].account = "open" => bids[b].funded
  PROVE  market'.outcome \in Branches
<1> DEFINE due == RansomDue(market, now)
<1>0. /\ Invariant /\ Life /\ MarketLife /\ market \in LooseMarketRecord
      /\ market.pot["Seal"] \in Nat /\ market.pot["Read"] \in Nat /\ market.bid_count \in Nat
      /\ market.read_bid_count \in Nat /\ due \in Nat
  <2>1. Invariant /\ Life /\ MarketLife /\ market \in LooseMarketRecord /\ now \in Nat
    BY DEF Book, Invariant, Life, LooseTypeOK
  <2> QED
    BY <2>1 DEF RansomDue, LooseMarketRecord, Sides
<1>1. market.room \in {"GuiltMarket", "BlackmailEscrow"}
  BY DEF IsConfession, ConfessionRooms
<1> HIDE DEF due
<1>2. CASE /\ market.pot["Seal"] = 0 /\ market.pot["Read"] = 0 /\ market'.outcome = "PublicLeak"
  <2>1. market.bid_count = 0
    BY <1>2, UnpaidBookIsEmpty
  <2>2. CASE market.room = "GuiltMarket"
    BY <1>2, <2>2 DEF Branches, GuiltBranches
  <2>3. CASE market.room = "BlackmailEscrow"
    <3>1. market.pot["Seal"] < due
      BY <1>0, <1>2, <2>3 DEF due
    <3> QED
      BY <1>2, <2>1, <2>3, <3>1 DEF Branches, BlackmailBranches, due
  <2> QED
    BY <1>1, <2>2, <2>3
<1>3. ASSUME NEW coin \in BOOLEAN, market.pot["Seal"] + market.pot["Read"] > 0,
             market'.outcome = Verdict(market, now, coin)
      PROVE  market'.outcome \in Branches
  <2>1. CASE market.room = "GuiltMarket"
    BY <1>0, <1>3, <2>1 DEF Verdict, GuiltVerdict, Branches, GuiltBranches
  <2>2. CASE market.room = "BlackmailEscrow"
    <3>1. market'.outcome = IF market.pot["Seal"] >= due /\ due > 0 THEN "Buried"
                            ELSE IF coin THEN "RandomReveal"
                            ELSE IF market.read_bid_count > 0 \/ market.bid_count > 0
                            THEN "Inherited" ELSE "PublicLeak"
      BY <1>3, <2>2 DEF Verdict, BlackmailVerdict, due
    <3>2. due > 0
      BY <2>2 DEF due
    <3>3. market.read_bid_count > 0 => market.bid_count > 0
      BY <1>0, ReadersAreBidders
    <3>4. /\ market'.outcome \in {"Buried", "RandomReveal", "Inherited", "PublicLeak"}
          /\ CASE market'.outcome = "Buried" -> market.pot["Seal"] >= due /\ due > 0
               [] market'.outcome = "RandomReveal" -> market.pot["Seal"] < due
               [] market'.outcome = "Inherited" -> market.pot["Seal"] < due /\ market.bid_count > 0
               [] OTHER -> market.pot["Seal"] < due /\ market.bid_count = 0
      BY <1>0, <3>1, <3>2, <3>3
    <3>5. Branches = BlackmailBranches
      BY <2>2 DEF Branches
    <3> QED
      BY <3>4, <3>5 DEF BlackmailBranches, due
  <2> QED
    BY <1>1, <2>1, <2>2
<1>4. ASSUME NEW draw \in Draws, NEW coin \in BOOLEAN,
             market' = [market EXCEPT !.status = "Resolved", !.outcome = Verdict(market, now, coin),
                                      !.randomness = draw, !.resolved_at = now]
      PROVE  market'.outcome = Verdict(market, now, coin)
  <2> DEFINE verdict == Verdict(market, now, coin)
  <2> HIDE DEF verdict
  <2>1. market' = [market EXCEPT !.status = "Resolved", !.outcome = verdict,
                                 !.randomness = draw, !.resolved_at = now]
    BY <1>4 DEF verdict
  <2>2. market'.outcome = verdict
    BY <1>0, <2>1 DEF LooseMarketRecord
  <2> QED
    BY <2>2 DEF verdict
<1>5. market.room # "WhisperIpo"
  BY <1>1
<1>6. CASE /\ market.pot["Seal"] = 0 /\ market.pot["Read"] = 0
           /\ market' = [market EXCEPT !.status = "Resolved", !.outcome = "PublicLeak",
                                       !.resolved_at = now]
  BY <1>0, <1>2, <1>6 DEF LooseMarketRecord
<1>7. CASE market.status = "VrfPending"
  <2>1. market.pot["Seal"] + market.pot["Read"] > 0
    BY <1>0, <1>7 DEF MarketLife
  <2>2. PICK draw \in Draws, coin \in BOOLEAN :
          market' = [market EXCEPT !.status = "Resolved", !.outcome = Verdict(market, now, coin),
                                   !.randomness = draw, !.resolved_at = now]
    <3>1. ~ExpireMarket
      BY <1>7 DEF ExpireMarket
    <3> QED
      BY <1>0, <1>5, <3>1, DecidingSteps
  <2> QED
    BY <1>3, <1>4, <2>1, <2>2
<1> QED
  BY <1>0, <1>5, <1>6, <1>7, DecidingSteps

\* The page that showed a bidder the rule did not mislead: for a ransom that is not
\* nothing and a book whose bids have paid, the verdict that falls is one of those lit
\* (RuleBox.tsx, expire_market, callback_resolve).
THEOREM TheRuleShownIsKept == LifeSpec => VerdictWasLit
<1>1. ASSUME LifeInvariant, [LifeNext]_allVars, market.outcome = "Pending", market'.outcome # "Pending"
      PROVE  [Next]_vars
  <2>1. ~ClaimAuthor
    BY <1>1 DEF LifeInvariant, Book, Invariant, Life, MarketLife, ClaimAuthor
  <2> QED
    BY <1>1, <2>1, LifeSteps
<1>2. ASSUME LifeInvariant, [LifeNext]_allVars,
             market.outcome = "Pending" /\ market'.outcome # "Pending",
             IsConfession(market), market.room = "BlackmailEscrow" => RansomDue(market, now) > 0,
             \A b \in Bidders : bids[b].account = "open" => bids[b].funded
      PROVE  market'.outcome \in Branches
  BY <1>1, <1>2, VerdictIsLit DEF LifeInvariant
<1> QED
  BY <1>2, LifeInvariantHolds, PTL DEF LifeSpec, VerdictWasLit
============================================================================
