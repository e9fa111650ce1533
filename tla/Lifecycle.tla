----------------------------- MODULE Lifecycle -----------------------------
(***************************************************************************)
(* A market from its creation on Solana (L1) to its tombstone there:       *)
(* creating and delegating the market and its secret, sealing the          *)
(* confession, admitting the reader, taking the settled market home,       *)
(* carving the tombstone and paying the author.  In between, the book is   *)
(* the one of module Market (programs/sinbazaar/src/lib.rs).               *)
(*                                                                         *)
(* An account lives on one layer at a time and an instruction that writes  *)
(* it runs there: that is the `home` and `layer` guard of each action, and *)
(* not a check the handlers make.  Texts are versions: 0 is no text.       *)
(***************************************************************************)
EXTENDS Market

CONSTANTS
  Author,     \* the villager who confessed
  MaxSeals    \* bound: times the author seals a text

ASSUME LifecycleAssumption ==
  /\ Author \notin Bidders \cup {Nobody}
  /\ MaxSeals \in Nat

VARIABLES
  home,         \* where the market account is: "none", "L1", "ER" or "returning"
  commitment,   \* market.commitment_hash, as the version it commits to
  revealed,     \* market.revealed and revealed_salt
  tombstoned,   \* market.tombstoned
  read_at,      \* market.read_at is set
  secret,       \* the Secret account and its permission
  tomb,         \* the Tombstone account
  action,       \* a seal_tombstone is scheduled on L1
  earned        \* lamports the author has claimed

lifeVars == <<home, commitment, revealed, tombstoned, read_at, secret, tomb, action, earned>>
allVars == <<vars, lifeVars>>

Texts == {"none", "body", "redacted"}
Reveal == [text : Texts, version : 0..MaxSeals, salt : BOOLEAN]
NoReveal == [text |-> "none", version |-> 0, salt |-> FALSE]

SecretRecord ==
  [layer : {"none", "L1", "ER"}, body : 0..MaxSeals,
   permission : {"none", "private", "public"}, members : SUBSET (Bidders \cup {Author})]

\* "open": allocated, its public facts still blank.
TombRecord ==
  [account : {"none", "open", "carved"}, outcome : Outcomes, sole_reader : Bidders \cup {Nobody},
   pot : [Sides -> Nat], commitment : 0..MaxSeals, revealed : Reveal, read_at : BOOLEAN]

BlankTomb == [account |-> "none", outcome |-> "Pending", sole_reader |-> Nobody,
              pot |-> [s \in Sides |-> 0], commitment |-> 0, revealed |-> NoReveal,
              read_at |-> FALSE]

LifeInit ==
  /\ home = "none"
  /\ commitment = 0
  /\ revealed = NoReveal
  /\ tombstoned = FALSE
  /\ read_at = FALSE
  /\ secret = [layer |-> "none", body |-> 0, permission |-> "none", members |-> {}]
  /\ tomb = BlankTomb
  /\ action = FALSE
  /\ earned = 0

----------------------------------------------------------------------------
(* Creation and delegation.                                                *)

\* create_market; the clock of module Market counts from here.
CreateMarket ==
  /\ home = "none"
  /\ home' = "L1"
  /\ UNCHANGED <<vars, commitment, revealed, tombstoned, read_at, secret, tomb, action, earned>>

CreateSecretShell ==
  /\ home = "L1"
  /\ secret.layer = "none"
  /\ secret' = [secret EXCEPT !.layer = "L1"]
  /\ UNCHANGED <<vars, home, commitment, revealed, tombstoned, read_at, tomb, action, earned>>

\* delegate_market reads nothing of the market: a settled one may go back.
DelegateMarket ==
  /\ home = "L1"
  /\ home' = "ER"
  /\ UNCHANGED <<vars, commitment, revealed, tombstoned, read_at, secret, tomb, action, earned>>

DelegateSecret ==
  /\ secret.layer = "L1"
  /\ secret' = [secret EXCEPT !.layer = "ER"]
  /\ UNCHANGED <<vars, home, commitment, revealed, tombstoned, read_at, tomb, action, earned>>

----------------------------------------------------------------------------
(* The secret.                                                             *)

\* init_secret_permission; a second call finds the permission and does nothing.
InitSecretPermission ==
  /\ home = "ER" /\ secret.layer = "ER"
  /\ secret.permission = "none"
  /\ secret' = [secret EXCEPT !.permission = IF IsConfession(market) THEN "private" ELSE "public",
                              !.members = {Author}]
  /\ UNCHANGED <<vars, home, commitment, revealed, tombstoned, read_at, tomb, action, earned>>

Sealable == market.status = "Open"

\* The handler checks the status and the author, not the layer: it runs wherever
\* both accounts are.  A later seal replaces the earlier one, and none reads the
\* clock: until somebody sends expire_market the text of a dead timer changes.
SealSecret(version) ==
  /\ Sealable
  /\ home = secret.layer /\ home \in {"L1", "ER"}
  /\ version = secret.body + 1
  /\ secret' = [secret EXCEPT !.body = version]
  /\ commitment' = version
  /\ UNCHANGED <<vars, home, revealed, tombstoned, read_at, tomb, action, earned>>

\* Mutant: the grant adds the caller's pick instead of the market's reader.
GrantAnyBidder(b) == b \in Bidders

Grantable(b) == market.outcome \in {"SoleReader", "Inherited"} /\ b = market.sole_reader

\* What grant_reader needs: a reader that is a villager, both accounts on the
\* rollup, and the permission it updates.
Admissible(b) ==
  /\ Grantable(b)
  /\ b # Nobody
  /\ home = "ER" /\ secret.layer = "ER"
  /\ secret.permission # "none"

GrantReader(b) ==
  /\ Admissible(b)
  /\ secret' = [secret EXCEPT !.permission = "private", !.members = {Author, b}]
  /\ UNCHANGED <<vars, home, commitment, revealed, tombstoned, read_at, tomb, action, earned>>

----------------------------------------------------------------------------
(* Home, and the tombstone.                                                *)

\* Mutant: the salt is published with the author's redacted line too.
RevealWithSalt ==
  IF market.outcome = "PublicLeak" THEN [text |-> "body", version |-> secret.body, salt |-> TRUE]
  ELSE IF market.outcome = "RandomReveal"
  THEN [text |-> "redacted", version |-> secret.body, salt |-> TRUE]
  ELSE NoReveal

\* finalize_market's copy of the secret into the market.
RevealOf ==
  IF market.outcome = "PublicLeak" THEN [text |-> "body", version |-> secret.body, salt |-> TRUE]
  ELSE IF market.outcome = "RandomReveal"
  THEN [text |-> "redacted", version |-> secret.body, salt |-> FALSE]
  ELSE NoReveal

\* The rollup can read a secret that was never delegated.  The seal is scheduled
\* only if the headstone is already allocated.
FinalizeMarket ==
  /\ home = "ER"
  /\ market.status = "Settled"
  /\ secret.layer # "none"
  /\ revealed' = RevealOf
  /\ home' = "returning"
  /\ action' = (action \/ tomb.account # "none")
  /\ UNCHANGED <<vars, commitment, tombstoned, read_at, secret, tomb, earned>>

\* The scheduled undelegation lands on L1.
MarketReturns ==
  /\ home = "returning"
  /\ home' = "L1"
  /\ UNCHANGED <<vars, commitment, revealed, tombstoned, read_at, secret, tomb, action, earned>>

\* open_tombstone: anyone, at any time; on an existing headstone it changes nothing.
OpenTombstone ==
  /\ tomb.account = "none"
  /\ tomb' = [tomb EXCEPT !.account = "open"]
  /\ UNCHANGED <<vars, home, commitment, revealed, tombstoned, read_at, secret, action, earned>>

\* carve_tombstone.
Carved ==
  [account |-> "carved", outcome |-> market.outcome, sole_reader |-> market.sole_reader,
   pot |-> market.pot, commitment |-> commitment,
   revealed |-> IF market.outcome \in {"PublicLeak", "RandomReveal"} THEN revealed ELSE NoReveal,
   read_at |-> read_at]

\* Mutant: the market's own flag is not looked at.
CarveableTwice == home = "L1" /\ market.status = "Settled"

\* Mutant: a market that came home unsettled, or never left, may be carved.
CarveableUnsettled == home = "L1" /\ ~tombstoned

Carveable ==
  /\ home = "L1"
  /\ market.status = "Settled"
  /\ ~tombstoned

\* write_tombstone creates the account, so it fails where there is one.
WriteTombstone ==
  /\ Carveable
  /\ tomb.account = "none"
  /\ tomb' = Carved
  /\ tombstoned' = TRUE
  /\ UNCHANGED <<vars, home, commitment, revealed, read_at, secret, action, earned>>

\* The scheduled Magic Action runs seal_tombstone.
SealTombstone ==
  /\ action
  /\ Carveable
  /\ tomb.account # "none"
  /\ action' = FALSE
  /\ tomb' = Carved
  /\ tombstoned' = TRUE
  /\ UNCHANGED <<vars, home, commitment, revealed, read_at, secret, earned>>

\* It fails, or is dropped for want of a funded escrow; nobody runs it again.
ActionDropped ==
  /\ action
  /\ home # "returning"
  /\ action' = FALSE
  /\ UNCHANGED <<vars, home, commitment, revealed, tombstoned, read_at, secret, tomb, earned>>

\* record_read: the first claim counts, a later one changes nothing.
RecordRead ==
  /\ home \in {"L1", "ER"}
  /\ market.outcome \in {"SoleReader", "Inherited"}
  /\ market.sole_reader \in Bidders
  /\ ~read_at
  /\ read_at' = TRUE
  /\ UNCHANGED <<vars, home, commitment, revealed, tombstoned, secret, tomb, action, earned>>

\* Mutant: what is paid is not struck off what is owed.
PaidAgain == market.author_payout

\* claim_author's remaining due, once it has paid.
PaidOff == 0

ClaimAuthor ==
  LET amount == market.author_payout IN
  /\ home = "L1"
  /\ amount > 0
  /\ market.status = "Settled"
  /\ earned' = earned + amount
  /\ market' = [market EXCEPT !.author_payout = PaidOff,
                              !.escrow_lamports = SatSub(@, amount)]
  /\ UNCHANGED <<purseVars, bids, now, vrf>>
  /\ UNCHANGED <<home, commitment, revealed, tombstoned, read_at, secret, tomb, action>>

----------------------------------------------------------------------------
\* The book's instructions, where they can run.  Bids, permissions and VRF
\* requests need the rollup; the clock starts with the market.
BookStep ==
  /\ \/ PurseNext /\ UNCHANGED marketVars
     \/ home # "none" /\ Tick
     \/ /\ home = "ER"
        /\ \/ \E b \in Bidders : BidStep(b) \/ SettleBid(b) \/ CloseBid(b) \/ SettleAndClose(b)
           \/ RequestResolutionVrf
           \/ \E draw \in Draws, coin \in BOOLEAN : CallbackResolve(draw, coin)
           \/ RetryVrf
     \/ /\ home \in {"L1", "ER"}
        /\ ExpireMarket \/ CloseBook \/ \E result \in 1..2 : ResolveRumor(result)
     \/ CallbackRejected
     \/ OracleFails
  /\ UNCHANGED lifeVars

SecretStep ==
  \/ CreateSecretShell
  \/ DelegateSecret
  \/ InitSecretPermission
  \/ \E version \in 1..MaxSeals : SealSecret(version)
  \/ \E b \in Bidders : GrantReader(b)

HomeStep ==
  \/ CreateMarket
  \/ DelegateMarket
  \/ FinalizeMarket
  \/ MarketReturns
  \/ OpenTombstone
  \/ WriteTombstone
  \/ SealTombstone
  \/ ActionDropped
  \/ RecordRead
  \/ ClaimAuthor

LifeNext == BookStep \/ SecretStep \/ HomeStep

LifeSpec == Init /\ LifeInit /\ [][LifeNext]_allVars

----------------------------------------------------------------------------
(* Properties.                                                             *)

LifeTypeOK ==
  /\ home \in {"none", "L1", "ER", "returning"}
  /\ commitment \in 0..MaxSeals
  /\ revealed \in Reveal
  /\ tombstoned \in BOOLEAN /\ read_at \in BOOLEAN /\ action \in BOOLEAN
  /\ secret \in SecretRecord
  /\ tomb \in TombRecord
  /\ earned \in Nat

\* Solana publishes what the verdict authorised and no more: the body after a
\* public leak, the author's redacted line after a random reveal, nothing after
\* any other verdict; and the salt only beside a body it opens, which is then
\* the body that was committed to (finalize_market, carve_tombstone).
OnlyTheVerdictPublishes ==
  \A shown \in {revealed, tomb.revealed} :
    /\ shown.text = "body" => market.outcome = "PublicLeak"
    /\ shown.text = "redacted" => market.outcome = "RandomReveal"
    /\ shown.salt => shown.text = "body" /\ shown.version = commitment

\* One villager at most is ever let in to a secret beside its author, and it is
\* one who paid, whom the draw chose, and whom the market names as its reader
\* (settle_bid, grant_reader).
OnlyTheChosenRead ==
  \A b \in secret.members \ {Author} :
    /\ b = market.sole_reader
    /\ IsChosenBid(market, bids[b])
    /\ secret.permission = "private"

\* A carved tombstone and the market tell the same story for good, whichever of
\* a crank and a scheduled action carved it, and though the market may go back
\* to the rollup afterwards (write_tombstone, seal_tombstone).
TombstoneIsTrue ==
  tomb.account = "carved" =>
    /\ tombstoned
    /\ market.status = "Settled"
    /\ tomb.outcome = market.outcome
    /\ tomb.sole_reader = market.sole_reader
    /\ tomb.pot = market.pot
    /\ tomb.commitment = commitment

\* A tombstone is carved once: no late action, retry or second crank rewrites it.
CarvedForGood ==
  [][tomb.account = "carved" => tomb' = tomb]_allVars

\* The author is paid what settlement forfeited, once, out of this market's
\* escrow: with what is claimed counted, not a lamport is made or lost
\* (claim_author, close_book).
AuthorIsPaidOnce ==
  SumFunction(wallet) + SumFunction([b \in Bidders |-> purse[b].available])
    + market.escrow_lamports + earned = Funds * Cardinality(Bidders)

----------------------------------------------------------------------------
(* A statement of the documentation that the code does not keep.           *)

\* lib.rs:2336, of a caller who finalizes with no headstone to seal: "they simply
\* carve it themselves with `write_tombstone` afterwards".  Here of a market that
\* finalize_market published a text of, is home, and no action will carve.
HomeMarketsCanBeCarved ==
  revealed # NoReveal /\ Carveable /\ ~action => tomb.account = "none"
============================================================================
