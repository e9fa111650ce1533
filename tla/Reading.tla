------------------------------ MODULE Reading ------------------------------
(***************************************************************************)
(* What is read off a market and its tombstone, and said of them: the      *)
(* verifier scripts/verify-market.ts, which reads Solana alone, and the    *)
(* app's pages - the rules beside a market's book, the verdict's page and  *)
(* the graveyard.                                                          *)
(*                                                                         *)
(* Nothing here acts.  Each definition is what a reader computes from the  *)
(* accounts of module Lifecycle; the properties compare that with what the *)
(* program did, or is about to do.                                         *)
(***************************************************************************)
EXTENDS Lifecycle

RevealsText == {"PublicLeak", "RandomReveal"}
PublishesSalt == {"PublicLeak"}

----------------------------------------------------------------------------
(* The tombstones that are read.                                           *)

\* Mutant: every tombstone account is taken for a verdict.
BuriedIfAllocated == tomb.account # "none"

\* buried_at is set when a tombstone is carved, and not when it is allocated.
Buried == tomb.account = "carved"

\* fetchTombstones: the accounts that hold a verdict, whatever else was allocated.
Graves == IF Buried THEN {tomb} ELSE {}

\* A text that was never sealed has no bytes, and its salt is all zero.
Published == tomb.revealed.text # "none" /\ tomb.revealed.version # 0
SaltIsZero == ~tomb.revealed.salt \/ tomb.revealed.version = 0

\* sha256 of the published text and salt is the commitment.
DigestMatches == tomb.revealed.text = "body" /\ tomb.revealed.version = tomb.commitment

----------------------------------------------------------------------------
(* The verifier's assertions.  What it skips holds.                        *)

CommitmentOpens == Published /\ ~SaltIsZero => DigestMatches
TextIsAuthorised == tomb.outcome \in RevealsText \/ ~Published
SaltIsAuthorised == tomb.outcome \in PublishesSalt \/ SaltIsZero

\* The guilt market's rule, worked out again from the pots.
RuleFollowed ==
  market.room = "GuiltMarket" =>
    tomb.outcome = IF tomb.pot["Seal"] > 0 THEN "Buried"
                   ELSE IF tomb.pot["Read"] > 0 THEN "SoleReader" ELSE "PublicLeak"

ReaderNamed == tomb.sole_reader # Nobody
ReaderIsNamed == (tomb.outcome \in {"SoleReader", "Inherited"}) <=> ReaderNamed
ReceiptHasReader == tomb.read_at => ReaderNamed

\* The market's account on Solana: the copy it left with, if it has gone back.
AgreesWithMarket ==
  /\ tomb.pot = market.pot /\ tomb.outcome = market.outcome /\ tomb.commitment = commitment
  /\ tombstoned

\* verify, of one market.
Verifies ==
  Buried => /\ CommitmentOpens /\ TextIsAuthorised /\ SaltIsAuthorised /\ RuleFollowed
            /\ ReaderIsNamed /\ ReceiptHasReader /\ AgreesWithMarket

----------------------------------------------------------------------------
(* The pages.                                                              *)

\* The graveyard's card: a text, or the bars that stand for one.
Leaked == tomb.outcome \in RevealsText /\ Published

\* The check that a reader's browser makes of the text.
CommitmentCheck ==
  IF tomb.outcome # "PublicLeak" THEN "redacted"
  ELSE IF SaltIsZero THEN "nosalt"
  ELSE IF DigestMatches THEN "ok" ELSE "mismatch"

\* The verdict's page prints what the market itself reveals.
PagePublishes == market.outcome \in RevealsText /\ revealed.text # "none" /\ revealed.version # 0

\* The branches the page lights beside an open or undecided book, at this second.
\* They are looked at again every five seconds.
GuiltBranches ==
  {b \in {"Buried", "SoleReader", "PublicLeak"} :
     CASE b = "Buried" -> market.pot["Seal"] > 0
       [] b = "SoleReader" -> market.pot["Seal"] = 0 /\ market.pot["Read"] > 0
       [] OTHER -> market.pot["Seal"] = 0 /\ market.pot["Read"] = 0}

\* Mutant: a ransom that a seal bid equals is taken for unmet.
BlackmailBranchesStrict ==
  LET due == RansomDue(market, now) IN
  {b \in {"Buried", "RandomReveal", "Inherited", "PublicLeak"} :
     CASE b = "Buried" -> market.pot["Seal"] > due /\ due > 0
       [] b = "RandomReveal" -> market.pot["Seal"] < due
       [] b = "Inherited" -> market.pot["Seal"] < due /\ market.bid_count > 0
       [] OTHER -> market.pot["Seal"] < due /\ market.bid_count = 0}

BlackmailBranches ==
  LET due == RansomDue(market, now) IN
  {b \in {"Buried", "RandomReveal", "Inherited", "PublicLeak"} :
     CASE b = "Buried" -> market.pot["Seal"] >= due /\ due > 0
       [] b = "RandomReveal" -> market.pot["Seal"] < due
       [] b = "Inherited" -> market.pot["Seal"] < due /\ market.bid_count > 0
       [] OTHER -> market.pot["Seal"] < due /\ market.bid_count = 0}

Branches == IF market.room = "GuiltMarket" THEN GuiltBranches ELSE BlackmailBranches

\* What the verdict's page tells the key that looks at it.  It asks the market who
\* the reader is, not the permission whether they have been let in.
Told(key) ==
  CASE market.outcome = "SoleReader" /\ key = market.sole_reader -> "readable to you"
    [] market.outcome = "SoleReader" /\ key # market.sole_reader -> "not on that list"
    [] market.outcome = "PublicLeak" -> "carved in full"
    [] market.outcome = "RandomReveal" -> "one sentence"
    [] market.outcome = "Buried" -> "the hash and nothing else"
    [] market.outcome = "Inherited" -> "only the hash"
    [] market.outcome \in {"Forgiven", "Slashed"} -> "resolved"
    [] OTHER -> "undecided"

\* What the graveyard says where it shows no text.
Epitaph ==
  IF Leaked THEN "none"
  ELSE IF tomb.outcome = "Buried" THEN "someone paid for the silence"
  ELSE IF tomb.outcome = "SoleReader" THEN "one key was admitted"
  ELSE "no text was authorised"

----------------------------------------------------------------------------
(* Properties.                                                             *)

\* The graveyard lists a market if and only if the market knows it is buried.
\* Whatever order the cranks ran in, and whether a crank or a Magic Action carved
\* it, a stranger who reads nothing but Solana finds no fault with a tombstone,
\* the browser's own check never prints MISMATCH over what the program published,
\* a text in the graveyard is on the verdict's page too, a silence the graveyard says
\* was paid for was, and a bidder told they are not listed is not (verify-market.ts,
\* markets.ts:196-239, graveyard/page.tsx:42-48, result/page.tsx).  The one claim
\* left out is that an heir is named: the draw may land on a bid that was never
\* paid, and then no one is.
BuriedMarketsVerify ==
  /\ (Graves # {}) <=> tombstoned
  /\ Buried =>
       /\ Verifies \/ (tomb.outcome = "Inherited" /\ ~ReaderNamed)
       /\ CommitmentOpens /\ TextIsAuthorised /\ SaltIsAuthorised /\ RuleFollowed
       /\ ReceiptHasReader /\ AgreesWithMarket
       /\ Leaked => CommitmentCheck # "mismatch"
       /\ Leaked => PagePublishes
       /\ Epitaph = "someone paid for the silence" => tomb.pot["Seal"] > 0
       /\ \A b \in Bidders : Told(b) = "not on that list" => b \notin secret.members
       /\ \A b \in Bidders : Told(b) \in {"the hash and nothing else", "only the hash"} => ~Published

\* The verdict that falls is one that the page had lit for the pots and the clock
\* it fell on, in either confession room: bidders are not shown a rule that the
\* program does not follow.  Left out are a ransom of nothing, which lights no
\* branch, and a book with an unpaid bid, which the page takes for a bid
\* (RuleBox.tsx:6-8, expire_market, callback_resolve).
VerdictWasLit ==
  [][/\ market.outcome = "Pending" /\ market'.outcome # "Pending"
     /\ IsConfession(market)
     /\ market.room = "BlackmailEscrow" => RansomDue(market, now) > 0
     /\ \A b \in Bidders : bids[b].account = "open" => bids[b].funded
     => market'.outcome \in Branches]_allVars
============================================================================
