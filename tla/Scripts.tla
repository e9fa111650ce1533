------------------------------ MODULE Scripts ------------------------------
(***************************************************************************)
(* The scripts a team runs against a village: smoke.ts, seed.ts, demo.ts,  *)
(* prove-magic-action.ts and prove-privacy.ts, each walking one market of  *)
(* its own through the program (module Lifecycle), alone or beside the     *)
(* keeper (module Crank), which does not know the market is spoken for.    *)
(*                                                                         *)
(* A script is a list of steps.  A transaction that is refused, lost or    *)
(* not confirmed throws, and the script exits 1; so does a wait that is    *)
(* given up.  What the last step leaves behind is what exit code 0 claims. *)
(***************************************************************************)
EXTENDS Crank, SequencesExt

CONSTANT
  Villagers   \* the bidders a script creates, in its order

\* A script deposits all that its villagers' wallets hold.
ASSUME ScriptAssumption ==
  /\ Villagers \in Seq(Bidders) /\ Len(Villagers) >= 2
  /\ Funds \in Transfers

VARIABLES
  script,     \* the script's kind, the steps it has left, how it ended
  attended    \* the keeper runs beside it

scriptVars == <<crankVars, script, attended>>

----------------------------------------------------------------------------
(* The steps, and the lists of them that the scripts are.                  *)

Do(do) == [do |-> do, by |-> Nobody, side |-> "Seal"]
By(do, b, side) == [do |-> do, by |-> b, side |-> side]
Each(bidding, Steps(_)) == FlattenSeq([i \in DOMAIN bidding |-> Steps(bidding[i])])

\* A purse is funded and delegated for whoever will bid.
Funding(bid) == <<By("deposit", bid.by, "Seal"), By("delegatePurse", bid.by, "Seal")>>

\* A bid is opened and funded in one transaction and made private in the next.
Bidding(bid) == <<By("bid", bid.by, bid.side), By("private", bid.by, bid.side)>>

Settling(bid) == <<By("settle", bid.by, bid.side)>>

\* A market with its secret, both delegated, and the confession sealed.
Confess == <<Do("create"), Do("shell"), Do("delegate"), Do("delegateSecret"), Do("onER"),
             Do("secretPermission"), Do("seal")>>

Bids(n, sides) == [i \in 1..n |-> [by |-> Villagers[i], side |-> sides[i]]]

\* From a sleep to the end of the timer, by the script's own clock, to a verdict of
\* the oracle.
Resolve == <<Do("expiry"), Do("expire"), Do("request"), Do("verdict")>>

\* settleAll: every bid that is seen, then the book.
SettleAll(bidding) == Each(bidding, Settling) \o <<Do("closeBook")>>

\* Mutant: the tombstone is written as soon as finalize_market is confirmed.
BuryAtOnce == <<Do("finalize"), Do("carve")>>

Bury == <<Do("finalize"), Do("home"), Do("carve")>>

\* smoke.ts: the purse is funded after the market is made.  Its bid and its settle
\* are sent raw and looked at once, 2.5 s later: an error of the bid is only
\* logged, and a receipt that is not there yet is no error.
SmokeOpens(bid) == Confess \o Funding(bid)
SmokeBids(bid) == <<By("tryBid", bid.by, bid.side), By("private", bid.by, bid.side)>>
SmokeEnds(bid) ==
  Resolve \o <<By("trySettle", bid.by, bid.side), Do("closeBook"), Do("grant")>> \o Bury

Smoke == LET bid == Bids(1, <<"Read">>)[1]
         IN  SmokeOpens(bid) \o SmokeBids(bid) \o SmokeEnds(bid)

\* seed.ts: the purses first, a market, the bids already on its board.  One spec
\* has no bids and is settled to its tombstone; all are described at the end.
SeedPurses(bidding) == Each(bidding, Funding)
SeedBids(bidding) == Each(bidding, Bidding)
SeedSettles == <<Do("expiry"), Do("expire"), Do("closeBook")>> \o Bury

Seed(bidding, settles) ==
  SeedPurses(bidding) \o Confess \o SeedBids(bidding)
    \o (IF settles THEN SeedSettles ELSE <<>>) \o <<Do("describe")>>

\* demo.ts's three markets.
Demo == LET bidding == Bids(2, <<"Seal", "Read">>)
        IN  SeedPurses(bidding) \o Confess \o Each(bidding, Bidding)
              \o Resolve \o SettleAll(bidding) \o Bury

DemoLeak == Confess \o <<Do("expiry"), Do("expire"), Do("closeBook")>> \o Bury

DemoRumor == LET bidding == Bids(2, <<"Yes", "No">>)
             IN  SeedPurses(bidding) \o Confess \o Each(bidding, Bidding)
                   \o <<Do("rumor")>> \o SettleAll(bidding)

\* prove-magic-action.ts: the headstone is allocated, and looked at again right
\* before finalize_market; after that the script only watches, and looks at the market
\* and who carved.
Magic == LET bidding == Bids(1, <<"Seal">>)
         IN  SeedPurses(bidding) \o Confess \o <<Do("headstone")>> \o Each(bidding, Bidding)
               \o Resolve \o SettleAll(bidding)
               \o <<Do("uncarved"), Do("finalize"), Do("carvedByAction"), Do("evidence")>>

\* prove-privacy.ts: sealed through the authenticated endpoint, then looked at.
Privacy == Confess \o <<Do("private?"), Do("closed?")>>

Program == [
  smoke           |-> [room |-> "GuiltMarket", steps |-> Smoke],
  pitch_deck      |-> [room |-> "GuiltMarket", steps |-> Seed(Bids(1, <<"Seal">>), FALSE)],
  vaporware       |-> [room |-> "GuiltMarket", steps |-> Seed(Bids(2, <<"Read", "Read">>), FALSE)],
  voted_no        |-> [room |-> "GuiltMarket", steps |-> Seed(<<>>, TRUE)],
  cofounder_token |-> [room |-> "BlackmailEscrow", steps |-> Seed(Bids(1, <<"Seal">>), FALSE)],
  ships_by_friday |-> [room |-> "WhisperIpo", steps |-> Seed(Bids(2, <<"Yes", "No">>), FALSE)],
  demo            |-> [room |-> "GuiltMarket", steps |-> Demo],
  demo_leak       |-> [room |-> "GuiltMarket", steps |-> DemoLeak],
  demo_rumor      |-> [room |-> "WhisperIpo", steps |-> DemoRumor],
  magic           |-> [room |-> "GuiltMarket", steps |-> Magic],
  privacy         |-> [room |-> "GuiltMarket", steps |-> Privacy]]

Kinds == DOMAIN Program
ScriptInit ==
  /\ attended \in BOOLEAN
  /\ \E kind \in Kinds :
       /\ script = [kind |-> kind, left |-> Program[kind].steps, ended |-> "running",
                    told |-> "nothing"]
       /\ market.room = Program[kind].room

----------------------------------------------------------------------------
(* How a step ends.                                                        *)

Doing(do) == script.ended = "running" /\ Head(script.left).do = do
Who == Head(script.left).by
Side == Head(script.left).side

Proceeds ==
  script' = [script EXCEPT !.left = Tail(@),
                           !.ended = IF Len(script.left) = 1 THEN "passed" ELSE @]
Throws == script' = [script EXCEPT !.ended = "failed"]
Prints(told) ==
  script' = [script EXCEPT !.left = Tail(@), !.told = told,
                           !.ended = IF Len(script.left) = 1 THEN "passed" ELSE @]

Still == UNCHANGED <<allVars, faultVars>>

\* Mutant: a transaction is sent with preflight off and its receipt is not read.
DoesUnread(do, A) ==
  /\ Doing(do)
  /\ (Lands(A) \/ Refused(A) \/ Lost \/ Unheard(A)) /\ Proceeds

\* sendEr, send, rpc: the receipt decides.
Does(do, A) ==
  /\ Doing(do)
  /\ \/ Lands(A) /\ Proceeds
     \/ (Refused(A) \/ Lost \/ Unheard(A)) /\ Throws

\* smoke.ts's bid and settle: a receipt that says an error is logged, or ends the
\* script; sending may throw; and no receipt is taken for a good one.
Tries(do, A, logged) ==
  /\ Doing(do)
  /\ \/ Lands(A) /\ Proceeds
     \/ Refused(A) /\ IF logged THEN Proceeds ELSE Throws
     \/ (Lost \/ Unheard(A)) /\ (Proceeds \/ Throws)

\* Mutant: a poll has no deadline.
AwaitsForever(do, there, hopeless) ==
  /\ Doing(do)
  /\ there /\ Still /\ Proceeds

\* A poll with a deadline.  It may run out at any time, as a lost call may; it
\* does run out when what it waits for will not come.
Awaits(do, there, hopeless) ==
  /\ Doing(do)
  /\ \/ there /\ Still /\ Proceeds
     \/ ~there /\ Lost /\ Throws
     \/ ~there /\ hopeless /\ Still /\ Throws

\* A look that must find what the script claims.
Checks(do, claim) ==
  /\ Doing(do)
  /\ Still
  /\ IF claim THEN Proceeds ELSE Throws

\* A purse's instruction, on Solana.
OnBase(A) == A /\ UNCHANGED <<marketVars, lifeVars>>

\* A read of an account where the script believes it to be: it throws when the call is
\* lost, and may where the account has moved and only a copy is left, or none.
Reads(moved) == (Lost \/ (moved /\ Still)) /\ Throws

----------------------------------------------------------------------------
(* The steps against the program.                                          *)

\* waitForEr, waitForBase, and prove-magic-action.ts's last wait.
OnTheRollup ==
  Awaits("onER", home = "ER" /\ secret.layer = "ER", home \in {"returning", "L1"})
CameHome == Awaits("home", home = "L1", FALSE)
CarvedByAction == Awaits("carvedByAction", tomb.account = "carved", home = "L1" /\ ~action)

\* The secret's permission, without the program itself; who is on the list of a
\* permission that was never made is nobody.
PermissionView == [exists |-> secret.permission # "none",
                   isPrivate |-> secret.permission = "private",
                   members |-> IF secret.permission = "none" THEN {} ELSE secret.members]

\* What prove-privacy.ts asks of the permission, the text and its hash.
Private == PermissionView.isPrivate /\ PermissionView.members = {Author} /\ secret.body = commitment

\* And of everyone else: Solana's copy of the secret is the empty shell, and no
\* stranger, with a token or without, is on the list.
NobodyElse == secret.layer = "ER" /\ secret.members \cap (Bidders \cup {Nobody}) = {}

\* waitForExpiry, and its like in seed.ts and smoke.ts: the market's end is fetched,
\* and slept for by the host's clock, which the rollup's may lag behind.
Sleeps ==
  /\ Doing("expiry")
  /\ (Still /\ Proceeds) \/ Reads(FALSE)

\* settleAll, for one villager: a bid that the rollup does not return is passed over.
\* One that it returned the keeper may have closed by the time the transaction comes.
SettlesSeen ==
  /\ Doing("settle")
  /\ \/ Seen(Who) /\ Does("settle", OnRollup(SettleAndClose(Who)))
     \/ ~Seen(Who) /\ Still /\ Proceeds
     \/ attended /\ Refused(OnRollup(SettleAndClose(Who))) /\ Throws
     \/ Reads(FALSE)

\* prove-magic-action.ts's evidence: the market is read on the rollup, which it has
\* left, and then the transaction that carved, which is not the script's own.  A
\* headstone that was there before is carved by seal_tombstone alone, which the script
\* never sends.  A transaction the node does not return is passed over, and that none
\* was found is no failure.
Evidence ==
  /\ Doing("evidence")
  /\ \/ Still /\ Prints("signed by the validator")
     \/ Lost /\ Prints("no such transaction")
     \/ Reads(home # "ER")

\* The oracle has dropped the request, or the keeper is past the verdict.
Unanswered == vrf = 0

\* The market is read on the rollup, unless the script has buried it.
Described == IF script.kind = "voted_no" THEN "tombstoned on L1" ELSE "on the ER"

\* describeMarket; the keeper may have taken the market home by now.
Describes ==
  /\ Doing("describe")
  /\ (Still /\ Prints(Described)) \/ Reads(script.kind # "voted_no" /\ home # "ER")

ScriptStep ==
  \/ Does("create", CreateMarket)
  \/ Does("shell", CreateSecretShell)
  \/ Does("delegate", DelegateMarket)
  \/ Does("delegateSecret", DelegateSecret)
  \/ OnTheRollup
  \/ Does("secretPermission", InitSecretPermission)
  \/ Does("seal", SealSecret(1))
  \/ Does("deposit", OnBase(DepositPurse(Who, Funds)))
  \/ Does("delegatePurse", OnBase(DelegatePurse(Who)))
  \/ \E amount \in Amounts :
       \/ Does("bid", OnRollup(PlaceAndFund(Who, Side, amount)))
       \/ Tries("tryBid", OnRollup(PlaceAndFund(Who, Side, amount)), TRUE)
  \/ Does("private", OnRollup(InitBidPermission(Who)))
  \/ Sleeps
  \/ Does("expire", OnRollup(ExpireMarket))
  \/ Does("request", OnRollup(RequestResolutionVrf))
  \/ Awaits("verdict", market.status = "Resolved", Unanswered)
  \/ Does("rumor", OnRollup(ResolveRumor(1)))
  \/ SettlesSeen
  \/ Tries("trySettle", OnRollup(SettleAndClose(Who)), FALSE)
  \/ Does("closeBook", OnRollup(CloseBook))
  \/ Does("grant", Grant)
  \/ Does("headstone", OpenTombstone)
  \/ Checks("uncarved", tomb.account = "open")
  \/ Does("finalize", FinalizeMarket)
  \/ CameHome
  \/ Does("carve", WriteTombstone)
  \/ CarvedByAction
  \/ Evidence
  \/ Checks("private?", Private)
  \/ Checks("closed?", NobodyElse)
  \/ Describes

\* The clock, the oracle, the delegation program, and the scheduled action.
Nature ==
  \/ OnRollup(Tick)
  \/ Answer
  \/ (CallbackRejected \/ OracleFails) /\ UNCHANGED lifeVars
  \/ MarketReturns
  \/ SealTombstone
  \/ ActionDropped

ScriptNext ==
  /\ UNCHANGED <<filters, attended>>
  /\ \/ ScriptStep /\ UNCHANGED <<keeper, flow>>
     \/ attended /\ KeeperStep /\ UNCHANGED script
     \/ Nature /\ UNCHANGED <<keeper, flow, faultVars, script>>

\* The script and the keeper are processes that run, and a script's deadline
\* passes though the keeper asks the oracle again and again; the clock runs; the
\* delegation program delivers; a request or an action is carried out or dropped.
ScriptFairness ==
  LET Alone(A) == A /\ UNCHANGED <<keeper, flow, filters, faultVars, script, attended>> IN
  /\ SF_scriptVars(ScriptStep /\ UNCHANGED <<keeper, flow, filters, attended>>)
  /\ WF_scriptVars(attended /\ KeeperStep /\ UNCHANGED <<script, filters, attended>>)
  /\ WF_scriptVars(Alone(OnRollup(Tick)))
  /\ WF_scriptVars(Alone(Answer \/ ((CallbackRejected \/ OracleFails) /\ UNCHANGED lifeVars)))
  /\ WF_scriptVars(Alone(MarketReturns))
  /\ WF_scriptVars(Alone(SealTombstone \/ ActionDropped))

\* A script makes a market of its own in a village that is at rest.
VillageAtRest == Init /\ LifeInit /\ CrankInit /\ ScriptInit

ScriptSpec == VillageAtRest /\ [][ScriptNext]_scriptVars /\ ScriptFairness

----------------------------------------------------------------------------
(* Properties.                                                             *)

Stakes == {b \in Bidders : Placed(b)}
Answered == \A b \in Stakes : bids[b].settled /\ purse[b].locked = 0

\* Exit code 0 is evidence of what the script's last line says, also when the
\* keeper has run some of its steps for it: the market was carried to a carved
\* tombstone with every stake answered, on the verdict its bids called for, and
\* what Solana then holds is what that verdict publishes (smoke.ts:301,
\* seed.ts:820, demo.ts:145, prove-magic-action.ts:183, prove-privacy.ts:226).
GreenMeansBuried ==
  script.ended = "passed" =>
    /\ script.told \in {"tombstoned on L1", "signed by the validator"} => tombstoned
    /\ CASE script.kind = "smoke" ->
              /\ tomb.account = "carved" /\ tomb.outcome = "SoleReader" /\ Answered
              /\ secret.members = {Author, tomb.sole_reader} /\ tomb.revealed = NoReveal
         [] script.kind \in {"demo", "magic"} ->
              /\ tomb.account = "carved" /\ tomb.outcome = "Buried" /\ Answered
              /\ secret.members = {Author} /\ tomb.revealed = NoReveal
         [] script.kind \in {"voted_no", "demo_leak"} ->
              /\ tomb.account = "carved" /\ tomb.outcome = "PublicLeak"
              /\ tomb.revealed = [text |-> "body", version |-> tomb.commitment, salt |-> TRUE]
         [] script.kind = "demo_rumor" ->
              market.status = "Settled" /\ market.outcome = "Forgiven" /\ Answered
         [] script.kind = "privacy" -> secret.permission = "private" /\ secret.members = {Author}
         [] OTHER -> \A i \in 1..Len(Program[script.kind].steps) :
              LET step == Program[script.kind].steps[i]
              IN  step.do = "bid" => /\ Placed(step.by) /\ bids[step.by].side = step.side
                                     /\ bids[step.by].private \/ bids[step.by].settled

\* What the program, the oracle and the rollup may refuse or withhold at a step.
Hidden(b) == filters /\ bids[b].account = "open" /\ bids[b].private

CauseOf(do) ==
  \/ do = "expire" /\ ~Dead
  \/ do \in {"bid", "private"} /\ Dead
  \/ do = "closeBook" /\ \E b \in Bidders : Hidden(b)
  \/ do = "verdict" /\ market.status = "VrfPending" /\ vrf = 0
  \/ do = "carvedByAction" /\ tomb.account = "open" /\ home = "L1" /\ ~action
  \/ do = "evidence" /\ home = "L1"

\* Exit code 1 of a script that ran alone has a cause outside of it: a call lost in that
\* step (or earlier, in smoke.ts, which goes on after some), a clock behind the script's,
\* bids that came too late or that the rollup hides from whoever settles them, an oracle
\* or an action that did not answer, a copy that the rollup has dropped.  No script trips
\* over its own order of steps.
RedHasACause ==
  [][script.ended = "running" /\ script'.ended = "failed" /\ ~attended =>
       \/ lost' > lost \/ (script.kind = "smoke" /\ lost > 0)
       \/ CauseOf(Head(script.left).do)]_scriptVars

\* Every run ends: whatever is lost, dropped, or done first by the keeper, no
\* script is left polling for what will not come.
ScriptsEnd == <>(script.ended # "running")
============================================================================
