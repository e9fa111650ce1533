# Verification of SINBAZAAR

TLA+ specifications of the `sinbazaar` program (`src/programs/sinbazaar/src`) and of the
clients that drive it, their TLC configurations, and TLAPS proofs. Line numbers are those
of `lib.rs` unless another file is named.

## The system

SINBAZAAR is a Solana program of 35 instructions that runs on two layers: Solana itself
(L1) and an ephemeral rollup inside a TEE (ER). An account is writable on one layer at a
time; delegating moves it to the rollup, a scheduled undelegation brings it back. A
villager seals a confession in a private account, others bid on its fate, an oracle's
randomness (or, for a rumor, its author) gives the verdict, the bids are settled one by one
by whoever cares to, and the market goes home to Solana to be carved on a tombstone.

| Component | State | Operations | Hard because |
|---|---|---|---|
| Purse | `Purse.available`, `locked`; which layer owns it | deposit, delegate, withdraw, undelegate; `fund_bid` and `settle_bid` write it | money counted twice (wallet, purse, escrow), an account that leaves while it is needed |
| Market book | `Market` (pots, counters, escrow), one `Bid` per villager | `place_bid`, `fund_bid`, `init_bid_permission`, `settle_bid`, `close_bid`, `close_book` | placing and funding are separate instructions; anyone settles in any order; two different orders (index, rank) decide who is drawn |
| Verdict | `status`, `outcome`, `randomness`, requests at the oracle | `expire_market`, `request_resolution_vrf`, `callback_resolve`, `retry_vrf`, `resolve_rumor` | lost, late and duplicate answers; retries; a clock; a rumor that must never reach the oracle |
| Secret and permission | `Secret`, its member list, `market.commitment_hash` | `create_secret_shell`, `delegate_secret`, `init_secret_permission`, `seal_secret`, `grant_reader` | who may read, and when the text stops changing |
| Home and tombstone | `market.revealed`, `tombstoned`, `Tombstone`, a scheduled action | `finalize_market`, `open_tombstone`, `write_tombstone`, `seal_tombstone`, `record_read`, `claim_author` | three racing ways to carve, actions that are dropped, markets that go back |
| Sessions | `SessionScope`, the browser's stored key | `open_session`, `revoke_session`, `place_bid_with_session` | a cached key, a scope replaced under it |
| Keeper | a list read once per tick | `scripts/keeper.ts` `tick` | stale snapshots, failed steps that are skipped, a crash between two steps |
| Browser flows | a step counter per flow | `flows.ts`: create, fund, bid, resolve | multi-transaction flows that fail half way and race the keeper |
| Village and its makers | `Village.market_count`, the accounts of each new market | `initialize_village`, `create_market` and what follows it, from `createConfession` and `seed.ts` | looked at first, taken later; nine transactions, none undone |
| Challenge | the rows of a probe | `challenge/page.tsx`, `page.tsx`, `magicblock.ts` | a refusal and an absent account look alike |
| Feeds | last answer per hook | `useMarkets.ts`, `useBackoffPoll.ts`, `live.ts`, `markets.ts` | two copies of each market, overlapping reloads, a market that moves between two calls |
| Wallet readouts | key, balance, purse, airdrops | `Providers.tsx`, the market page's purse | answers for a key that has been switched away |
| What is said of a market | nothing of its own | `verify-market.ts`, the verdict's page, the graveyard, `RuleBox.tsx`, the market page's buttons | rules written twice |
| Strip of transactions | two lists per market | `lifecycle.ts`, `Lifecycle.tsx` | validators forget, and absence reads as zero |
| Scripts | a list of steps | `smoke.ts`, `seed.ts`, `demo.ts`, `prove-*.ts` | the keeper does their steps for them |

Components interact through the accounts only: the program is called, never calls back
except through the oracle's callback and the scheduled undelegation and Magic Action.
Every instruction is atomic, so an interleaving of instructions is an interleaving of the
system. `PROJECT.json` lists every component with what of it is left out, and every hazard
at its line.

### What makes each part correct

* Purse: what it locks is what its owner has at stake, and it cannot leave while it does.
* Book: lamports are neither made nor lost in any order of settling; each draw names one
  paid reader; a book closes only when nothing is left in it.
* Verdict: it follows from the pots on record, comes once, and comes at all.
* Secret: at most one villager who paid and was drawn is let in; the commitment goes
  with the text, which the author may replace until somebody cranks `expire_market`; Solana shows what the verdict
  released and no more.
* Tombstone: true, carved once; the author is paid once.
* Sessions: a key bids for the villager who granted it, up to what they granted, while they do.
* Clients: however they race and fail, stakes they can see are answered, the drawn reader is let in before
  the market leaves, and what goes home is carved unless someone was interrupted.
* Village: what is sealed is private, a maker gets a market of its own or a reason, and a
  probe's rows mean what they say.
* Pages: an answered read is never older than its question, a page left open comes to show
  the truth, and what it says and offers is what the program did and will take.
* Scripts: exit code 0 is evidence, exit code 1 has a cause, and one of them comes.

## Modules

| Module | Models |
|---|---|
| `Purse` | a purse per villager; `Lock` and `Release` are what bids do to it |
| `Market` (extends `Purse`) | one market's book, clock, oracle and verdict on the rollup; one action per instruction |
| `EscrowContract` | the abstract promise: stakes taken before the verdict, each answered once out of what is held, closed when all are answered |
| `Offers` (extends `Market`) | which buttons the market's page offers; no actions |
| `Lifecycle` (extends `Market`) | the same market from `create_market` to its tombstone, with the secret, the headstone and the scheduled action; restricts the book's steps to where the accounts are |
| `Reading` (extends `Lifecycle`) | what the verifier, the verdict's page, the graveyard and the rules box say of a market; no actions |
| `Crank` (extends `Lifecycle`) | the keeper's tick and a browser's `resolveMarket` as processes that look, send, are refused, lose calls and die; the rest of the world bids, ticks and answers |
| `Scripts` (extends `Crank`) | each script as a list of steps against the program, alone or beside the keeper |
| `Session` (extends `Market`) | the scopes on the rollup, the browser's stored rows, and tabs whose flows open, revoke and use session keys |
| `Village` | makers that open a village and make markets in it, and a stranger who probes them |
| `Feed` | a market on two layers, and the polled and pushed reads of it |
| `Wallet` | the key in use, its balance, purse, airdrops and `fundPurse`, across switches |
| `History` | the strip of a market's transactions, read from two validators that forget |
| `MarketProofs`, `MarketSafety`, `MarketMoney` | theorems about `Market`: its life and types; its book and verdict; its sums and its contract |
| `LifecycleProofs` | theorems about `Lifecycle` and `Reading` |
| `CrankProofs` | theorems about `Crank` and `Scripts` |
| `SessionProofs`, `VillageProofs` | theorems about the module each is named for |
| `FeedProofs` | theorems about `Feed` and `History` |
| `MCMarket`, `MCLifecycle`, `MCCrank`, `MCScripts`, `MCSession`, `MCVillage`, `MCPages` | the instances: initial states, curves, symmetry, named bounds |

**State.** `market`, `bids[b]`, `purse[b]`, `secret` and `tomb` are records with the names of
the Rust structs' fields. Pots are one function from sides. A bid has one account per
villager (its PDA), `"none"`, `"open"` or `"closed"`; a closed one keeps its contents so that
properties can speak of them. `vrf` counts requests the oracle still holds. Texts, salts and
hashes are versions: a commitment is the version sealed with it. Lamports kept for rent and
the sponsor float are left out; a wallet holds `Funds`. The clock counts seconds from the
market's creation and stops with the verdict, after which nothing reads it.

**Actions.** Each has the handler's checks as conjuncts; an error is a disabled action.
Clients put two instructions into one transaction twice: `PlaceAndFund` and `SettleAndClose` are steps of
`Market` too, so that every proof about the book covers them. `PurseReturns`, `MarketReturns`, `SealTombstone` and `ActionDropped` are what the delegation
program and the action executor do later. Integer widths do not matter here: all sums are
bounded by the money there is, `saturating_sub` is modelled (`SatSub`), the only division is
modelled with its floor, and `read_rank`'s `u8` is proved not to wrap (`TypeCorrect`).
Definitions named as mutants in a comment are broken variants, used nowhere: each property
of a passing run fails when one of them takes the place of the definition it varies.

**Clients** (`Crank`). A client's decision is made from what it read: the keeper's `Branch`,
`Listed` and `unsettled` are snapshots it acts on later. A call lands, is refused by the
program (then nothing changes and, in the browser, the flow throws; the keeper's `step` skips)
or is lost; `finalize_market` may also land and its confirmation be lost, which the keeper
takes for a failure. A browser settles one bid, its own villager's, in one transaction with its
`close_bid`; bids it remembers of other keys would be other runs of the flow. One browser at a
time is in the flow. A browser's read and the transaction that follows from it are one step: a race lost between
them throws, as a lost call does. Only confessions: both clients leave a rumor to its author.

Keeper, browser and scripts read the rollup through one endpoint and show it no token (`keeper.ts` 140, `flows.ts` 530,
`harness.ts` 375). Which endpoint that is depends on the cluster: locally it is the validator behind the filter, on devnet it
is the enclave itself (`prove-privacy.ts` 174-178). The variable `filters` is chosen once and for all of them, and
`Seen` is what they get: every open bid, or only the public ones. A bid's own villager gets no more than the keeper does.

**Sessions** (`Session`). A tab's flow captures owner, key and ttl when it is clicked and goes on
with them while the tab's wallet changes; localStorage is shared. Keys are numbered as they are
generated, so that a key never returns. The page's clock and the rollup's are one. What a page
polls (the market's status, whether there is a bid already) may be old, so no click is
guarded by it. The history variables `grant` and `signed` record what each key was granted,
whether that has been revoked or replaced, and which key signed a villager's bid.

**Scripts** (`Scripts`). A step lands, is refused, is lost, or lands and is not confirmed. When it does
not simply land it throws and the script exits 1, except in `smoke.ts`'s two raw sends. Polls have their
deadlines: one may run out early, as a lost call may, and does run out when what it waits for
will not come. The sleep to the timer's end is by the host's clock (`Sleeps`), which may be ahead of the cluster's, so
`expire_market` may be refused. `settleAll` looks for each bid first and passes over one it does not get
(`SettlesSeen`): it is gone because the keeper closed it, or hidden because the rollup filters. A script's last reads may throw where
the market has gone home and the rollup keeps a copy or none (`Reads`). The keeper beside a script is `Crank`'s, which does not know that the
market is spoken for. `ScriptSpec` starts from a village at rest, in which the script's market is yet to be made.

**Village** (`Village`). A maker is a tab, which draws its id, or a run of `seed.ts`, which counts
and looks; all share one key. A look and what follows from it are separate steps. Markets
that earlier seeds left stand at the lowest ids, with the count at or below them. A probe asks its
questions one by one while the market is still being made, or goes home (`GoesHome`). Whether the service enforces the
member lists is not in this repository, whose comments disagree (see the findings): `enforced` is
either, and the properties say what the probes then show. The cluster is the local one: the
landing page's and the challenge page's control reads the validator behind the filter, which
only a local cluster has.

**Feed** (`Feed`). A market is a version and a place. While it is delegated Solana keeps the copy
it left with, and after it went home the rollup may keep one; both decode. `fetchMarket` and
`fetchMarkets` are read call by call, and the market changes and moves between two calls. A
push marks the page as due; debouncing only delays. `marketsOn`'s null and an empty list differ.

**Wallet** (`Wallet`). Callbacks keep the key of the render they were made in, so every answer
carries the key it was asked for. The effects of a render are part of the step that renders.
An amount is `rich` (a SOL or more) or `low`, which is what the code compares.

**Reading, offers, strip.** `Reading` and `Offers` translate what a page or script computes from the
accounts; the properties compare it with what the program did (`Reading`) or takes next (`Offers`,
with `ENABLED`). They take the accounts as they are: that a page comes to have them is
`Feed`'s. In `History` a transaction is whether its logs say it is a trade; a call fails, or a
transaction is gone by the time it is asked for.

**External.** The oracle answers with any draw and any coin, or never, at any time. An
undelegation lands at any time. A scheduled action runs, fails or is dropped; the escrow
that signs it is its only caller (`lib.rs` 367). Whether the permission program accepts
`close_bid` for a bid without a permission is not in this repository: `CloseBid` allows it,
and liveness does not count on it.

## Runs

| Run | Instance | Shows |
|---|---|---|
| `market_safety` | 2 villagers, all rooms, three ransom curves (met by a stake, growing with time, none), amounts 1 and 2, purses from creation, 2 requests in flight, clock to one second past the grace | conservation (`MoneyIsConserved`), purses back bids, the verdict follows the pots, comes once and is asked of the oracle for paid confessions only, a closed book is empty; the page's buttons are the program's guards (`OffersMatchTheProgram`) |
| `market_three` | 3 villagers, funded purses that stay | the escrow covers all claims with pro-rata shares that do not divide, three readers, unequal stakes; refinement of `EscrowContract` |
| `market_live` | 2 villagers, confession rooms, fairness | verdicts arrive, paid books close |
| `lifecycle` | 2 villagers, all rooms, two texts sealed; or a strip, alone | publication, access, tombstone, the author's pay; the verifier and the pages agree with it; the branch that falls was lit; the strip takes no absence for a value |
| `dust` | 3 villagers, a rumor | *violated*: lamports left in a closed book, `close_book` refuses for ever |
| `headstone` | 2 villagers | *violated*: a headstone opened late can not be carved |
| `crank` | 2 villagers, a sealed blackmail confession, a rollup that filters reads or not, one fault, fairness | stakes that the clients can see are answered and the book goes home, also from a bid settled but not closed; the reader is let in first; whoever takes a market home carves it unless interrupted |
| `scripts` | 11 scripts (each seeded market counts as one), alone or beside the keeper, on a rollup that filters reads or not, one lost call, fairness | exit code 0 means what the last line says; a script alone fails for a reason; every script ends |
| `session` | 2 tabs, 2 of the villager's keys, 2 session keys, 2 switches, reloads or failures | a session key bids for its owner, below its ceiling, and not once revoked or replaced; the browser stores only keys its villager granted |
| `offered` | the same | *violated*: a key switched during `openSession` is offered the other key's session |
| `pages` | a feed with 2 reads, or a wallet with 2 burners and an extension; one failure; fairness | answered reads are fresh; the page comes to show the truth; readouts come to be the key's own; burners get funded |
| `village` | 2 makers, 2 standing markets, 6 ids, a service that enforces the lists or not, the probed market may go home, one lost call | where the lists are enforced no stranger reads what is sealed; a challenge that holds proves it, and one that was answered tells whether they are; each maker gets its own market or a reason |

Each property of a passing run fails when a broken variant replaces the definition named
for it under `mutants` in `PROJECT.json`. Findings with a run are those it violates; the others
are disagreements between code and text that were met while modelling, each with both
lines. The properties of earlier violations that are now findings only (`retry_vrf`'s grace, the unpaid
heir, the keeper's death before `write_tombstone`) have their cases in the passing
runs' exceptions, which are named in the properties' comments; the absent author has none.

**Bounds.** `MaxNow` stops the clock one second after the grace is over (with `Duration` 1
and `VrfGrace` 1 there is an instant before expiry, one within the grace and one after
it; the handlers only compare the clock with these two and the ransom curve with a pot).
`MaxRequests` 2 lets an answer overtake a younger request. Two villagers give every
disagreement of index and rank and every order of settling; three are needed for a share
that does not divide among two winners, and for a draw that misses two. Amounts 1 and 2 make
pots that do and do not meet a ransom of 2. `Transfers` {2} moves a whole purse at once. The larger instances leave out bid permissions and
purse movements (`OnlyTheBook`), which `market_safety` explores. Symmetry permutes villagers;
no action or property names one, and it is not used with liveness.
In `crank` one fault (`MaxFaults`) hits any client at any point: a second only repeats the first, since
after one the market is left to the next look. The one draw (`Draws` {1}) names the second reader, one
ransom is met by one seal bid, and one request is in flight at a time. `KeeperGrace` 0 is less than `VrfGrace` 1,
as 70 s are less than 120. `scripts` has the same, both draws and one amount; each script
has its own two villagers at most and its own market, as in the code. In `session` one bid fits
the book (`MaxBidders` 1), as every villager bids once and no property relates two bids;
`MaxTurns` 2 is enough for a tab that must reload to see another's session and a switch or failure in the
midst of a flow; amounts 1 and 2 keep and break a ceiling of 1.
In `pages` the feed and the wallet share nothing, so a behaviour has one of them. Two reads overlap; two versions
tell an old copy from a new one on both layers; a market is delegated once, as nothing on a
page tells a second time. The villager does two things to a key (`TurnsOn`), one on the market's page, where there
are more readouts; one call fails. In `village` ids 0 and 1 may stand, a tab draws 0 or 2, `claimId` looks at `Lookups` 2
ids and a create is retried `Attempts` 1 time (64, and 16, in the code): a seed can run out of both. Only the market that is
probed goes home (`ProbedGoesHome`, a constraint): nothing reads the others' place once they are made, and the proofs do without it.
In `lifecycle` the strip asks for `Limit` 1 signature of at most `MaxWrites` 2 transactions, so that a list is
cut, and `MaxSilences` 1 call fails.
Deadlock is not checked: a settled market and a market whose author is absent stop.

**Fairness** (`Market`, `Fairness`). The cranks are permissionless and `keeper.ts` sends each
that applies on every tick: weak fairness. For `settle_bid` and `close_bid` that needs someone
who can name the bid: the keeper, on a rollup that lists private bids to it (a local cluster's). On one that filters
reads no client of this repository provides it, as `Crank` has it.
The oracle may lose any request, but not all of infinitely many: strong fairness of
`CallbackResolve`. A bid's account is sure to close only if it has the permission `close_bid`
closes with it. No fairness for villagers, purses or a rumor's author.

**Fairness** (`Crank`, `CrankFairness`). Here the cranks are the processes themselves: the keeper
polls for ever (`keeper.ts` 243), and a started flow goes on. Nothing is assumed of villagers: who opens a page, if
anyone, is up to them. The delegation program, the clock and the oracle as
above. Calls are lost and clients die finitely often (`MaxFaults`), so these properties say: once calls get through.
On a rollup that filters reads, a private bid is seen by nobody and `StakesAreAnswered` and `BooksGoHome` except it: its
stake stays where it is and its book does not close, which is a finding. `BooksGoHome` also excepts an open bid without a
permission, as above. It includes a bid that a tick settled and did not live to close: a browser's transaction
fails on it, and the next tick lists it again.

**Fairness** (`Scripts`). A script runs on: strong fairness, because the keeper beside it may take turns in
between for ever. The keeper, the clock, the oracle's answer or loss, a returning market and a scheduled
action (run or dropped) come to pass: weak fairness.

**Fairness** (`Feed`, `Wallet`). A mounted page's polls go on and a call that is under way ends, answered or not (timers and
promises); clones and returning markets arrive. Nothing is assumed of pushes, of the villager, or
of how often the market changes. An airdrop ends in the end though the page is left
and opened in between (strong fairness).

No fairness is stated for `Village`, `Session`, `Lifecycle` and `History`, whose properties are safety.

## Proofs

By TLAPS, for every value of the constants that meets the modules' named assumptions
(`PurseAssumption`, `MarketAssumption` with `MaxBidders` up to 254, `LifecycleAssumption`, `CrankAssumption`, `ScriptAssumption`,
`SessionAssumption`, `VillageAssumption`, `FeedAssumption`, `HistoryAssumption`). What these assume beside the types of the
constants: villagers are finitely many, and none of them is `Nobody` or the author; in `Village` the ids are finitely many (they are
`u64`), and whoever made the earlier markets is neither a maker nor `Nobody`; for the
clients one text can be sealed (`MaxSeals` is at least 1); for the scripts there are two villagers in a list, and what
they deposit is a transfer that can be made (`Funds` is in `Transfers`).

| Theorem | States |
|---|---|
| `MarketSafety`: `TypeCorrect` | `TypeOK`: no counter passes `MaxBidders`, no rank leaves the `u8` |
| `PursesAlwaysBackBids` | `PursesBackBids` |
| `RanksAreDense` | `ReadRanksAreDense` |
| `VerdictStands` | `VerdictIsFinal` |
| `ClosedIsDone` | `SettledMeansDone` |
| `VerdictIsRecomputable` | `VerdictFollowsBook` |
| `MarketProofs`: `OracleIsOwedAPaidConfession` | `OnlyPaidConfessionsAwaitOracle` |
| `MarketMoney`: `EscrowAlwaysCovers` | `EscrowCoversClaims` |
| `MoneyNeverLeaks` | `MoneyIsConserved` |
| `TheReaderPays` | `SoleReaderPays` |
| `MarketImplementsContract` | `ImplementsContract`, the refinement of `EscrowContract` |
| `LifecycleProofs`: `PublishedAsDecided` | `OnlyTheVerdictPublishes` |
| `OnlyTheReaderIsLetIn` | `OnlyTheChosenRead` |
| `TombstonesTellTheTruth` | `TombstoneIsTrue` |
| `CarvedOnce` | `CarvedForGood` |
| `TheAuthorIsPaid` | `AuthorIsPaidOnce` |
| `BuriedMarketsAreVerified`, `TheRuleShownIsKept` | `BuriedMarketsVerify`, `VerdictWasLit` (module `Reading`) |
| `CrankProofs`: `TheReaderIsLetIn` | `ReaderIsLetIn` |
| `ClientsKeepTheLife` | the invariants of the book and the life, of `CrankSpec` |
| `RacedTombstonesAreTrue`, `RacedStonesStand` | `TombstoneIsTrue`, `CarvedForGood`, of `CrankSpec` |
| `RacedMarketsVerify`, `RacedGrantsLetInTheChosen` | `BuriedMarketsVerify`, `OnlyTheChosenRead`, of `CrankSpec` |
| `RacedBooksAreDone`, `RacedEscrowCovers`, `RacedAuthorsArePaid` | `SettledMeansDone`, `EscrowCoversClaims`, `AuthorIsPaidOnce`, of `CrankSpec` |
| `GreenIsEvidence` | `GreenMeansBuried` |
| `ScriptsAreLives` | `ScriptSpec => LifeSpec`: every run of a script is a life of a market |
| `ScriptedMarketsVerify` | `BuriedMarketsVerify`, of `ScriptSpec` |
| `SessionProofs`: `KeysBidAsGranted` | `KeyBidsAsGranted` |
| `ScopesCountBids` | `SpentIsWhatWasBid` |
| `StorageIsOwn` | `StoredKeysAreGranted` |
| `TheDeadDoNotBid` | `DeadKeysPlaceNoBid` |
| `SessionsKeepTheBook` | the invariants of the book and its sums, of `SessionSpec` |
| `SessionPursesBackBids`, `SessionEscrowCovers`, `SessionsMakeNoMoney` | `PursesBackBids`, `EscrowCoversClaims`, `MoneyIsConserved`, of `SessionSpec` |
| `VillageProofs`: `NothingSealedIsRead` | `NoStrangerReads` |
| `MakersAreServed` | `MakersGetTheirMarkets` |
| `ProbesAreHonest` | `ChallengeIsHonest` |
| `FeedProofs`: `ReadsStayFresh` | `ReadsAreFresh` |
| `TheStripIsHonest` | `AbsenceIsNotAValue` (module `History`) |

Beside these, the inductive invariants are theorems of their own (`InvariantHolds`,
`LifeInvariantHolds`, `CrankInvariantHolds`, `ScriptInvariantHolds`, `SessionInvariantHolds`, `VillageInvariantHolds`, `FlowInvariantHolds`,
`ProbeInvariantHolds`, `FeedInvariantHolds`, `HistoryInvariantHolds`).

**The book.** `TypeOK` is not inductive: that a counter stays below `MaxBidders` follows only
from its being a cardinality. So the proof starts from `LooseTypeOK`, with counters in `Nat`,
and builds `Invariant` in layers:

1. `Life` (`MarketProofs`): which states of a bid and of the market go together; an expired
   confession has money in a pot.
2. `PursesBackBids` (`MarketSafety`): needs `Life` so that a bid is not settled before it is paid.
3. `BookOrder`: indexes and ranks are below their counters and distinct, and no rank is
   missing.
4. `Counting`: `bid_count`, `read_bid_count` and `closed_bid_count` are the cardinalities of the sets of
   placed, ranked and closed bids. With finite `Bidders` this bounds the counters, and makes
   `close_book`'s comparison of two numbers a statement about all bids.

Once the verdict is in no bid is opened or funded, the
outcome stands, the named reader is the drawn bidder (who is unique by `BookOrder`), a
closed book holds no open bid, and the pots are those that `Verdict` was given.

**The sums** (`MarketMoney`). What `SumFunction` makes of a finite set needs an induction, which the library's
theorems would take as an operator. It is had from the well-foundedness of strict inclusion instead (`MinimalSubset`): a
set of counterexamples would have a minimal one, and leaving an element out of that one gives a smaller. What follows is used of
every sum: of nothing it is zero, one changed entry changes it by as much, it is monotone, and it can be split. Each
instruction changes the entries of one villager, so each change of the escrow meets a change of one claim. Under a
rumor's verdict claims are floored shares: the winners' stakes are a pot, and floors sum to no more than the pot they
share. The sole reader's stake is what is left over when every other bid is refunded.

**The contract.** `Market` implements `EscrowContract` under the refinement mapping of its `INSTANCE`: funding is `TakeStake`, the
verdict `Decide`, settling `Answer` (what it pays is held, by `EscrowCoversClaims`) and closing the book `Close`; all
else stutters.

**The life.** `Lifecycle`'s steps on the book are `Market`'s (`BookStepIsNext`), except `claim_author`, which pays
out of it what no part of `Invariant` speaks of (`ClaimFrame`). So `Invariant` carries over, and
`LifeInvariant` adds: the commitment is to the text in the secret; nothing is shown before
the market is settled, nor on stone before it is carved; who is let in is the market's reader.
`TombstoneIsTrue` is inductive only with the fact that a settled book keeps its outcome, reader and pots
(`Settles`), also after the market went back to the rollup. The author's claims are the one place where the book's sums and the
life meet. `BuriedMarketsVerify` follows from `LifeInvariant` and `Engraved`, which also has
what was revealed; `VerdictWasLit` compares `RuleBox.tsx`'s branches with the program's verdict, step by step.

**The clients** (`CrankProofs`). Four things can happen to a market between two looks: the book moves on, a reader is
granted, the market leaves, it comes home. `CrankInv` says that a client at its grant or its `finalize_market` has a settled
market, whose reader no longer changes, and that one at `finalize_market` has let the reader in, or the market is
gone, or a call was lost. The keeper goes on from a refused grant: only because `Admissible` fails of everybody, which on the rollup means
that nobody was named. That case is why `KeeperGrants` has its guard spelled out instead of `ENABLED`.
For all else the clients are senders: each of their steps is one of `Lifecycle`'s or leaves the market alone
(`CrankStepsAreLife`; the one thing to know of them is that a browser's flow is a bidder's), so what `LifeInvariant` and the book
give holds of every race. Runs check these properties with the market's own steps only, in smaller modules; the theorems
carry them to the clients.

**The scripts** (`CrankProofs`). `GreenMeansBuried` says what must be so when the list of steps is empty. It is not inductive: a
script that is half way must already have got what the steps behind it are for, and the keeper must not undo it. So each step
has a postcondition (`Post`) and `ScriptInvariant` says:

* `DoneIsDone`: of the steps on a script's list, those it has left behind it are done. A step of
  `settleAll` is the exception and has no postcondition, because it passes over a bid that it does not get: that every stake is
  answered comes from `close_book`, which is refused while a bid is left and has `SettledMeansDone` for its own. Every postcondition, once true,
  stays true whoever moves next (the long part: a settled bid stays settled, a verdict stands, a hidden
  secret stays hidden); and a step either throws or makes its own true.
* `OwnBids`: the bids in the book are the script's, paid and on the sides it was written with, as nobody else bids
  in its market. With the verdict rule this gives the outcome the last line names.
* `CameHomeShown`: a market is only home with its book begun because it was finalized, so what is on the stone is
  what its verdict calls for.

The eleven lists are not run but looked through once (`EveryScript`): which steps are on them, and what of a seeded list is
the same for any room, sides and number of bids.

**Sessions.** A scope holds a key that its villager granted, as they granted it; a key is granted
once, by the one tab that generated it; a tab about to store a key stores its own. Of the book only the effect of
`PlaceAndFund` on bids and its types are needed. Conversely every step of a tab is one of `Market`'s or leaves the book alone
(`TabsSendInstructions`), from a book that is empty with filled purses (`FreshBook`), so its invariants hold of sessions too.

**Village.** `Reached` says, for each stage of a flow, what must hold of the accounts it made:
every failure ends a flow, so a later step has all that went before. A market has one maker (`OthersKnow`). For the makers
that fail, `FlowInvariant` adds that no step of a flow is refused for want of what it needs, and that the ids a maker has
counted past are all taken: finitely many, and as many as it looked at. A market that goes home takes nothing from a maker (`SealersAreDone`: a sealed text is
of a maker that has ended). For the probes, `ProbeInvariant` says
that a row which held still does, as what is private stays private and what is sealed stays sealed, and which rows can fail, by
whether the lists are enforced and whether the market went home.

**Feed.** `CopiesAreKnown` says on which layer the newest copy is; `ReadIsCurrent` what a read has
learned at each of its calls, and what its next call can still find. The subtle case is a market that goes home between
`marketsOn`'s two listings.

**Strip.** `TellsRows` relates the rows a reading has, the signatures it has yet to ask for and the ledger when it was listed:
together they are the ledger's last, without a gap, and a trade is missed only if it was gone.

**Model-checked only.** Liveness under fairness (`VerdictArrives`, `PaidBooksClose`, `StakesAreAnswered`, `BooksGoHome`,
`CarvedUnlessInterrupted`, `ScriptsEnd`, `ShowsTheTruth`, `ReadoutsSettle`, `BurnersAreFunded`) and `ENABLED` (`OffersMatchTheProgram`; a script that
fails in the step of `RedHasACause` was refused, which is that its instruction was not enabled) are out of TLAPS's reach.

## Not modelled

* `commit_market`: it copies the market to Solana, where nothing in the program reads the copy; `Feed` lets
  Solana's copy be as old as the delegation.
* The latency race (`race.ts`, `LayerRace.tsx`): two clocks and no protocol state.
* Error codes and the IDL: an error is a disabled action or a refusal; the IDL is generated.
* `usePulse.ts` and `useActivity.ts`: counters that are shown and decide nothing; what is wrong with them is under findings.
* Rendering, motion, formatting, room texts, key derivation, encodings, transports.
* The authenticated read of a secret (`readSecret`): one call, whose answer is the member list's, which `Lifecycle` has.
* Overlapping loads of one strip, and the permission inspector's re-reads, which have no order; the first is under findings.
* Rent, fees and the base-layer transfer that fuels a session key.

## Plan

Done: the program, its contract, its clients, the pages' reads and claims, the village, the scripts,
and the proofs above, which leave of the runs' safety properties only those that need `ENABLED`. Left, in this order:

1. Two markets that share a purse, which `Market` alone does not show: `locked` would be a sum over markets.
2. The strip's overlapping loads, and the challenge on a cluster with one endpoint.
3. A session whose charge and payment are two transactions, which the app does not send and the program allows.
