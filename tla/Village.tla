------------------------------ MODULE Village ------------------------------
(***************************************************************************)
(* How markets come into a village and what a stranger can read of them.   *)
(*                                                                         *)
(* Two makers with one key, and so with one village, make a confession     *)
(* each: a tab of the confess page (createConfession of                    *)
(* app/src/lib/flows.ts), which draws a market id, or a run of             *)
(* scripts/seed.ts, which counts.  Each looks before it opens the village, *)
(* and the seed before it takes an id; nothing holds what was looked at.   *)
(* A call is answered, refused, or lost, whether it landed or not, and a   *)
(* call that is not answered with success throws.                          *)
(*                                                                         *)
(* Meanwhile a stranger runs the probes of the challenge page or of the    *)
(* landing page against one of the markets, on a local cluster, through    *)
(* the service that answers for the rollup, which may or may not enforce   *)
(* the member lists: the repository says both of it.  What becomes of a    *)
(* market once it is sealed is module Lifecycle's; here it goes home at    *)
(* some time.                                                              *)
(***************************************************************************)
EXTENDS Naturals, FiniteSets, Sequences

CONSTANTS
  Makers,
  Earlier,      \* who made the markets an earlier seed left
  Standing,     \* the ids they may have
  Ids,          \* bound: the ids in question
  Drawn,        \* bound: the ids a tab may draw; a billion in the code
  Lookups,      \* ids claimId looks at: 64 in the code
  Attempts,     \* retries of a create: 16 in the code
  MaxLost       \* bound: calls that are lost

Nobody == "nobody"

ASSUME VillageAssumption ==
  /\ Earlier \notin Makers \cup {Nobody} /\ Nobody \notin Makers
  /\ Ids \subseteq Nat /\ IsFiniteSet(Ids) /\ Standing \subseteq Ids /\ Drawn \subseteq Ids
  /\ Lookups \in Nat \ {0} /\ Attempts \in Nat /\ MaxLost \in Nat

VARIABLES
  village,      \* the Village account
  market,       \* the Market accounts, each with its permission
  secret,       \* the Secret accounts, each with its permission
  maker,        \* where each maker is, with its id
  probe,        \* the probes: the page, the market, the rows that hold
  enforced,     \* the service enforces the member lists; chosen once
  lost

chain == <<village, market, secret>>
villageVars == <<chain, maker, probe, enforced, lost>>

----------------------------------------------------------------------------
(* The program.                                                            *)

NoMarket == [maker |-> Nobody, home |-> "none", permission |-> "none"]
NoSecret == [home |-> "none", permission |-> "none", text |-> Nobody]

Delegated(i) == market[i].home = "ER" /\ secret[i].home = "ER"

\* initialize_village: the account is made if it is not there, the count is reset.
InitializeVillage ==
  /\ village' = [exists |-> TRUE, count |-> 0]
  /\ UNCHANGED <<market, secret>>

\* Mutant: the account is init_if_needed, as the village's is.
CreatableIfNeeded(i) == village.exists

\* create_market's accounts: the village is read, the market is `init`.
Creatable(i) == village.exists /\ market[i].maker = Nobody

CreateMarket(m, i) ==
  /\ market' = [market EXCEPT ![i] =
       IF @.maker = Nobody THEN [NoMarket EXCEPT !.maker = m, !.home = "L1"] ELSE @]
  /\ village' = [village EXCEPT !.count = @ + 1]
  /\ UNCHANGED secret

CreateSecretShell(i) ==
  /\ secret' = [secret EXCEPT ![i].home = "L1"]
  /\ UNCHANGED <<village, market>>

DelegateMarket(i) ==
  /\ market' = [market EXCEPT ![i].home = "ER"]
  /\ UNCHANGED <<village, secret>>

DelegateSecret(i) ==
  /\ secret' = [secret EXCEPT ![i].home = "ER"]
  /\ UNCHANGED <<village, market>>

\* init_market_permission: is_private is false.
InitMarketPermission(i) ==
  /\ market' = [market EXCEPT ![i].permission = "public"]
  /\ UNCHANGED <<village, secret>>

\* init_secret_permission, in a room that is a confession's.
InitSecretPermission(i) ==
  /\ secret' = [secret EXCEPT ![i].permission = "private"]
  /\ UNCHANGED <<village, market>>

\* seal_secret: nothing of the permission is asked.
SealSecret(m, i) ==
  /\ secret' = [secret EXCEPT ![i].text = m]
  /\ UNCHANGED <<village, market>>

\* finalize_market, of whose guards only this is kept that a confession is sealed
\* long before its market is settled.  The secret stays on the rollup.
GoesHome(i) ==
  /\ secret[i].text # Nobody /\ market[i].home = "ER"
  /\ market' = [market EXCEPT ![i].home = "back"]
  /\ UNCHANGED <<village, secret, maker, probe, lost>>

----------------------------------------------------------------------------
(* The makers.                                                             *)

VillageInit ==
  /\ \E standing \in SUBSET Standing :
       /\ village \in [exists : BOOLEAN, count : 0..Cardinality(standing)]
       /\ standing # {} => village.exists
       /\ market = [i \in Ids |-> IF i \in standing
                                  THEN [maker |-> Earlier, home |-> "ER", permission |-> "public"]
                                  ELSE NoMarket]
       /\ secret = [i \in Ids |-> IF i \in standing
                                  THEN [home |-> "ER", permission |-> "private", text |-> Earlier]
                                  ELSE NoSecret]
  /\ maker \in [Makers -> [kind : {"tab", "seed"}, at : {"village"}, id : Ids, looks : {0},
                           tries : {0}, why : {"none"}]]
  /\ \A m \in Makers : IF maker[m].kind = "tab" THEN maker[m].id \in Drawn ELSE maker[m].id = 0
  /\ probe = [page |-> "none", at |-> "idle", id |-> 0, sealed |-> FALSE, missed |-> FALSE,
              held |-> {}]
  /\ enforced \in BOOLEAN
  /\ lost = 0

\* The steps of createConfession and of buildMarket; the village is opened, and an
\* id claimed, not by everyone.
Order == <<"village", "open", "enter", "claim", "create", "shell", "delegate", "delegateSecret",
           "await", "marketPermission", "permission", "seal", "done">>

After(at) == Order[1 + CHOOSE n \in DOMAIN Order : Order[n] = at]

Comes == UNCHANGED lost
Misses == lost < MaxLost /\ lost' = lost + 1

Goes(m, at) == maker' = [maker EXCEPT ![m].at = at]

\* Mutant: the step is reported as failed, and the next one begins.
ThrowsOn(m, why) == Goes(m, After(maker[m].at))

\* step: what is thrown in it ends the flow; nothing is undone.
Throws(m, why) == maker' = [maker EXCEPT ![m].at = "failed", ![m].why = why]

\* sendIxs, rpc, erRpc.  A transaction that is sent but not confirmed throws, like
\* one that landed and failed: the receipt is read.
Sends(m, Can, Effect, then, Refused) ==
  \/ Comes /\ Can /\ Effect /\ Goes(m, then)
  \/ Misses /\ Can /\ Effect /\ Throws(m, "lost")
  \/ Misses /\ UNCHANGED chain /\ Throws(m, "lost")
  \/ Comes /\ ~Can /\ UNCHANGED chain /\ Refused

\* The look: is there a village?
LooksForVillage(m) ==
  /\ maker[m].at = "village" /\ UNCHANGED chain
  /\ \/ Comes /\ Goes(m, IF village.exists THEN "enter" ELSE "open")
     \/ Misses /\ Throws(m, "lost")

OpensVillage(m) ==
  /\ maker[m].at = "open"
  /\ Sends(m, TRUE, InitializeVillage, "enter", FALSE)

\* A tab has drawn its id.  A seed begins to count at the village's count.
Enters(m) ==
  /\ maker[m].at = "enter" /\ UNCHANGED chain
  /\ \/ Comes /\ maker[m].kind = "tab" /\ Goes(m, "create")
     \/ Comes /\ maker[m].kind = "seed"
        /\ maker' = [maker EXCEPT ![m].at = "claim", ![m].id = village.count]
     \/ Misses /\ maker[m].kind = "seed" /\ Throws(m, "lost")

\* claimId: the next id that has no account, within so many looks.
ClaimsId(m) ==
  /\ maker[m].at = "claim" /\ maker[m].id \in Ids /\ UNCHANGED chain
  /\ \/ Comes /\ market[maker[m].id].maker = Nobody /\ Goes(m, "create")
     \/ Comes /\ market[maker[m].id].maker # Nobody
        /\ IF maker[m].looks + 1 < Lookups
           THEN maker' = [maker EXCEPT ![m].looks = @ + 1, ![m].id = @ + 1]
           ELSE Throws(m, "exhausted")
     \/ Misses /\ Throws(m, "lost")

\* isIdTaken: the seed claims another id, so many times; the tab ends.
IdTaken(m) ==
  IF maker[m].kind = "seed" /\ maker[m].tries < Attempts
  THEN maker' = [maker EXCEPT ![m].at = "claim", ![m].id = @ + 1, ![m].looks = 0,
                              ![m].tries = @ + 1]
  ELSE Throws(m, IF maker[m].kind = "seed" THEN "exhausted" ELSE "taken")

Creates(m) ==
  LET i == maker[m].id IN
  /\ maker[m].at = "create"
  /\ Sends(m, Creatable(i), CreateMarket(m, i), "shell", IdTaken(m))

\* A step that is a transaction about the maker's market.
Step(m, at, Can, Effect) ==
  /\ maker[m].at = at
  /\ Sends(m, Can, Effect, After(at), Throws(m, "refused"))

\* waitForAccount, for the market and for the secret: till they are there, or 30 s.
Awaits(m) ==
  /\ maker[m].at = "await" /\ UNCHANGED chain
  /\ \/ Comes /\ Delegated(maker[m].id) /\ Goes(m, After("await"))
     \/ Misses /\ Throws(m, "lost")

MakerStep(m) ==
  LET i == maker[m].id IN
  /\ UNCHANGED probe
  /\ \/ LooksForVillage(m) \/ OpensVillage(m) \/ Enters(m) \/ ClaimsId(m) \/ Creates(m)
     \/ Step(m, "shell", market[i].home = "L1" /\ secret[i].home = "none", CreateSecretShell(i))
     \/ Step(m, "delegate", market[i].home = "L1", DelegateMarket(i))
     \/ Step(m, "delegateSecret", secret[i].home = "L1", DelegateSecret(i))
     \/ Awaits(m)
     \/ Step(m, "marketPermission", market[i].home = "ER", InitMarketPermission(i))
     \/ Step(m, "permission", Delegated(i), InitSecretPermission(i))
     \/ Step(m, "seal", Delegated(i), SealSecret(m, i))

----------------------------------------------------------------------------
(* The stranger.                                                           *)

\* What a rollup without the filter says of an account: the account, if it is
\* there; of one that is on Solana, still or again, its copy or nothing.
Unfiltered(account) ==
  IF account.home = "ER" THEN {"data"}
  ELSE IF account.home = "none" THEN {"null"} ELSE {"data", "null"}

\* The query-filtering service, to a key that is not on the list.
Filtered(account) ==
  IF enforced /\ account.home = "ER" /\ account.permission = "private"
  THEN {"refusal"} ELSE Unfiltered(account)

\* The rows: what is asked, in order, the handshake for a token among them.
Rows == [challenge |-> <<"permission", "anon", "token", "stranger", "market", "control", "done">>,
         landing   |-> <<"token", "stranger", "control", "done">>]

\* expected: a refusal, or an answer.
Expected(row, reply) == (reply = "data") <=> row \in {"market", "control"}

Replies(row) ==
  CASE row = "market" -> Filtered(market[probe.id])
    [] row = "control" -> Unfiltered(secret[probe.id])
    [] OTHER -> Filtered(secret[probe.id])

Following == LET rows == Rows[probe.page]
             IN  rows[1 + CHOOSE n \in DOMAIN rows : rows[n] = probe.at]

\* The row is shown; the next one begins.
Shows(held, missed) ==
  probe' = [probe EXCEPT !.at = Following, !.missed = @ \/ missed,
                         !.held = IF held THEN @ \cup {probe.at} ELSE @]

Ends(at) == probe' = [probe EXCEPT !.at = at, !.missed = TRUE]

\* The candidates: every confession, sealed or not, that was not settled when the
\* page last looked.
StartsProbe ==
  /\ probe.at = "idle"
  /\ \E page \in DOMAIN Rows, i \in Ids :
       /\ market[i].maker # Nobody
       /\ probe' = [probe EXCEPT !.page = page, !.at = Rows[page][1], !.id = i,
                                 !.sealed = secret[i].text # Nobody]
  /\ Comes

\* Mutant: the row holds if the call is answered.
PermissionRead == TRUE

\* readPermission: the account of the permission is there.
PermissionExists == secret[probe.id].permission # "none"

AsksPermission ==
  /\ probe.at = "permission"
  /\ \/ Comes /\ Shows(PermissionExists, FALSE)
     \/ Misses /\ Shows(FALSE, TRUE)

\* getAuthToken: a keypair made for it, a challenge, a signature.  The challenge
\* page goes on to its control without; the landing page ends.
GetsToken ==
  /\ probe.at = "token"
  /\ \/ Comes /\ Shows(FALSE, FALSE)
     \/ Misses /\ Ends(IF probe.page = "challenge" THEN "control" ELSE "error")

\* A reply that is not the account counts as a refusal, be it an error of a proxy
\* (on the landing page, one in JSON).  A call that is rejected ends the landing
\* page's run, the rows of the token, or, out of any try, the challenge page's
\* run, which is then shown as running for ever.
AsksAccount ==
  /\ probe.at \in {"anon", "stranger", "market", "control"}
  /\ \/ Comes /\ \E reply \in Replies(probe.at) : Shows(Expected(probe.at, reply), FALSE)
     \/ Misses /\ Shows(Expected(probe.at, "error"), TRUE)
     \/ Misses /\ Ends(IF probe.page = "landing" THEN "error"
                       ELSE IF probe.at \in {"stranger", "market"} THEN "control" ELSE "running")

StrangerStep ==
  (StartsProbe \/ AsksPermission \/ GetsToken \/ AsksAccount) /\ UNCHANGED <<chain, maker>>

VillageNext ==
  /\ StrangerStep \/ (\E m \in Makers : MakerStep(m)) \/ (\E i \in Ids : GoesHome(i))
  /\ UNCHANGED enforced

VillageSpec == VillageInit /\ [][VillageNext]_villageVars

----------------------------------------------------------------------------
(* Properties.                                                             *)

\* No text is in an account that a service which enforces the member lists reads
\* out to a stranger, whichever calls of whichever maker were lost: seal_secret
\* does not ask for a permission (lib.rs:495), so this rests on the makers' order
\* and on every step that is not confirmed ending the flow (flows.ts:231-268,
\* seed.ts:442-474).
NoStrangerReads ==
  \A i \in Ids : enforced /\ secret[i].text # Nobody => "data" \notin Filtered(secret[i])

\* What the probes show is so, while a market may be made, or go home, between two
\* of them: if all five rows behave as the claim requires, the secret is private,
\* which a refusal alone does not show.  And of a secret that was sealed when they
\* began, if every call was answered, the rows that fail are the anonymous and the
\* stranger's if the service does not enforce the member list, and none if it does;
\* but for the market's, once it went home (challenge/page.tsx:96-217,
\* app/page.tsx:141-186).
ChallengeIsHonest ==
  probe.at = "done" =>
    LET all == {Rows[probe.page][n] : n \in DOMAIN Rows[probe.page]} \ {"token", "done"}
        gone == IF market[probe.id].home = "back" THEN {"market"} ELSE {} IN
    /\ probe.page = "challenge" /\ probe.held = all => secret[probe.id].permission = "private"
    /\ probe.sealed /\ ~probe.missed =>
         (all \ probe.held) \ gone = IF enforced THEN {} ELSE all \cap {"anon", "stranger"}

HasItsMarket(m) ==
  LET i == maker[m].id
  IN  /\ market[i].maker = m /\ market[i].home \in {"ER", "back"}
      /\ secret[i].home = "ER" /\ secret[i].permission = "private" /\ secret[i].text = m

FailedForAReason(m) ==
  LET others == {j \in Ids : market[j].maker \notin {m, Nobody}} IN
  \/ maker[m].why = "lost"
  \/ maker[m].why = "taken" /\ maker[m].id \in others
  \/ maker[m].why = "exhausted"
     /\ Cardinality(others) >= (IF Lookups < Attempts + 1 THEN Lookups ELSE Attempts + 1)

\* A maker that ends well has a market of its own that has been on the rollup, its
\* secret there, private and sealed with its own text, even if another drew the same
\* id or wound the count back; one that fails lost a call, drew an id somebody had,
\* or has counted past a market for each of its looks or tries (flows.ts:172-270,
\* seed.ts:390-409, 765-775).
MakersGetTheirMarkets ==
  \A m \in Makers : /\ maker[m].at = "done" => HasItsMarket(m)
                    /\ maker[m].at = "failed" => FailedForAReason(m)
=============================================================================
