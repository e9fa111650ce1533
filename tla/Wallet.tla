------------------------------- MODULE Wallet -------------------------------
(***************************************************************************)
(* The key a page acts with and what it shows of that key: the provider of *)
(* app/src/components/Providers.tsx on a local validator, the polls of     *)
(* app/src/hooks/useBackoffPoll.ts, and the purse of the market's page     *)
(* (app/src/app/market/[address]/page.tsx) with its fundPurse flow.        *)
(*                                                                         *)
(* Every callback keeps the key of the render it was made in, so an answer,*)
(* an airdrop or a flow may end long after the villager has switched.  An  *)
(* amount is "rich", a whole SOL or more, or "low"; a purse is the layer it*)
(* is on.  The effects of a render run with it.                            *)
(***************************************************************************)
EXTENDS Naturals, FiniteSets

CONSTANTS
  Burners,      \* keypairs this browser may generate
  Extension,    \* the key of a wallet extension
  NoKey,
  MaxTurns,     \* bound: things the villager does, on each page
  MaxOutages    \* bound: calls that fail

\* The provider is on every page, the purse on the market's.
Pages == {"market", "other"}

ASSUME WalletAssumption ==
  /\ NoKey \notin Burners /\ Extension \notin Burners /\ Extension # NoKey
  /\ MaxTurns \in [Pages -> Nat] /\ MaxOutages \in Nat

VARIABLES
  open,         \* the page on screen, or "none"
  mode,         \* "burner" or "wallet"
  burner,       \* the burner in state; NoKey before localStorage was read
  adapter,      \* the extension's key, if it is connected
  stored,       \* burners that were generated, the last one being in localStorage
  lamports,     \* what each key holds on Solana
  purse,        \* each key's purse
  readout,        \* the readouts, each with the key it was asked for
  call,         \* the reads under way
  airdropped,   \* the provider's flag
  drops,        \* airdrops under way, with whether the villager asked for them
  flow,         \* the fundPurse flow, with the key it was started with
  refused,      \* history: burners whose airdrop failed
  funded,       \* history: burners that held a SOL, or were sent some
  turns,
  outages

keyVars == <<mode, burner, adapter, stored>>
chainVars == <<lamports, purse>>
walletVars == <<open, keyVars, chainVars, readout, call, airdropped, drops, flow, refused, funded,
                turns, outages>>

Keys == Burners \cup {Extension}

\* What localStorage may hold, or the default.
Modes == {"burner", "wallet"}

\* The key the page acts with.
Signer == IF mode = "burner" THEN burner ELSE adapter

Readouts == {"balance", "purse"}

\* A poll for each, and the single reads that a flow and an airdrop end with.
Slots == {"balance poll", "purse poll", "flow's balance", "flow's purse", "airdrop's balance"}
Readout(s) == IF s \in {"purse poll", "flow's purse"} THEN "purse" ELSE "balance"

Quiet == [at |-> "idle", key |-> NoKey]
Asking(k) == [at |-> "ask", key |-> k]

Says(k, is) == [of |-> k, is |-> is]

WalletInit ==
  /\ open \in Pages \cup {"none"}
  /\ mode = "burner" /\ burner = NoKey /\ stored = {}
  /\ adapter = Extension
  /\ lamports \in [Keys -> {"low", "rich"}]
  /\ \A k \in Burners : lamports[k] = "rich" => k = CHOOSE b \in Burners : TRUE
  /\ purse = [k \in Keys |-> "none"]
  /\ readout = [r \in Readouts |-> IF r = "balance" THEN Says(NoKey, "low") ELSE Says(NoKey, "unknown")]
  /\ call = [s \in Slots |-> Quiet]
  /\ airdropped = FALSE
  /\ drops = {}
  /\ flow = Quiet
  /\ refused = {} /\ funded = {k \in Keys : lamports[k] = "rich"}
  /\ turns = 0 /\ outages = 0

Turns == turns < MaxTurns[open] /\ turns' = turns + 1 /\ UNCHANGED outages
Comes == UNCHANGED <<turns, outages>>
Misses == outages < MaxOutages /\ outages' = outages + 1 /\ UNCHANGED turns

----------------------------------------------------------------------------
(* The key.                                                                *)

\* The airdrop's effect, in a render with this balance and flag.
Wanted(balance, flag) == mode' = "burner" /\ Signer' # NoKey /\ ~flag /\ balance = "low"

AirdropEffect(balance, flag) ==
  /\ airdropped' = (flag \/ Wanted(balance, flag))
  /\ drops' = IF Wanted(balance, flag) THEN drops \cup {[key |-> Signer', asked |-> FALSE]} ELSE drops

\* A render with another key: the balance is forgotten, for the next render; the
\* airdrop's effect still sees it in this one.  The purse is not forgotten.
Rekeyed(flag) ==
  /\ AirdropEffect(readout["balance"].is, flag)
  /\ readout' = [readout EXCEPT !["balance"] = Says(Signer', "unknown")]
  /\ UNCHANGED <<open, chainVars, call, flow, refused, funded>>

\* The first effect: mode and burner out of localStorage, the burner made if it
\* is not there.  The balance in state is then still the initial zero.
Mounts ==
  /\ burner = NoKey
  /\ mode' \in Modes
  /\ burner' = (CHOOSE b \in Burners : TRUE) /\ stored' = {burner'}
  /\ UNCHANGED adapter
  /\ IF Signer' # NoKey THEN Rekeyed(FALSE)
     ELSE UNCHANGED <<open, chainVars, readout, call, airdropped, drops, flow, refused, funded>>
  /\ Comes

SetMode ==
  /\ burner # NoKey
  /\ mode' = (IF mode = "burner" THEN "wallet" ELSE "burner")
  /\ UNCHANGED <<burner, adapter, stored>>
  /\ Rekeyed(airdropped)
  /\ Turns

\* clearBurner, then loadOrCreateBurner: a key nobody has.
Generates == \E b \in Burners \ stored : burner' = b /\ stored' = stored \cup {b}

\* Mutant: the flag outlives the key it was set for.
NewBurnerFlagged == airdropped

\* newBurner: a key nobody has funded, which may be airdropped again.
NewBurnerFlag == FALSE

NewBurner ==
  /\ mode = "burner" /\ burner # NoKey
  /\ Generates
  /\ UNCHANGED <<mode, adapter>>
  /\ Rekeyed(NewBurnerFlag)
  /\ Turns

\* The extension is connected or disconnected, whether it is in use or not.
Reconnects ==
  /\ adapter' = (IF adapter = NoKey THEN Extension ELSE NoKey)
  /\ UNCHANGED <<mode, burner, stored>>
  /\ IF mode = "wallet" THEN Rekeyed(airdropped)
     ELSE UNCHANGED <<open, chainVars, readout, call, airdropped, drops, flow, refused, funded>>
  /\ Turns

----------------------------------------------------------------------------
(* Reads.                                                                  *)

\* Mutant: a poll goes on with the callback it was mounted with.
FirstCallback == NoKey

\* useBackoffPoll: a cycle runs the callback of the latest render.
LatestCallback == Signer

\* A poll is set when the one before is done; how long it waits is not modelled.
CycleBegins(s) ==
  /\ s \in IF open = "market" THEN {"balance poll", "purse poll"} ELSE {"balance poll"}
  /\ call[s].at = "idle"
  /\ call' = [call EXCEPT ![s] = Asking(LatestCallback)]
  /\ Comes
  /\ UNCHANGED <<open, keyVars, chainVars, readout, airdropped, drops, flow, refused, funded>>

\* The answer is readout whoever the page belongs to by now, and a balance that
\* changed runs the airdrop's effect again; of two keys it may be the same number.
Arrives(s, says) ==
  LET r == Readout(s) IN
  /\ UNCHANGED <<open, keyVars, chainVars, flow, refused, funded>>
  /\ call' = [call EXCEPT ![s] = Quiet]
  /\ readout' = [readout EXCEPT ![r] = says]
  /\ IF r = "balance" /\ says.is # readout[r].is THEN AirdropEffect(says.is, airdropped)
     ELSE \/ UNCHANGED <<airdropped, drops>>
          \/ r = "balance" /\ says.of # readout[r].of /\ AirdropEffect(says.is, airdropped)

\* refresh.  Without a key the balance is zero; without an answer it is unknown.
BalanceRead(s) ==
  LET k == call[s].key IN
  /\ Readout(s) = "balance" /\ call[s].at = "ask"
  /\ \/ Comes /\ Arrives(s, Says(k, IF k = NoKey THEN "low" ELSE lamports[k]))
     \/ k # NoKey /\ Misses /\ Arrives(s, Says(k, "unknown"))

\* The purse: nothing is asked without a key, and by the poll nothing is set.
PurseUnasked(s) ==
  /\ Readout(s) = "purse" /\ call[s].at = "ask" /\ call[s].key = NoKey
  /\ Comes
  /\ Arrives(s, IF s = "purse poll" THEN readout["purse"] ELSE Says(NoKey, "unknown"))

\* readPurse: the rollup first, then Solana, where a delegated purse is not ours.
PurseRead(s) ==
  LET k == call[s].key IN
  /\ Readout(s) = "purse" /\ call[s].at # "idle" /\ k # NoKey
  /\ \/ /\ call[s].at = "ask" /\ Comes
        /\ IF purse[k] = "ER" THEN Arrives(s, Says(k, "ER"))
           ELSE /\ call' = [call EXCEPT ![s].at = "base"]
                /\ UNCHANGED <<open, keyVars, chainVars, readout, airdropped, drops, flow, refused,
                               funded>>
     \/ /\ call[s].at = "base" /\ Comes
        /\ Arrives(s, Says(k, IF purse[k] = "L1" THEN "L1" ELSE "none"))
     \/ Misses /\ Arrives(s, Says(k, "unknown"))

CallStep(s) == BalanceRead(s) \/ PurseUnasked(s) \/ PurseRead(s)

----------------------------------------------------------------------------
(* Airdrops and the flow.                                                  *)

\* The button beside the balance.
AsksAirdrop ==
  /\ Signer # NoKey /\ mode = "burner"
  /\ \A drop \in drops : ~drop.asked
  /\ drops' = drops \cup {[key |-> Signer, asked |-> TRUE]}
  /\ Turns
  /\ UNCHANGED <<open, keyVars, chainVars, readout, call, airdropped, flow, refused, funded>>

\* Confirmed: then the balance of the key it was for is read.  Or not confirmed,
\* whether the lamports came or not; only the effect's own airdrop lowers the flag,
\* which runs no effect.
AirdropEnds(drop) ==
  /\ drops' = drops \ {drop}
  /\ \/ /\ Comes
        /\ call["airdrop's balance"].at = "idle"
        /\ call' = [call EXCEPT !["airdrop's balance"] = Asking(drop.key)]
        /\ lamports' = [lamports EXCEPT ![drop.key] = "rich"]
        /\ funded' = funded \cup {drop.key}
        /\ UNCHANGED <<airdropped, refused>>
     \/ /\ Misses
        /\ lamports' \in {lamports, [lamports EXCEPT ![drop.key] = "rich"]}
        /\ airdropped' = (airdropped /\ drop.asked)
        /\ refused' = refused \cup {drop.key}
        /\ UNCHANGED <<call, funded>>
  /\ UNCHANGED <<open, keyVars, purse, readout, flow>>

FlowStarts ==
  /\ open = "market" /\ Signer # NoKey /\ flow.at = "idle"
  /\ flow' = [at |-> "look", key |-> Signer]
  /\ Turns
  /\ UNCHANGED <<open, keyVars, chainVars, readout, call, airdropped, drops, refused, funded>>

\* startFlow's end, on success or failure: both readouts are read with the key
\* of the render in which the flow was started.
FlowEnds ==
  /\ call["flow's balance"].at = "idle" /\ call["flow's purse"].at = "idle"
  /\ flow' = Quiet
  /\ call' = [call EXCEPT !["flow's balance"] = Asking(flow.key),
                          !["flow's purse"] = Asking(flow.key)]

FlowGoes(at) == flow' = [flow EXCEPT !.at = at] /\ UNCHANGED call

\* fundPurse: a purse that is on the rollup is not topped up; a deposit, a
\* delegation, each with its wait.  A key with little may not have enough.
FundPurse ==
  LET k == flow.key IN
  /\ \/ /\ Comes /\ flow.at = "look" /\ UNCHANGED chainVars
        /\ IF purse[k] = "ER" THEN FlowEnds ELSE FlowGoes("deposit")
     \/ /\ Comes /\ flow.at = "deposit"
        /\ \/ /\ purse' = [purse EXCEPT ![k] = "L1"]
              /\ lamports' \in {lamports, [lamports EXCEPT ![k] = "low"]}
              /\ FlowGoes("delegate")
           \/ lamports[k] = "low" /\ UNCHANGED chainVars /\ FlowEnds
     \/ /\ Comes /\ flow.at = "delegate"
        /\ purse' = [purse EXCEPT ![k] = "ER"] /\ UNCHANGED lamports
        /\ FlowEnds
     \/ flow.at # "idle" /\ Misses /\ UNCHANGED chainVars /\ FlowEnds
  /\ UNCHANGED <<open, keyVars, readout, airdropped, drops, refused, funded>>

WalletStep ==
  \/ Mounts \/ SetMode \/ NewBurner \/ Reconnects \/ AsksAirdrop \/ FlowStarts
  \/ \E s \in Slots : CycleBegins(s) \/ CallStep(s)
  \/ \E drop \in drops : AirdropEnds(drop)
  \/ FundPurse

Open == open # "none"

WalletNext == Open /\ WalletStep

\* Timers fire and calls come back or fail, finitely often.  Nothing is expected
\* of the villager.
WalletFairness ==
  /\ WF_walletVars(Open /\ Mounts)
  /\ \A s \in Slots : WF_walletVars(Open /\ CycleBegins(s)) /\ WF_walletVars(Open /\ CallStep(s))
  /\ \A k \in Burners, asked \in BOOLEAN :
       LET drop == [key |-> k, asked |-> asked]
       IN  SF_walletVars(Open /\ drop \in drops /\ AirdropEnds(drop))
  /\ WF_walletVars(Open /\ FundPurse)

WalletSpec == WalletInit /\ [][WalletNext]_walletVars /\ WalletFairness

----------------------------------------------------------------------------
(* Properties.                                                             *)

\* Whatever key an answer was asked for, and however late it lands on a page that
\* has moved on to another, the readouts come to say what the chain says of the
\* key in use, and go on saying it (Providers.tsx:150-164, useBackoffPoll.ts).
\* Without a key the purse's readout is left as it was.
ReadoutsSettle ==
  <>[](Open /\ Signer # NoKey =>
         /\ readout["balance"] = Says(Signer, lamports[Signer])
         /\ open = "market" => readout["purse"] = Says(Signer, purse[Signer]))

\* A burner that stays in use is sent its first lamports, though the balance readout
\* when it came was another key's and that key's airdrop may end after it: unless
\* its own airdrop failed (Providers.tsx:144-148, 176-184).
BurnersAreFunded ==
  \A k \in Burners :
    (Open /\ Signer = k) ~> (k \in funded \cup refused \/ Signer # k)
=============================================================================
