------------------------------ MODULE Session -------------------------------
(***************************************************************************)
(* Session keys on one market.  On the rollup, a villager's SessionScope   *)
(* lets one key bid for them up to a ceiling until it expires or is revoked*)
(* (lib.rs, open_session, revoke_session, place_bid_with_session).  In the *)
(* browser, the keys are kept in localStorage, which the tabs share, and   *)
(* each tab holds one in its page's state (app/src/lib/session.ts,         *)
(* app/src/app/market/[address]/page.tsx).  A tab's flow waits for the     *)
(* rollup between its steps, while the villager may switch to another of   *)
(* their keys and another tab may go on.                                   *)
(*                                                                         *)
(* Bidders are the villagers whose keys this browser holds.  A session key *)
(* is a number, given out when it is generated; 0 is no key.               *)
(***************************************************************************)
EXTENDS Market

CONSTANTS
  Tabs,       \* tabs of one browser, open on the market's page
  Ceilings,   \* max_spend values a villager may ask for
  MinTtl,     \* the shortest session the page asks for
  MaxKeys,    \* bound: session keys generated
  MaxTurns    \* bound: switches of wallet, reloads and failures

ASSUME SessionAssumption ==
  /\ Ceilings \subseteq Nat
  /\ MinTtl \in Nat \ {0}
  /\ MaxKeys \in Nat
  /\ MaxTurns \in Nat

VARIABLES
  scope,      \* the SessionScope account of each villager on this market
  store,      \* localStorage: the session row of each villager
  tab,        \* each tab's wallet, session in state, and flow under way
  generated,  \* how many session keys have been generated
  turns,      \* how often the villager or the network has turned away from a flow
  grant,      \* history: what each key was granted, and whether it still is
  signed      \* history: the session key that signed each villager's bid

sessionVars == <<scope, store, tab, generated, turns, grant, signed>>
allVars == <<vars, sessionVars>>

Keys == 0..MaxKeys

ScopeRecord ==
  [exists : BOOLEAN, session_key : Keys, expires_at : Nat, max_spend : Nat,
   spent : Nat, revoked : BOOLEAN]

Row == [key : Keys, expires_at : Nat]
NoRow == [key |-> 0, expires_at |-> 0]

\* The last four fields are what the flow under way captured when it started.
TabRecord ==
  [wallet : Bidders, session : Keys,
   flow : {"idle", "open", "store", "revoke", "forget", "bid", "hide"},
   owner : Bidders, key : Keys, ttl : Nat, max_spend : Nat]

Page(b, session) ==
  [wallet |-> b, session |-> session, flow |-> "idle",
   owner |-> b, key |-> 0, ttl |-> 0, max_spend |-> 0]

SessionInit ==
  /\ scope = [b \in Bidders |-> [exists |-> FALSE, session_key |-> 0, expires_at |-> 0,
                                 max_spend |-> 0, spent |-> 0, revoked |-> FALSE]]
  /\ store = [b \in Bidders |-> NoRow]
  /\ \E b \in Bidders : tab = [t \in Tabs |-> Page(b, 0)]
  /\ generated = 0
  /\ turns = 0
  /\ grant = [k \in Keys |-> [owner |-> Nobody, max_spend |-> 0, dead |-> FALSE]]
  /\ signed = [b \in Bidders |-> 0]

----------------------------------------------------------------------------
(* On the rollup.                                                          *)

\* Every key the villager was granted before is of no use from here on.
Bury(b) == [k \in Keys |-> IF grant[k].owner = b THEN [grant[k] EXCEPT !.dead = TRUE] ELSE grant[k]]

\* Mutant: what an earlier session spent is kept.
NewScopeKeepsSpent(b, key, ttl, max_spend) ==
  [exists |-> TRUE, session_key |-> key, expires_at |-> now + ttl,
   max_spend |-> max_spend, spent |-> scope[b].spent, revoked |-> FALSE]

NewScope(b, key, ttl, max_spend) ==
  [exists |-> TRUE, session_key |-> key, expires_at |-> now + ttl,
   max_spend |-> max_spend, spent |-> 0, revoked |-> FALSE]

\* open_session: a second call writes over the first.
OpenSession(b, key, ttl, max_spend) ==
  /\ ttl > 0
  /\ max_spend > 0
  /\ scope' = [scope EXCEPT ![b] = NewScope(b, key, ttl, max_spend)]
  /\ grant' = [Bury(b) EXCEPT ![key] = [owner |-> b, max_spend |-> max_spend, dead |-> FALSE]]

RevokeSession(b) ==
  /\ scope[b].exists
  /\ scope' = [scope EXCEPT ![b].revoked = TRUE]
  /\ grant' = Bury(b)

\* Mutant: revocation is not looked at.
IsValidUnrevoked(s, key) == s.exists /\ s.session_key = key /\ now < s.expires_at

\* SessionScope::is_valid; there is one market.
IsValid(s, key) == s.exists /\ ~s.revoked /\ s.session_key = key /\ now < s.expires_at

\* Mutant: the scope is looked up by the key that signs, not by the bidder.
ScopeAddressByKey(b, key) ==
  IF \E o \in Bidders : scope[o].session_key = key
  THEN CHOOSE o \in Bidders : scope[o].session_key = key ELSE b

\* The session account is the one at the bidder's address.
ScopeAddress(b, key) == b

\* charge_session.
ChargeSession(b, key, amount) ==
  LET o == ScopeAddress(b, key)
      spent == scope[o].spent + amount
  IN  /\ IsValid(scope[o], key)
      /\ spent <= scope[o].max_spend
      /\ scope' = [scope EXCEPT ![o].spent = spent]

\* place_bid_with_session, and fund_bid in the same transaction.
PlaceBidWithSession(b, key, side, amount) ==
  /\ ChargeSession(b, key, amount)
  /\ PlaceAndFund(b, side, amount)
  /\ signed' = [signed EXCEPT ![b] = key]

----------------------------------------------------------------------------
(* In the browser.                                                         *)

\* loadSession: a row that has run out is not returned.
LoadSession(b) == IF store[b].expires_at < now THEN 0 ELSE store[b].key

Idle(t) == tab[t].flow = "idle"

\* canBid, where it does not look at polled accounts, which may be old.
CanBid(t) == Idle(t) /\ now < Duration

Flow(t, step) == tab' = [tab EXCEPT ![t].flow = step]

Turn == turns < MaxTurns /\ turns' = turns + 1

\* The flow is over, and leaves the page with this session.
Ends(t, session) == tab' = [tab EXCEPT ![t] = Page(tab[t].wallet, session)]

\* The villager switches the tab to another of their keys; the page's effect looks
\* up that key's session.  A flow under way is not stopped.
SwitchWallet(t, b) ==
  /\ Turn
  /\ tab[t].wallet # b
  /\ tab' = [tab EXCEPT ![t].wallet = b, ![t].session = LoadSession(b)]
  /\ UNCHANGED <<vars, scope, store, generated, grant, signed>>

\* The page is loaded anew; a flow under way is lost.
Reload(t) ==
  /\ Turn
  /\ Ends(t, LoadSession(tab[t].wallet))
  /\ UNCHANGED <<vars, scope, store, generated, grant, signed>>

\* openSession: the key is generated, and fuelled on Solana.
ClickOpen(t, max_spend) ==
  /\ CanBid(t) /\ tab[t].session = 0
  /\ generated < MaxKeys
  /\ generated' = generated + 1
  /\ tab' = [tab EXCEPT ![t].flow = "open", ![t].owner = tab[t].wallet,
                        ![t].key = generated', ![t].max_spend = max_spend,
                        ![t].ttl = IF Duration - now > MinTtl THEN Duration - now ELSE MinTtl]
  /\ UNCHANGED <<vars, scope, store, turns, grant, signed>>

OpenLands(t) ==
  /\ tab[t].flow = "open"
  /\ OpenSession(tab[t].owner, tab[t].key, tab[t].ttl, tab[t].max_spend)
  /\ tab' = [tab EXCEPT ![t].flow = "store", ![t].max_spend = 0]
  /\ UNCHANGED <<vars, store, generated, turns, signed>>

\* Mutant: sessions are kept under the market alone, as KEY's first version had it.
SlotOfMarket(b) == CHOOSE o \in Bidders : TRUE

Slot(b) == b

\* openSession once it is confirmed: the row is stored by the browser's clock, and
\* the page takes the session up, whoever the tab's key is by now.
Stores(t) ==
  /\ tab[t].flow = "store"
  /\ store' = [store EXCEPT ![Slot(tab[t].owner)] =
                 [key |-> tab[t].key, expires_at |-> now + tab[t].ttl]]
  /\ Ends(t, tab[t].key)
  /\ UNCHANGED <<vars, scope, generated, turns, grant, signed>>

ClickRevoke(t) ==
  /\ Idle(t) /\ tab[t].session # 0
  /\ tab' = [tab EXCEPT ![t].flow = "revoke", ![t].owner = tab[t].wallet]
  /\ UNCHANGED <<vars, scope, store, generated, turns, grant, signed>>

RevokeLands(t) ==
  /\ tab[t].flow = "revoke"
  /\ RevokeSession(tab[t].owner)
  /\ Flow(t, "forget")
  /\ UNCHANGED <<vars, store, generated, turns, signed>>

\* forgetSession and the page's setSession(null).
Forget(t) ==
  /\ store' = [store EXCEPT ![Slot(tab[t].owner)] = NoRow]
  /\ Ends(t, 0)
  /\ UNCHANGED <<vars, scope, generated, grant, signed>>

RevokeEnds(t) == tab[t].flow = "forget" /\ Forget(t) /\ UNCHANGED turns

\* onBid: the session in state signs, or the wallet where there is none.
ClickBid(t) ==
  /\ CanBid(t)
  /\ tab' = [tab EXCEPT ![t].flow = "bid", ![t].owner = tab[t].wallet,
                        ![t].key = tab[t].session]
  /\ UNCHANGED <<vars, scope, store, generated, turns, grant, signed>>

BidLands(t, side, amount) ==
  /\ tab[t].flow = "bid"
  /\ \/ /\ tab[t].key # 0
        /\ PlaceBidWithSession(tab[t].owner, tab[t].key, side, amount)
     \/ /\ tab[t].key = 0
        /\ PlaceAndFund(tab[t].owner, side, amount)
        /\ UNCHANGED <<scope, signed>>
  /\ Flow(t, "hide")
  /\ UNCHANGED <<store, generated, turns, grant>>

PermissionLands(t) ==
  /\ tab[t].flow = "hide"
  /\ InitBidPermission(tab[t].owner)
  /\ Ends(t, tab[t].session)
  /\ UNCHANGED <<scope, store, generated, turns, grant, signed>>

\* Any call may be refused, or fail on its way there or back.  A bid that its session
\* signs and that fails, in either of its transactions, costs the browser the session.
BidFails(t) == tab[t].flow \in {"bid", "hide"} /\ tab[t].key # 0 /\ Forget(t) /\ Turn

\* Any other flow just stops.
FlowFails(t) ==
  /\ Turn
  /\ \/ tab[t].flow \in {"open", "store", "revoke", "forget"}
     \/ tab[t].flow \in {"bid", "hide"} /\ tab[t].key = 0
  /\ Ends(t, tab[t].session)
  /\ UNCHANGED <<vars, scope, store, generated, grant, signed>>

TabStep(t) ==
  \/ \E b \in Bidders : SwitchWallet(t, b)
  \/ Reload(t)
  \/ \E c \in Ceilings : ClickOpen(t, c)
  \/ OpenLands(t)
  \/ Stores(t)
  \/ ClickRevoke(t)
  \/ RevokeLands(t)
  \/ RevokeEnds(t)
  \/ ClickBid(t)
  \/ \E side \in Sides, amount \in Amounts : BidLands(t, side, amount)
  \/ PermissionLands(t)
  \/ BidFails(t)
  \/ FlowFails(t)

SessionNext ==
  \/ \E t \in Tabs : TabStep(t)
  \/ (Tick \/ ExpireMarket) /\ UNCHANGED sessionVars

\* The villagers have filled their purses and delegated them before they come.
FundedSessionInit ==
  /\ MarketInit
  /\ wallet = [b \in Bidders |-> 0]
  /\ purse = [b \in Bidders |-> [available |-> Funds, locked |-> 0, layer |-> "ER"]]
  /\ SessionInit

SessionSpec == FundedSessionInit /\ [][SessionNext]_allVars

----------------------------------------------------------------------------
(* Properties.                                                             *)

SessionTypeOK ==
  /\ scope \in [Bidders -> ScopeRecord]
  /\ store \in [Bidders -> Row]
  /\ tab \in [Tabs -> TabRecord]
  /\ generated \in Keys
  /\ turns \in 0..MaxTurns
  /\ grant \in [Keys -> [owner : Bidders \cup {Nobody}, max_spend : Nat, dead : BOOLEAN]]
  /\ signed \in [Bidders -> Keys]

\* A key bids for the villager who granted it and for no other, and no more than
\* they consented to when they did, whatever has been granted or revoked since, in
\* whichever tab (charge_session, session.ts:13-15).
KeyBidsAsGranted ==
  \A b \in Bidders :
    signed[b] # 0 => /\ grant[signed[b]].owner = b
                     /\ bids[b].amount <= grant[signed[b]].max_spend

\* What a scope says was spent is what its present key has bid: opening a session
\* again starts from nothing, and a refused bid costs nothing (open_session,
\* charge_session).
SpentIsWhatWasBid ==
  \A b \in Bidders :
    scope[b].spent = IF scope[b].exists /\ signed[b] = scope[b].session_key
                     THEN bids[b].amount ELSE 0

\* Once it is revoked, or a session opened after it, a key places no bid, though a
\* tab still holds it or had already begun the bid (revoke_session, open_session).
DeadKeysPlaceNoBid ==
  [][\A b \in Bidders : signed'[b] # signed[b] => ~grant[signed'[b]].dead]_allVars

\* What the browser keeps for a villager is a key that this villager granted,
\* although flows of two keys and two tabs write the same storage (session.ts:36-43,
\* openSession stores a key only once the rollup has it).
StoredKeysAreGranted ==
  \A b \in Bidders : store[b].key # 0 => grant[store[b].key].owner = b

----------------------------------------------------------------------------
(* A statement of the documentation that the code does not keep.           *)

\* page.tsx:167 of app/market/[address]: "swapping keys has to re-evaluate, or the
\* previous owner's session stays in state and gets offered to somebody it does
\* not belong to".
OfferedSessionIsOwn ==
  \A t \in Tabs : tab[t].session # 0 => grant[tab[t].session].owner = tab[t].wallet
=============================================================================
