--------------------------- MODULE SessionProofs ---------------------------
(***************************************************************************)
(* Proofs about module Session: a session key bids for the villager who    *)
(* granted it, within what they granted, and while they do, for every      *)
(* number of villagers, tabs, keys, switches and failures.                 *)
(***************************************************************************)
EXTENDS Session, MarketMoney

----------------------------------------------------------------------------
(* What holds between the keys, the scopes, the tabs and the bids.         *)

\* A scope holds a key that its villager granted, as they granted it.
ScopeIsGranted(b) ==
  scope[b].exists =>
    /\ scope[b].session_key # 0
    /\ grant[scope[b].session_key] =
         [owner |-> b, max_spend |-> scope[b].max_spend, dead |-> scope[b].revoked]

\* A key that is not granted yet is on its way in one tab, or not generated.
KeysAreFresh ==
  /\ \A k \in Keys : k = 0 \/ k > generated => grant[k].owner = Nobody
  /\ \A t \in Tabs : tab[t].flow = "open" =>
       /\ tab[t].key # 0 /\ tab[t].key <= generated
       /\ grant[tab[t].key].owner = Nobody
  /\ \A t, u \in Tabs :
       tab[t].flow = "open" /\ tab[u].flow = "open" /\ tab[t].key = tab[u].key => t = u

\* A key that is about to be stored is the owner's.
AboutToStore(t) ==
  tab[t].flow = "store" => grant[tab[t].key].owner = tab[t].owner

\* A session's bid is in the book, where no bid is placed over it.
SignedIsPlaced(b) == signed[b] # 0 => bids[b].account = "open"

SessionInvariant ==
  /\ LooseTypeOK /\ SessionTypeOK
  /\ \A b \in Bidders : ScopeIsGranted(b) /\ SignedIsPlaced(b)
  /\ KeysAreFresh
  /\ \A t \in Tabs : AboutToStore(t)
  /\ KeyBidsAsGranted
  /\ SpentIsWhatWasBid
  /\ StoredKeysAreGranted

----------------------------------------------------------------------------
(* The book, under the steps of a tab.                                     *)

\* The other steps of the book here leave stakes alone, and bids where they are.
LEMMA BookKeepsBids ==
  ASSUME LooseTypeOK,
         Tick \/ ExpireMarket \/ UNCHANGED vars \/ \E b \in Bidders : InitBidPermission(b)
  PROVE  /\ LooseTypeOK'
         /\ \A c \in Bidders : bids'[c].account = bids[c].account /\ bids'[c].amount = bids[c].amount
<1>1. LooseTypeOK'
  BY LooseStep DEF Next, VerdictStep, BidStep
<1>2. CASE Tick \/ ExpireMarket \/ UNCHANGED vars
  BY <1>1, <1>2 DEF Tick, ExpireMarket, vars, marketVars
<1>3. ASSUME NEW b \in Bidders, InitBidPermission(b)
      PROVE  \A c \in Bidders : bids'[c].account = bids[c].account /\ bids'[c].amount = bids[c].amount
  BY <1>3 DEF InitBidPermission, LooseTypeOK, LooseBidRecord
<1> QED
  BY <1>1, <1>2, <1>3

----------------------------------------------------------------------------
(* The browser.                                                            *)

\* A tab, also one that has just been loaded, has keys there are and a flow at rest.
LEMMA TabRecords ==
  ASSUME SessionTypeOK, NEW t \in Tabs
  PROVE  /\ tab[t] \in TabRecord
         /\ \A b \in Bidders, k \in Keys : Page(b, k) \in TabRecord /\ Page(b, k).flow = "idle"
         /\ \A b \in Bidders : LoadSession(b) \in Keys
         /\ 0 \in Keys
<1>1. 0 \in Keys
  BY SessionAssumption DEF Keys
<1> QED
  BY <1>1 DEF SessionTypeOK, TabRecord, Page, LoadSession, Row

\* What a tab's record must be for the tabs still to agree, the grants being what
\* they were: it is not at a step with a key, or at the same with the same key.
Harmless(t, e) ==
  \/ e.flow \notin {"open", "store"}
  \/ e.flow = tab[t].flow /\ e.key = tab[t].key /\ e.owner = tab[t].owner

\* A harmless step of one tab, whatever is granted or revoked for its owner.
LEMMA TabsAgree ==
  ASSUME SessionInvariant, NEW t \in Tabs, NEW e \in TabRecord, Harmless(t, e),
         tab' = [tab EXCEPT ![t] = e], generated' = generated,
         \A k \in Keys : grant'[k].owner = grant[k].owner
  PROVE  /\ tab' \in [Tabs -> TabRecord]
         /\ KeysAreFresh'
         /\ \A u \in Tabs : AboutToStore(u)'
<1>1. tab' \in [Tabs -> TabRecord] /\ tab'[t] = e /\ \A u \in Tabs \ {t} : tab'[u] = tab[u]
  BY DEF SessionInvariant, SessionTypeOK
<1>2. \A u \in Tabs :
        \/ tab'[u].flow \notin {"open", "store"}
        \/ tab'[u].flow = tab[u].flow /\ tab'[u].key = tab[u].key /\ tab'[u].owner = tab[u].owner
  BY <1>1 DEF Harmless
<1>3. \A u \in Tabs : tab'[u].key \in Keys
  BY <1>1 DEF TabRecord
<1>4. KeysAreFresh'
  BY <1>2, <1>3 DEF SessionInvariant, KeysAreFresh
<1>5. \A u \in Tabs : AboutToStore(u)'
  BY <1>2, <1>3 DEF SessionInvariant, AboutToStore
<1> QED
  BY <1>1, <1>4, <1>5

\* What the scopes, the storage and the bids say, when nothing of it changes but
\* where a bid's permission and the clock are.
LEMMA ChainKeeps ==
  ASSUME SessionInvariant, UNCHANGED <<scope, grant, signed>>,
         \A c \in Bidders : bids'[c].account = bids[c].account /\ bids'[c].amount = bids[c].amount
  PROVE  /\ (\A b \in Bidders : ScopeIsGranted(b) /\ SignedIsPlaced(b))'
         /\ KeyBidsAsGranted' /\ SpentIsWhatWasBid'
BY DEF SessionInvariant, ScopeIsGranted, SignedIsPlaced, KeyBidsAsGranted, SpentIsWhatWasBid

\* A step of one tab that the rollup does not see, or sees as a permission.
LEMMA TabKeeps ==
  ASSUME SessionInvariant, NEW t \in Tabs, NEW e \in TabRecord, Harmless(t, e),
         tab' = [tab EXCEPT ![t] = e], turns' \in 0..MaxTurns,
         UNCHANGED <<scope, generated, grant, signed>>,
         store' \in [Bidders -> Row], StoredKeysAreGranted',
         UNCHANGED vars \/ \E b \in Bidders : InitBidPermission(b)
  PROVE  SessionInvariant'
<1>1. /\ tab' \in [Tabs -> TabRecord] /\ KeysAreFresh' /\ \A u \in Tabs : AboutToStore(u)'
  BY TabsAgree
<1>2. SessionTypeOK'
  BY <1>1 DEF SessionInvariant, SessionTypeOK
<1>3. LooseTypeOK' /\ \A c \in Bidders : bids'[c].account = bids[c].account
                                       /\ bids'[c].amount = bids[c].amount
  BY BookKeepsBids DEF SessionInvariant
<1>4. /\ (\A b \in Bidders : ScopeIsGranted(b) /\ SignedIsPlaced(b))'
      /\ KeyBidsAsGranted' /\ SpentIsWhatWasBid'
  BY <1>3, ChainKeeps
<1> QED
  BY <1>1, <1>2, <1>3, <1>4 DEF SessionInvariant

\* The storage keeps what it has.
LEMMA StoreStays ==
  ASSUME SessionInvariant, store' = store, grant' = grant
  PROVE  store' \in [Bidders -> Row] /\ StoredKeysAreGranted'
BY DEF SessionInvariant, SessionTypeOK, StoredKeysAreGranted

\* The steps of a tab that only it sees.
LEMMA LookingStepsKeep ==
  ASSUME SessionInvariant, NEW t \in Tabs,
         \/ \E b \in Bidders : SwitchWallet(t, b)
         \/ Reload(t) \/ ClickRevoke(t) \/ ClickBid(t) \/ FlowFails(t)
  PROVE  SessionInvariant'
<1>1. /\ SessionTypeOK /\ tab[t] \in TabRecord /\ tab[t].wallet \in Bidders
      /\ tab[t].session \in Keys /\ turns \in 0..MaxTurns
      /\ \A b \in Bidders : LoadSession(b) \in Keys
  BY TabRecords DEF SessionInvariant, SessionTypeOK, TabRecord
<1>2. store' \in [Bidders -> Row] /\ StoredKeysAreGranted'
  BY StoreStays DEF SwitchWallet, Reload, ClickRevoke, ClickBid, FlowFails
<1>3. turns' \in 0..MaxTurns
  <2>1. turns' = turns \/ (turns < MaxTurns /\ turns' = turns + 1)
    BY DEF Turn, SwitchWallet, Reload, ClickRevoke, ClickBid, FlowFails
  <2> QED
    BY <1>1, <2>1, SessionAssumption
<1>4. ASSUME NEW b \in Bidders, SwitchWallet(t, b)
      PROVE  SessionInvariant'
  <2> DEFINE e == [tab[t] EXCEPT !.wallet = b, !.session = LoadSession(b)]
  <2>1. e \in TabRecord /\ e.flow = tab[t].flow /\ e.key = tab[t].key /\ e.owner = tab[t].owner
    BY <1>1 DEF TabRecord
  <2>2. tab' = [tab EXCEPT ![t] = e]
    BY <1>4 DEF SwitchWallet
  <2> HIDE DEF e
  <2> QED
    BY <1>2, <1>3, <1>4, <2>1, <2>2, TabKeeps DEF SwitchWallet, Harmless
<1>5. ASSUME NEW k \in Keys, Ends(t, k), Reload(t) \/ FlowFails(t)
      PROVE  SessionInvariant'
  <2>1. Page(tab[t].wallet, k) \in TabRecord /\ Page(tab[t].wallet, k).flow = "idle"
    BY <1>1, TabRecords
  <2>2. tab' = [tab EXCEPT ![t] = Page(tab[t].wallet, k)]
    BY <1>5 DEF Ends
  <2> QED
    BY <1>2, <1>3, <1>5, <2>1, <2>2, TabKeeps DEF Reload, FlowFails, Harmless
<1>6. CASE ClickRevoke(t)
  <2> DEFINE e == [tab[t] EXCEPT !.flow = "revoke", !.owner = tab[t].wallet]
  <2>1. e \in TabRecord /\ e.flow = "revoke"
    BY <1>1 DEF TabRecord
  <2>2. tab' = [tab EXCEPT ![t] = e]
    BY <1>6 DEF ClickRevoke
  <2> HIDE DEF e
  <2> QED
    BY <1>2, <1>3, <1>6, <2>1, <2>2, TabKeeps DEF ClickRevoke, Harmless
<1>7. CASE ClickBid(t)
  <2> DEFINE e == [tab[t] EXCEPT !.flow = "bid", !.owner = tab[t].wallet, !.key = tab[t].session]
  <2>1. e \in TabRecord /\ e.flow = "bid"
    BY <1>1 DEF TabRecord
  <2>2. tab' = [tab EXCEPT ![t] = e]
    BY <1>7 DEF ClickBid
  <2> HIDE DEF e
  <2> QED
    BY <1>2, <1>3, <1>7, <2>1, <2>2, TabKeeps DEF ClickBid, Harmless
<1> QED
  BY <1>1, <1>4, <1>5, <1>6, <1>7 DEF Reload, FlowFails

\* The storage is written for one villager: with a key of theirs, or with none.
LEMMA StoreRow ==
  ASSUME SessionInvariant, NEW b \in Bidders, NEW row \in Row, grant' = grant,
         store' = [store EXCEPT ![b] = row], row.key = 0 \/ grant[row.key].owner = b
  PROVE  store' \in [Bidders -> Row] /\ StoredKeysAreGranted'
BY DEF SessionInvariant, SessionTypeOK, StoredKeysAreGranted

\* A flow that stores its key stores one that its own villager granted.
LEMMA StoresKeeps ==
  ASSUME SessionInvariant, NEW t \in Tabs, Stores(t)
  PROVE  SessionInvariant'
<1> DEFINE row == [key |-> tab[t].key, expires_at |-> now + tab[t].ttl]
           e == Page(tab[t].wallet, tab[t].key)
<1>1. /\ SessionTypeOK /\ tab[t] \in TabRecord /\ now \in Nat /\ turns \in 0..MaxTurns
  BY TabRecords DEF SessionInvariant, SessionTypeOK, LooseTypeOK
<1>2. /\ tab[t].wallet \in Bidders /\ tab[t].owner \in Bidders /\ tab[t].key \in Keys
      /\ tab[t].ttl \in Nat
  BY <1>1 DEF TabRecord
<1>3. row \in Row /\ row.key = tab[t].key
  BY <1>1, <1>2 DEF Row
<1>4. grant[tab[t].key].owner = tab[t].owner
  BY DEF SessionInvariant, AboutToStore, Stores
<1>5. store' = [store EXCEPT ![tab[t].owner] = row]
  BY DEF Stores, Slot
<1> HIDE DEF row
<1>6. store' \in [Bidders -> Row] /\ StoredKeysAreGranted'
  BY <1>2, <1>3, <1>4, <1>5, StoreRow DEF Stores
<1>7. e \in TabRecord /\ e.flow = "idle" /\ tab' = [tab EXCEPT ![t] = e]
  BY <1>1, <1>2, TabRecords DEF Stores, Ends
<1> HIDE DEF e
<1> QED
  BY <1>1, <1>6, <1>7, TabKeeps DEF Stores, Harmless

\* Forgetting a row of the storage keeps the invariant.
LEMMA ForgetKeeps ==
  ASSUME SessionInvariant, NEW t \in Tabs, Forget(t), turns' \in 0..MaxTurns
  PROVE  SessionInvariant'
<1> DEFINE e == Page(tab[t].wallet, 0)
<1>1. /\ SessionTypeOK /\ tab[t].wallet \in Bidders /\ tab[t].owner \in Bidders /\ 0 \in Keys
  BY TabRecords DEF SessionInvariant, TabRecord
<1>2. NoRow \in Row /\ NoRow.key = 0
  BY <1>1 DEF NoRow, Row
<1>3. store' = [store EXCEPT ![tab[t].owner] = NoRow]
  BY DEF Forget, Slot
<1>4. store' \in [Bidders -> Row] /\ StoredKeysAreGranted'
  BY <1>1, <1>2, <1>3, StoreRow DEF Forget
<1>5. e \in TabRecord /\ e.flow = "idle" /\ tab' = [tab EXCEPT ![t] = e]
  BY <1>1, TabRecords DEF Forget, Ends
<1> HIDE DEF e
<1> QED
  BY <1>4, <1>5, TabKeeps DEF Forget, Harmless

\* A bid's permission changes nothing that the sessions speak of.
LEMMA PermissionLandsKeeps ==
  ASSUME SessionInvariant, NEW t \in Tabs, PermissionLands(t)
  PROVE  SessionInvariant'
<1> DEFINE e == Page(tab[t].wallet, tab[t].session)
<1>1. /\ SessionTypeOK /\ tab[t].wallet \in Bidders /\ tab[t].owner \in Bidders
      /\ tab[t].session \in Keys /\ turns \in 0..MaxTurns
  BY TabRecords DEF SessionInvariant, SessionTypeOK, TabRecord
<1>2. store' \in [Bidders -> Row] /\ StoredKeysAreGranted'
  BY StoreStays DEF PermissionLands
<1>3. e \in TabRecord /\ e.flow = "idle" /\ tab' = [tab EXCEPT ![t] = e]
  BY <1>1, TabRecords DEF PermissionLands, Ends
<1> HIDE DEF e
<1> QED
  BY <1>1, <1>2, <1>3, TabKeeps DEF PermissionLands, Harmless

----------------------------------------------------------------------------
(* Keys come and go.                                                       *)

\* A click that opens a session draws a key no one has.
LEMMA ClickOpenKeeps ==
  ASSUME SessionInvariant, NEW t \in Tabs, NEW c \in Ceilings, ClickOpen(t, c)
  PROVE  SessionInvariant'
<1> DEFINE ttl == IF Duration - now > MinTtl THEN Duration - now ELSE MinTtl
           e == [tab[t] EXCEPT !.flow = "open", !.owner = tab[t].wallet, !.key = generated',
                               !.max_spend = c, !.ttl = ttl]
<1>1. /\ SessionTypeOK /\ LooseTypeOK /\ KeysAreFresh
      /\ tab \in [Tabs -> TabRecord] /\ tab[t] \in TabRecord /\ generated \in Keys
  BY DEF SessionInvariant, SessionTypeOK
<1>2. generated' \in Keys /\ generated' = generated + 1 /\ generated' # 0 /\ generated \in Nat
  BY <1>1, SessionAssumption DEF ClickOpen, Keys
<1>3. ttl \in Nat /\ c \in Nat
  <2>1. now \in Nat /\ Duration \in Nat /\ MinTtl \in Nat /\ c \in Nat
    BY <1>1, MarketAssumption, SessionAssumption DEF LooseTypeOK
  <2> QED
    BY <2>1
<1> HIDE DEF ttl
<1>4. e \in TabRecord /\ e.flow = "open" /\ e.key = generated'
  BY <1>1, <1>2, <1>3 DEF TabRecord
<1>5. tab' = [tab EXCEPT ![t] = e]
  BY DEF ClickOpen, ttl
<1> HIDE DEF e
<1>6. tab' \in [Tabs -> TabRecord] /\ tab'[t] = e /\ \A u \in Tabs \ {t} : tab'[u] = tab[u]
  BY <1>1, <1>4, <1>5
<1>7. SessionTypeOK'
  BY <1>1, <1>2, <1>6 DEF SessionTypeOK, ClickOpen
<1>8. LooseTypeOK' /\ \A b \in Bidders : bids'[b].account = bids[b].account
                                       /\ bids'[b].amount = bids[b].amount
  BY <1>1, BookKeepsBids DEF ClickOpen
<1>9. grant[generated'].owner = Nobody /\ grant' = grant
  BY <1>1, <1>2 DEF KeysAreFresh, ClickOpen
<1>10. \A u \in Tabs \ {t} : tab[u].flow = "open" => tab[u].key # generated'
  <2>1. \A u \in Tabs : tab[u].flow = "open" => tab[u].key \in Nat /\ tab[u].key <= generated
    BY <1>1, SessionAssumption DEF KeysAreFresh, TabRecord, Keys
  <2> QED
    BY <1>2, <2>1
<1>11. KeysAreFresh'
  <2>1. \A k \in Keys : k = 0 \/ k > generated' => grant'[k].owner = Nobody
    <3>1. \A k \in Keys : k > generated' => k > generated
      BY <1>2, SessionAssumption DEF Keys
    <3> QED
      BY <1>1, <1>9, <3>1 DEF KeysAreFresh
  <2>2. \A u \in Tabs : tab'[u].flow = "open" =>
          tab'[u].key # 0 /\ tab'[u].key <= generated' /\ grant'[tab'[u].key].owner = Nobody
    <3>1. \A u \in Tabs \ {t} : tab[u].flow = "open" =>
            tab[u].key # 0 /\ tab[u].key <= generated' /\ grant[tab[u].key].owner = Nobody
      <4>1. \A u \in Tabs : tab[u].flow = "open" => tab[u].key \in Nat /\ tab[u].key <= generated
        BY <1>1, SessionAssumption DEF KeysAreFresh, TabRecord, Keys
      <4> QED
        BY <1>1, <1>2, <4>1 DEF KeysAreFresh
    <3>2. e.key # 0 /\ e.key <= generated' /\ grant[e.key].owner = Nobody
      BY <1>2, <1>4, <1>9
    <3> QED
      BY <1>6, <1>9, <3>1, <3>2
  <2>3. \A u, v \in Tabs :
          tab'[u].flow = "open" /\ tab'[v].flow = "open" /\ tab'[u].key = tab'[v].key => u = v
    BY <1>1, <1>4, <1>6, <1>10 DEF KeysAreFresh
  <2> QED
    BY <2>1, <2>2, <2>3 DEF KeysAreFresh
<1>12. \A u \in Tabs : AboutToStore(u)'
  BY <1>4, <1>6, <1>9 DEF SessionInvariant, AboutToStore
<1>13. StoredKeysAreGranted'
  BY StoreStays DEF ClickOpen
<1>14. /\ (\A b \in Bidders : ScopeIsGranted(b) /\ SignedIsPlaced(b))'
       /\ KeyBidsAsGranted' /\ SpentIsWhatWasBid'
  BY <1>8, ChainKeeps DEF ClickOpen
<1> QED
  BY <1>7, <1>8, <1>11, <1>12, <1>13, <1>14 DEF SessionInvariant

\* The keys a villager was granted die; nothing else about a key changes.
LEMMA BuryDies ==
  ASSUME SessionTypeOK, NEW b \in Bidders
  PROVE  /\ Bury(b) \in [Keys -> [owner : Bidders \cup {Nobody}, max_spend : Nat, dead : BOOLEAN]]
         /\ \A k \in Keys :
              /\ Bury(b)[k].owner = grant[k].owner /\ Bury(b)[k].max_spend = grant[k].max_spend
              /\ Bury(b)[k].dead = (grant[k].dead \/ grant[k].owner = b)
              /\ grant[k].owner # b => Bury(b)[k] = grant[k]
<1>1. \A k \in Keys : grant[k] \in [owner : Bidders \cup {Nobody}, max_spend : Nat, dead : BOOLEAN]
  BY DEF SessionTypeOK
<1> QED
  BY <1>1 DEF Bury

\* A revocation that lands removes the scope and marks the grant.
LEMMA RevokeLandsKeeps ==
  ASSUME SessionInvariant, NEW t \in Tabs, RevokeLands(t)
  PROVE  SessionInvariant'
<1> DEFINE b == tab[t].owner
           e == [tab[t] EXCEPT !.flow = "forget"]
<1>1. /\ SessionTypeOK /\ LooseTypeOK /\ tab[t] \in TabRecord /\ b \in Bidders
      /\ scope \in [Bidders -> ScopeRecord]
  BY DEF SessionInvariant, SessionTypeOK, TabRecord
<1>2. e \in TabRecord /\ e.flow = "forget" /\ tab' = [tab EXCEPT ![t] = e]
  BY <1>1 DEF TabRecord, RevokeLands, Flow
<1> HIDE DEF e
<1>3. /\ grant' \in [Keys -> [owner : Bidders \cup {Nobody}, max_spend : Nat, dead : BOOLEAN]]
      /\ \A k \in Keys :
           /\ grant'[k].owner = grant[k].owner /\ grant'[k].max_spend = grant[k].max_spend
           /\ grant'[k].dead = (grant[k].dead \/ grant[k].owner = b)
           /\ grant[k].owner # b => grant'[k] = grant[k]
  BY <1>1, BuryDies DEF RevokeLands, RevokeSession
<1>4. /\ scope' = [scope EXCEPT ![b] = [scope[b] EXCEPT !.revoked = TRUE]]
      /\ [scope[b] EXCEPT !.revoked = TRUE] \in ScopeRecord
  BY <1>1 DEF RevokeLands, RevokeSession, ScopeRecord
<1>5. /\ scope' \in [Bidders -> ScopeRecord] /\ \A c \in Bidders \ {b} : scope'[c] = scope[c]
      /\ scope'[b] = [scope[b] EXCEPT !.revoked = TRUE]
  BY <1>1, <1>4
<1>6. /\ scope'[b].exists = scope[b].exists /\ scope'[b].session_key = scope[b].session_key
      /\ scope'[b].max_spend = scope[b].max_spend /\ scope'[b].spent = scope[b].spent
      /\ scope'[b].revoked
  BY <1>1, <1>5 DEF ScopeRecord
<1>7. /\ tab' \in [Tabs -> TabRecord] /\ KeysAreFresh' /\ \A u \in Tabs : AboutToStore(u)'
  BY <1>2, <1>3, TabsAgree DEF RevokeLands, Harmless
<1>8. SessionTypeOK'
  BY <1>1, <1>3, <1>5, <1>7 DEF SessionTypeOK, RevokeLands
<1>9. LooseTypeOK' /\ bids' = bids /\ signed' = signed /\ store' = store
  BY <1>1, BookKeepsBids DEF RevokeLands, vars, marketVars
<1>10. ASSUME NEW c \in Bidders
       PROVE  ScopeIsGranted(c)'
  <2>1. ScopeIsGranted(c) /\ scope[c].session_key \in Keys
    BY <1>1 DEF SessionInvariant, ScopeRecord
  <2>2. CASE c # b
    BY <1>3, <1>5, <2>1, <2>2 DEF ScopeIsGranted
  <2>3. CASE c = b
    <3> SUFFICES ASSUME scope[b].exists
                 PROVE  grant'[scope[b].session_key] =
                          [owner |-> b, max_spend |-> scope[b].max_spend, dead |-> TRUE]
                        /\ scope[b].session_key # 0 /\ scope'[b].revoked = TRUE
      BY <1>6, <2>3 DEF ScopeIsGranted
    <3>1. /\ scope[b].session_key # 0 /\ scope[b].session_key \in Keys
          /\ grant[scope[b].session_key].owner = b
          /\ grant[scope[b].session_key].max_spend = scope[b].max_spend
      BY <2>1, <2>3 DEF ScopeIsGranted
    <3>2. grant'[scope[b].session_key] \in [owner : Bidders \cup {Nobody}, max_spend : Nat,
                                            dead : BOOLEAN]
      BY <1>3, <3>1
    <3>3. /\ grant'[scope[b].session_key].owner = b
          /\ grant'[scope[b].session_key].max_spend = scope[b].max_spend
          /\ grant'[scope[b].session_key].dead = TRUE
      BY <1>3, <3>1
    <3>4. scope'[b].revoked = TRUE
      BY <1>5, <1>1 DEF ScopeRecord
    <3> QED
      BY <3>1, <3>2, <3>3, <3>4
  <2> QED
    BY <2>2, <2>3
<1>11. \A c \in Bidders : SignedIsPlaced(c)'
  BY <1>9 DEF SessionInvariant, SignedIsPlaced
<1>12. KeyBidsAsGranted' /\ StoredKeysAreGranted'
  BY <1>1, <1>3, <1>9 DEF SessionInvariant, SessionTypeOK, KeyBidsAsGranted, StoredKeysAreGranted,
     Row
<1>13. SpentIsWhatWasBid'
  <2>1. \A c \in Bidders :
          /\ scope'[c].exists = scope[c].exists /\ scope'[c].spent = scope[c].spent
          /\ scope'[c].session_key = scope[c].session_key
    BY <1>5, <1>6
  <2> QED
    BY <1>9, <2>1 DEF SessionInvariant, SpentIsWhatWasBid
<1> QED
  BY <1>7, <1>8, <1>9, <1>10, <1>11, <1>12, <1>13 DEF SessionInvariant

\* A grant that lands replaces the scope of the villager who signed it.
LEMMA OpenLandsKeeps ==
  ASSUME SessionInvariant, NEW t \in Tabs, OpenLands(t)
  PROVE  SessionInvariant'
<1> DEFINE b == tab[t].owner
           key == tab[t].key
           max == tab[t].max_spend
           e == [tab[t] EXCEPT !.flow = "store", !.max_spend = 0]
           granted == [owner |-> b, max_spend |-> max, dead |-> FALSE]
           opened == NewScope(b, key, tab[t].ttl, max)
<1>1. /\ SessionTypeOK /\ LooseTypeOK /\ tab \in [Tabs -> TabRecord] /\ tab[t] \in TabRecord
      /\ b \in Bidders /\ key \in Keys /\ max \in Nat /\ tab[t].ttl \in Nat /\ now \in Nat
      /\ tab[t].flow = "open" /\ scope \in [Bidders -> ScopeRecord] /\ KeysAreFresh
      /\ b # Nobody
  BY MarketAssumption DEF SessionInvariant, SessionTypeOK, TabRecord, LooseTypeOK, OpenLands
<1>2. key # 0 /\ grant[key].owner = Nobody
  BY <1>1 DEF KeysAreFresh
<1>3. e \in TabRecord /\ e.flow = "store" /\ e.key = key /\ e.owner = b
      /\ tab' = [tab EXCEPT ![t] = e]
  BY <1>1 DEF TabRecord, OpenLands
<1>4. tab' \in [Tabs -> TabRecord] /\ tab'[t] = e /\ \A u \in Tabs \ {t} : tab'[u] = tab[u]
  BY <1>1, <1>3
<1>5. /\ opened.exists = TRUE /\ opened.session_key = key /\ opened.max_spend = max
      /\ opened.spent = 0 /\ opened.revoked = FALSE
      /\ opened \in ScopeRecord
  BY <1>1 DEF NewScope, ScopeRecord
<1>6. scope' = [scope EXCEPT ![b] = opened]
  BY DEF OpenLands, OpenSession
<1> HIDE DEF e, opened
<1>7. scope' \in [Bidders -> ScopeRecord] /\ scope'[b] = opened
      /\ \A c \in Bidders \ {b} : scope'[c] = scope[c]
  BY <1>1, <1>5, <1>6
<1>8. grant' = [Bury(b) EXCEPT ![key] = granted]
  BY DEF OpenLands, OpenSession
<1>9. granted \in [owner : Bidders \cup {Nobody}, max_spend : Nat, dead : BOOLEAN]
  BY <1>1
<1>10. /\ grant' \in [Keys -> [owner : Bidders \cup {Nobody}, max_spend : Nat, dead : BOOLEAN]]
       /\ grant'[key] = granted
       /\ \A k \in Keys \ {key} :
            /\ grant'[k].owner = grant[k].owner /\ grant'[k].max_spend = grant[k].max_spend
            /\ grant[k].owner # b => grant'[k] = grant[k]
  BY <1>1, <1>8, <1>9, BuryDies
<1>11. SessionTypeOK'
  BY <1>1, <1>4, <1>7, <1>10 DEF SessionTypeOK, OpenLands
<1>12. LooseTypeOK' /\ bids' = bids /\ signed' = signed /\ store' = store /\ generated' = generated
  BY <1>1, BookKeepsBids DEF OpenLands, vars, marketVars
<1>13. KeysAreFresh'
  <2>1. key <= generated /\ generated \in Nat /\ key \in Nat
    BY <1>1, SessionAssumption DEF KeysAreFresh, SessionTypeOK, Keys
  <2>2. \A k \in Keys : k = 0 \/ k > generated => k # key /\ grant'[k].owner = Nobody
    BY <1>1, <1>2, <1>10, <2>1 DEF KeysAreFresh
  <2>3. \A u \in Tabs \ {t} : tab[u].flow = "open" => tab[u].key # key /\ tab[u].key \in Keys
    BY <1>1 DEF KeysAreFresh, TabRecord
  <2>4. \A u \in Tabs : tab'[u].flow = "open" =>
          u # t /\ tab'[u] = tab[u] /\ tab[u].flow = "open"
    BY <1>3, <1>4
  <2>5. \A u \in Tabs : tab'[u].flow = "open" =>
          tab'[u].key # 0 /\ tab'[u].key <= generated /\ grant'[tab'[u].key].owner = Nobody
    BY <1>1, <1>10, <2>3, <2>4 DEF KeysAreFresh
  <2> QED
    BY <1>1, <1>12, <2>2, <2>4, <2>5 DEF KeysAreFresh
<1>14. ASSUME NEW u \in Tabs
       PROVE  AboutToStore(u)'
  <2>1. CASE u = t
    BY <1>3, <1>4, <1>10, <2>1 DEF AboutToStore
  <2>2. CASE u # t
    <3>1. tab'[u] = tab[u] /\ AboutToStore(u) /\ tab[u].key \in Keys /\ tab[u].owner \in Bidders
      BY <1>1, <1>4, <2>2 DEF SessionInvariant, TabRecord
    <3>2. tab[u].flow = "store" => tab[u].key # key
      BY <1>2, <3>1, MarketAssumption DEF AboutToStore
    <3> QED
      BY <1>10, <3>1, <3>2 DEF AboutToStore
  <2> QED
    BY <2>1, <2>2
<1>15. ASSUME NEW c \in Bidders
       PROVE  ScopeIsGranted(c)'
  <2>1. CASE c = b
    BY <1>2, <1>5, <1>7, <1>10, <2>1 DEF ScopeIsGranted
  <2>2. CASE c # b
    <3>1. ScopeIsGranted(c) /\ scope[c].session_key \in Keys /\ scope'[c] = scope[c]
      BY <1>1, <1>7, <2>2 DEF SessionInvariant, ScopeRecord
    <3>2. scope[c].exists => grant[scope[c].session_key].owner = c /\ scope[c].session_key # key
      BY <1>2, <3>1, MarketAssumption DEF ScopeIsGranted
    <3>3. scope[c].exists => grant'[scope[c].session_key] = grant[scope[c].session_key]
      BY <1>10, <2>2, <3>1, <3>2
    <3> QED
      BY <3>1, <3>3 DEF ScopeIsGranted
  <2> QED
    BY <2>1, <2>2
<1>16. \A c \in Bidders : SignedIsPlaced(c)'
  BY <1>12 DEF SessionInvariant, SignedIsPlaced
<1>17. \A c \in Bidders : signed[c] # 0 => signed[c] # key /\ signed[c] \in Keys
                                           /\ grant[signed[c]].owner = c
  BY <1>1, <1>2, MarketAssumption DEF SessionInvariant, SessionTypeOK, KeyBidsAsGranted
<1>18. KeyBidsAsGranted'
  BY <1>10, <1>12, <1>17 DEF SessionInvariant, KeyBidsAsGranted
<1>19. StoredKeysAreGranted'
  <2>1. \A c \in Bidders : store[c].key # 0 =>
          grant[store[c].key].owner = c /\ store[c].key \in Keys /\ store[c].key # key
    BY <1>1, <1>2, MarketAssumption DEF SessionInvariant, SessionTypeOK, StoredKeysAreGranted, Row
  <2> QED
    BY <1>10, <1>12, <2>1 DEF StoredKeysAreGranted
<1>20. SpentIsWhatWasBid'
  <2>1. ASSUME NEW c \in Bidders
        PROVE  scope'[c].spent = IF scope'[c].exists /\ signed[c] = scope'[c].session_key
                                 THEN bids[c].amount ELSE 0
    BY <1>2, <1>5, <1>7, <1>17 DEF SessionInvariant, SpentIsWhatWasBid
  <2> QED
    BY <1>12, <2>1 DEF SpentIsWhatWasBid
<1> QED
  BY <1>11, <1>12, <1>13, <1>14, <1>15, <1>16, <1>18, <1>19, <1>20 DEF SessionInvariant

----------------------------------------------------------------------------
(* Bids.                                                                   *)

\* A bid by a session key is charged to the scope that names the key.
LEMMA BidLandsKeeps ==
  ASSUME SessionInvariant, NEW t \in Tabs, NEW side \in Sides, NEW amount \in Amounts,
         BidLands(t, side, amount)
  PROVE  SessionInvariant'
<1> DEFINE b == tab[t].owner
           key == tab[t].key
           e == [tab[t] EXCEPT !.flow = "hide"]
<1>1. /\ SessionTypeOK /\ LooseTypeOK /\ tab[t] \in TabRecord /\ b \in Bidders /\ key \in Keys
      /\ scope \in [Bidders -> ScopeRecord] /\ scope[b] \in ScopeRecord
      /\ signed \in [Bidders -> Keys] /\ amount \in Nat /\ scope[b].spent \in Nat
  BY MarketAssumption DEF SessionInvariant, SessionTypeOK, TabRecord, ScopeRecord
<1>2. PlaceAndFund(b, side, amount) /\ grant' = grant
  BY DEF BidLands, PlaceBidWithSession
<1>3. /\ LooseTypeOK' /\ bids[b].account # "open"
      /\ bids'[b].account = "open" /\ bids'[b].amount = amount
      /\ \A c \in Bidders \ {b} : bids'[c] = bids[c]
  <2>1. LooseTypeOK'
    BY <1>1, <1>2, LooseStep DEF Next, BidStep
  <2>2. bids[b].account # "open"
    BY <1>1, <1>2, PlaceAndFundMarket
  <2> QED
    BY <1>1, <1>2, <2>1, <2>2, PlaceAndFundEffect
<1>4. signed[b] = 0
  BY <1>1, <1>3 DEF SessionInvariant, SignedIsPlaced
<1>5. e \in TabRecord /\ e.flow = "hide" /\ tab' = [tab EXCEPT ![t] = e]
  BY <1>1 DEF TabRecord, BidLands, Flow
<1> HIDE DEF e
<1>6. /\ tab' \in [Tabs -> TabRecord] /\ KeysAreFresh' /\ \A u \in Tabs : AboutToStore(u)'
  BY <1>2, <1>5, TabsAgree DEF BidLands, Harmless
<1>7. StoredKeysAreGranted'
  BY <1>2, StoreStays DEF BidLands
<1>8. CASE UNCHANGED <<scope, signed>>
  <2>1. SessionTypeOK'
    BY <1>1, <1>2, <1>6, <1>8 DEF SessionTypeOK, BidLands
  <2>2. \A c \in Bidders : signed[c] # 0 => bids'[c] = bids[c]
    BY <1>3, <1>4
  <2>3. (\A c \in Bidders : ScopeIsGranted(c) /\ SignedIsPlaced(c))'
    BY <1>2, <1>8, <2>2 DEF SessionInvariant, ScopeIsGranted, SignedIsPlaced
  <2>4. KeyBidsAsGranted'
    BY <1>2, <1>8, <2>2 DEF SessionInvariant, KeyBidsAsGranted
  <2>5. SpentIsWhatWasBid'
    <3>1. \A c \in Bidders : scope[c].exists /\ signed[c] = scope[c].session_key => signed[c] # 0
      BY DEF SessionInvariant, ScopeIsGranted
    <3> QED
      BY <1>8, <2>2, <3>1 DEF SessionInvariant, SpentIsWhatWasBid
  <2> QED
    BY <1>3, <1>6, <1>7, <2>1, <2>3, <2>4, <2>5 DEF SessionInvariant
<1>9. CASE key # 0 /\ PlaceBidWithSession(b, key, side, amount)
  <2> DEFINE charged == [scope[b] EXCEPT !.spent = @ + amount]
  <2>1. /\ scope[b].exists /\ ~scope[b].revoked /\ scope[b].session_key = key
        /\ scope[b].spent + amount <= scope[b].max_spend
        /\ scope' = [scope EXCEPT ![b] = charged]
        /\ signed' = [signed EXCEPT ![b] = key]
    BY <1>1, <1>9 DEF PlaceBidWithSession, ChargeSession, ScopeAddress, IsValid
  <2>2. scope[b].spent = 0
    BY <1>1, <1>4, <1>9, <2>1 DEF SessionInvariant, SpentIsWhatWasBid
  <2>3. scope[b].spent + amount = amount /\ amount <= scope[b].max_spend
    BY <1>1, <2>1, <2>2
  <2>4. /\ charged \in ScopeRecord /\ charged.spent = amount
        /\ charged.exists = scope[b].exists /\ charged.session_key = key
        /\ charged.max_spend = scope[b].max_spend /\ charged.revoked = scope[b].revoked
    BY <1>1, <2>1, <2>3 DEF ScopeRecord
  <2> HIDE DEF charged
  <2>5. /\ scope' \in [Bidders -> ScopeRecord] /\ scope'[b] = charged
        /\ \A c \in Bidders \ {b} : scope'[c] = scope[c]
        /\ signed' \in [Bidders -> Keys] /\ signed'[b] = key
        /\ \A c \in Bidders \ {b} : signed'[c] = signed[c]
    BY <1>1, <2>1, <2>4
  <2>6. SessionTypeOK'
    BY <1>1, <1>2, <1>6, <2>5 DEF SessionTypeOK, BidLands
  <2>7. grant[key] = [owner |-> b, max_spend |-> scope[b].max_spend, dead |-> scope[b].revoked]
    BY <1>1, <2>1 DEF SessionInvariant, ScopeIsGranted
  <2>8. ASSUME NEW c \in Bidders
        PROVE  /\ ScopeIsGranted(c)' /\ SignedIsPlaced(c)'
               /\ signed'[c] # 0 => /\ grant[signed'[c]].owner = c
                                    /\ bids'[c].amount <= grant[signed'[c]].max_spend
               /\ scope'[c].spent = IF scope'[c].exists /\ signed'[c] = scope'[c].session_key
                                    THEN bids'[c].amount ELSE 0
    <3>1. CASE c = b
      <4>1. ScopeIsGranted(c)'
        BY <1>2, <1>9, <2>4, <2>5, <2>7, <3>1 DEF ScopeIsGranted
      <4>2. SignedIsPlaced(c)'
        BY <1>3, <3>1 DEF SignedIsPlaced
      <4>3. grant[signed'[b]].owner = b /\ grant[signed'[b]].max_spend = scope[b].max_spend
        BY <2>5, <2>7
      <4>4. bids'[b].amount <= grant[signed'[b]].max_spend
        BY <1>3, <2>3, <4>3
      <4>5. scope'[b].spent = IF scope'[b].exists /\ signed'[b] = scope'[b].session_key
                              THEN bids'[b].amount ELSE 0
        BY <1>3, <2>1, <2>4, <2>5
      <4> QED
        BY <3>1, <4>1, <4>2, <4>3, <4>4, <4>5
    <3>2. CASE c # b
      BY <1>2, <1>3, <2>5, <3>2 DEF SessionInvariant, ScopeIsGranted, SignedIsPlaced,
         KeyBidsAsGranted, SpentIsWhatWasBid
    <3> QED
      BY <3>1, <3>2
  <2>9. KeyBidsAsGranted' /\ SpentIsWhatWasBid'
    BY <1>2, <2>8 DEF KeyBidsAsGranted, SpentIsWhatWasBid
  <2> QED
    BY <1>3, <1>6, <1>7, <2>6, <2>8, <2>9 DEF SessionInvariant
<1> QED
  BY <1>8, <1>9 DEF BidLands

----------------------------------------------------------------------------
(* The invariant holds.                                                    *)

\* Every step of any tab, of the rollup and of the clock keeps the invariant.
LEMMA SessionStep == SessionInvariant /\ [SessionNext]_allVars => SessionInvariant'
<1> SUFFICES ASSUME SessionInvariant, [SessionNext]_allVars PROVE SessionInvariant'
  OBVIOUS
<1>1. CASE (Tick \/ ExpireMarket \/ UNCHANGED vars) /\ UNCHANGED sessionVars
  <2>1. LooseTypeOK' /\ \A c \in Bidders : bids'[c].account = bids[c].account
                                         /\ bids'[c].amount = bids[c].amount
    BY <1>1, BookKeepsBids DEF SessionInvariant
  <2>2. /\ (\A b \in Bidders : ScopeIsGranted(b) /\ SignedIsPlaced(b))'
        /\ KeyBidsAsGranted' /\ SpentIsWhatWasBid'
    BY <1>1, <2>1, ChainKeeps DEF sessionVars
  <2>3. SessionTypeOK' /\ KeysAreFresh' /\ StoredKeysAreGranted' /\ \A t \in Tabs : AboutToStore(t)'
    BY <1>1 DEF SessionInvariant, SessionTypeOK, KeysAreFresh, StoredKeysAreGranted, AboutToStore,
       sessionVars
  <2> QED
    BY <2>1, <2>2, <2>3 DEF SessionInvariant
<1>2. ASSUME NEW t \in Tabs, TabStep(t)
      PROVE  SessionInvariant'
  <2>1. CASE BidFails(t)
    <3>1. turns \in 0..MaxTurns /\ turns < MaxTurns /\ turns' = turns + 1
      BY <2>1 DEF BidFails, Turn, SessionInvariant, SessionTypeOK
    <3> QED
      BY <2>1, <3>1, SessionAssumption, ForgetKeeps DEF BidFails
  <2>2. CASE RevokeEnds(t)
    BY <2>2, ForgetKeeps DEF RevokeEnds, SessionInvariant, SessionTypeOK
  <2> QED
    BY <1>2, <2>1, <2>2, LookingStepsKeep, ClickOpenKeeps, OpenLandsKeeps, StoresKeeps,
       RevokeLandsKeeps, BidLandsKeeps, PermissionLandsKeeps DEF TabStep
<1> QED
  BY <1>1, <1>2 DEF SessionNext, allVars

\* The invariant holds before any session.
LEMMA SessionStarts == FundedSessionInit => SessionInvariant
<1> SUFFICES ASSUME FundedSessionInit PROVE SessionInvariant
  OBVIOUS
<1>1. LooseTypeOK
  <2>1. wallet \in [Bidders -> Nat] /\ purse \in [Bidders -> PurseRecord]
    BY PurseAssumption DEF FundedSessionInit, PurseRecord, PurseLayers
  <2>2. market \in LooseMarketRecord
    BY MarketAssumption DEF FundedSessionInit, MarketInit, LooseMarketRecord, LiveRooms, Statuses,
       Outcomes
  <2>3. bids \in [Bidders -> LooseBidRecord]
    BY MarketAssumption DEF FundedSessionInit, MarketInit, NoBid, NoRank, LooseBidRecord, Sides
  <2> QED
    BY <2>1, <2>2, <2>3 DEF FundedSessionInit, MarketInit, LooseTypeOK
<1>2. 0 \in Keys /\ Keys \subseteq Nat /\ 0 \in 0..MaxTurns
  BY SessionAssumption DEF Keys
<1>3. /\ \A b \in Bidders : scope[b].exists = FALSE /\ scope[b].spent = 0
      /\ scope \in [Bidders -> ScopeRecord]
  BY <1>2 DEF FundedSessionInit, SessionInit, ScopeRecord
<1>4. /\ \A b \in Bidders : store[b].key = 0 /\ signed[b] = 0
      /\ store \in [Bidders -> Row] /\ signed \in [Bidders -> Keys]
  BY <1>2 DEF FundedSessionInit, SessionInit, NoRow, Row
<1>5. tab \in [Tabs -> TabRecord] /\ \A t \in Tabs : tab[t].flow = "idle"
  <2>1. PICK b \in Bidders : tab = [t \in Tabs |-> Page(b, 0)]
    BY DEF FundedSessionInit, SessionInit
  <2> QED
    BY <1>2, <2>1 DEF Page, TabRecord
<1>6. /\ grant \in [Keys -> [owner : Bidders \cup {Nobody}, max_spend : Nat, dead : BOOLEAN]]
      /\ \A k \in Keys : grant[k].owner = Nobody
  BY DEF FundedSessionInit, SessionInit
<1>7. SessionTypeOK
  BY <1>2, <1>3, <1>4, <1>5, <1>6 DEF FundedSessionInit, SessionInit, SessionTypeOK
<1> QED
  BY <1>1, <1>3, <1>4, <1>5, <1>6, <1>7 DEF SessionInvariant, ScopeIsGranted, SignedIsPlaced,
     KeysAreFresh, AboutToStore, KeyBidsAsGranted, SpentIsWhatWasBid, StoredKeysAreGranted

\* Scopes, keys, tabs, storage and bids agree, whatever tabs do between the steps
\* of each other's flows (lib.rs:605-720, session.ts, page.tsx of app/market/[address]).
THEOREM SessionInvariantHolds == SessionSpec => []SessionInvariant
BY SessionStarts, SessionStep, PTL DEF SessionSpec

\* A key bids for its grantor, and no more than they consented to (charge_session).
THEOREM KeysBidAsGranted == SessionSpec => []KeyBidsAsGranted
<1>1. SessionInvariant => KeyBidsAsGranted
  BY DEF SessionInvariant
<1> QED
  BY <1>1, SessionInvariantHolds, PTL

\* A scope's `spent` is what its present key has bid (open_session, charge_session).
THEOREM ScopesCountBids == SessionSpec => []SpentIsWhatWasBid
<1>1. SessionInvariant => SpentIsWhatWasBid
  BY DEF SessionInvariant
<1> QED
  BY <1>1, SessionInvariantHolds, PTL

\* The browser keeps no key for a villager who did not grant it (session.ts:36-43).
THEOREM StorageIsOwn == SessionSpec => []StoredKeysAreGranted
<1>1. SessionInvariant => StoredKeysAreGranted
  BY DEF SessionInvariant
<1> QED
  BY <1>1, SessionInvariantHolds, PTL

\* A revoked or replaced key places no bid, though a flow that holds it is under way
\* (revoke_session, open_session).
THEOREM TheDeadDoNotBid == SessionSpec => DeadKeysPlaceNoBid
<1>1. ASSUME SessionInvariant, [SessionNext]_allVars, NEW b \in Bidders, signed'[b] # signed[b]
      PROVE  ~grant[signed'[b]].dead
  <2>1. PICK t \in Tabs, side \in Sides, amount \in Amounts :
          PlaceBidWithSession(tab[t].owner, tab[t].key, side, amount)
    BY <1>1 DEF SessionNext, TabStep, SwitchWallet, Reload, ClickOpen, OpenLands, Stores,
       ClickRevoke, RevokeLands, RevokeEnds, Forget, ClickBid, BidLands, PermissionLands, BidFails,
       FlowFails, allVars, sessionVars
  <2>2. /\ b = tab[t].owner /\ signed'[b] = tab[t].key
        /\ scope[b].exists /\ ~scope[b].revoked /\ scope[b].session_key = tab[t].key
    BY <1>1, <2>1 DEF PlaceBidWithSession, ChargeSession, ScopeAddress, IsValid, SessionInvariant,
       SessionTypeOK
  <2>3. grant[scope[b].session_key] =
          [owner |-> b, max_spend |-> scope[b].max_spend, dead |-> scope[b].revoked]
    BY <1>1, <2>2 DEF SessionInvariant, ScopeIsGranted
  <2> QED
    BY <2>2, <2>3
<1>2. SessionInvariant /\ [SessionNext]_allVars =>
        [\A b \in Bidders : signed'[b] # signed[b] => ~grant[signed'[b]].dead]_allVars
  BY <1>1
<1> QED
  BY <1>2, SessionInvariantHolds, PTL DEF SessionSpec, DeadKeysPlaceNoBid

----------------------------------------------------------------------------
(* The book, whoever signs.                                                *)

\* Whatever the tabs do, the book only sees its own instructions: a session's bid is
\* a bid like any other, placed and funded in one transaction.
LEMMA TabsSendInstructions ==
  ASSUME SessionTypeOK, [SessionNext]_allVars
  PROVE  [Next]_vars
<1>1. CASE (Tick \/ ExpireMarket) /\ UNCHANGED sessionVars
  BY <1>1 DEF Next, VerdictStep
<1>2. ASSUME NEW t \in Tabs, TabStep(t)
      PROVE  [Next]_vars
  <2>1. tab[t].owner \in Bidders
    BY TabRecords DEF TabRecord
  <2>2. CASE \E side \in Sides, amount \in Amounts : BidLands(t, side, amount)
    BY <2>1, <2>2 DEF BidLands, PlaceBidWithSession, Next, BidStep
  <2>3. CASE PermissionLands(t)
    BY <2>1, <2>3 DEF PermissionLands, Next, BidStep
  <2>4. CASE BidFails(t) \/ RevokeEnds(t)
    BY <2>4 DEF BidFails, RevokeEnds, Forget
  <2>5. CASE OpenLands(t) \/ Stores(t) \/ ClickRevoke(t) \/ RevokeLands(t) \/ ClickBid(t)
    BY <2>5 DEF OpenLands, Stores, ClickRevoke, RevokeLands, ClickBid
  <2>6. CASE \/ \E b \in Bidders : SwitchWallet(t, b)
             \/ Reload(t) \/ FlowFails(t)
             \/ \E c \in Ceilings : ClickOpen(t, c)
    BY <2>6 DEF SwitchWallet, Reload, FlowFails, ClickOpen
  <2> QED
    BY <1>2, <2>2, <2>3, <2>4, <2>5, <2>6 DEF TabStep
<1>3. CASE UNCHANGED allVars
  BY <1>3 DEF allVars
<1> QED
  BY <1>1, <1>2, <1>3 DEF SessionNext

\* The book is empty when the villagers come with their purses filled.
LEMMA FundedBookIsFresh == FundedSessionInit => FreshBook
<1> SUFFICES ASSUME FundedSessionInit PROVE FreshBook
  OBVIOUS
<1>1. /\ MarketInit /\ wallet = [b \in Bidders |-> 0]
      /\ purse = [b \in Bidders |-> [available |-> Funds, locked |-> 0, layer |-> "ER"]]
  BY DEF FundedSessionInit
<1>2. purse \in [Bidders -> PurseRecord] /\ \A b \in Bidders : purse[b].locked = 0
  BY <1>1, PurseAssumption DEF PurseRecord, PurseLayers
<1> QED
  BY <1>1, <1>2 DEF FreshBook

\* Types, order and counts of the book, and the money in it, are as in module Market
\* when session keys bid, revoked or replaced or offered to another villager.
THEOREM SessionsKeepTheBook == SessionSpec => [](Invariant /\ Money)
<1>1. FundedSessionInit => Invariant /\ Money
  BY FundedBookIsFresh, InvariantInit, MoneyInit
<1>2. ASSUME SessionInvariant, [SessionNext]_allVars, Invariant, Money
      PROVE  Invariant' /\ Money'
  <2>1. [Next]_vars
    BY <1>2, TabsSendInstructions DEF SessionInvariant
  <2> QED
    BY <1>2, <2>1, InvariantStep, MoneyStep
<1> QED
  BY <1>1, <1>2, SessionInvariantHolds, PTL DEF SessionSpec

\* A purse locks exactly its owner's stake, although a key that is not the owner's
\* may lock it (place_bid_with_session, fund_bid).
THEOREM SessionPursesBackBids == SessionSpec => []PursesBackBids
BY SessionsKeepTheBook, PTL DEF Invariant

\* The escrow holds what session keys put in, and no failed or doubled flow of a tab
\* puts in a lamport that is not counted.
THEOREM SessionEscrowCovers == SessionSpec => []EscrowCoversClaims
<1>1. Money => EscrowCoversClaims
  BY CoveredIsCovers DEF Money
<1> QED
  BY <1>1, SessionsKeepTheBook, PTL

\* However tabs bid with one another's keys, revoke them and fail, wallets, purses and
\* the escrow hold together what the villagers came with.
THEOREM SessionsMakeNoMoney == SessionSpec => []MoneyIsConserved
<1>1. FundedSessionInit => MoneyIsConserved
  BY FilledPursesHoldings DEF FundedSessionInit, MoneyIsConserved, Holdings, Available
<1>2. ASSUME SessionInvariant, Invariant, Money, [SessionNext]_allVars, MoneyIsConserved
      PROVE  MoneyIsConserved'
  <2>1. [Next]_vars
    BY <1>2, TabsSendInstructions DEF SessionInvariant
  <2> QED
    BY <1>2, <2>1, HoldingsStep DEF MoneyIsConserved, Holdings, Available
<1> QED
  BY <1>1, <1>2, SessionInvariantHolds, SessionsKeepTheBook, PTL DEF SessionSpec
============================================================================
