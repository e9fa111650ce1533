--------------------------- MODULE VillageProofs ---------------------------
(***************************************************************************)
(* Proofs about module Village: nothing sealed can be read by a stranger,  *)
(* each maker gets its market or has a reason, and a probe's rows mean     *)
(* what they say, for every number of makers, ids, retries and lost calls. *)
(***************************************************************************)
EXTENDS Village, FiniteSetTheorems, TLAPS

Stages == {"village", "open", "enter", "claim", "create", "shell", "delegate", "delegateSecret",
           "await", "marketPermission", "permission", "seal", "done", "failed"}

MarketRecord ==
  [maker : Makers \cup {Nobody, Earlier}, home : {"none", "L1", "ER", "back"},
   permission : {"none", "public"}]
SecretRecord ==
  [home : {"none", "L1", "ER"}, permission : {"none", "private"},
   text : Makers \cup {Nobody, Earlier}]
MakerRecord ==
  [kind : {"tab", "seed"}, at : Stages, id : Nat, looks : Nat, tries : Nat,
   why : {"none", "lost", "taken", "refused", "exhausted"}]

VillageTypeOK ==
  /\ village \in [exists : BOOLEAN, count : Nat]
  /\ market \in [Ids -> MarketRecord]
  /\ secret \in [Ids -> SecretRecord]
  /\ maker \in [Makers -> MakerRecord]

----------------------------------------------------------------------------
(* What holds between the accounts and the makers.                         *)

\* Nothing is sealed that is not on the rollup and private.
SealedIsPrivate(i) ==
  secret[i].text # Nobody => secret[i].home = "ER" /\ secret[i].permission = "private"

\* What a maker at a stage knows of its market, which is its own from create_market on.
Reached(m, i, at) ==
  /\ at \in Stages \ {"village", "open", "enter", "claim", "failed"} => i \in Ids
  /\ at \in Stages \ {"village", "open", "enter", "claim", "create", "failed"} =>
       market[i].maker = m
  /\ at \in {"marketPermission", "permission", "seal"} => Delegated(i)
  /\ at \in {"seal", "done"} => secret[i].permission = "private"
  /\ at = "done" => secret[i].text = m

MakerKnows(m) ==
  /\ maker[m].kind = "tab" => maker[m].id \in Drawn /\ maker[m].at # "claim"
  /\ Reached(m, maker[m].id, maker[m].at)

VillageInvariant ==
  /\ VillageTypeOK
  /\ \A i \in Ids : SealedIsPrivate(i)
  /\ \A m \in Makers : MakerKnows(m)

\* A text is that of the market's maker, which has ended.
SealersAreDone ==
  \A i \in Ids :
    secret[i].text # Nobody =>
      /\ market[i].maker = secret[i].text
      /\ secret[i].text \in Makers => maker[secret[i].text].at \in {"done", "failed"}

----------------------------------------------------------------------------
(* The steps of a flow, and the records they write.                        *)

\* Each stage of a flow is followed by the next of Order.
LEMMA NextStages ==
  /\ After("shell") = "delegate"
  /\ After("delegate") = "delegateSecret"
  /\ After("delegateSecret") = "await"
  /\ After("await") = "marketPermission"
  /\ After("marketPermission") = "permission"
  /\ After("permission") = "seal"
  /\ After("seal") = "done"
<1>1. DOMAIN Order = 1..13
  BY DEF Order
<1>2. \A n \in 1..13 :
        /\ Order[n] = "shell" <=> n = 6
        /\ Order[n] = "delegate" <=> n = 7
        /\ Order[n] = "delegateSecret" <=> n = 8
        /\ Order[n] = "await" <=> n = 9
        /\ Order[n] = "marketPermission" <=> n = 10
        /\ Order[n] = "permission" <=> n = 11
        /\ Order[n] = "seal" <=> n = 12
  BY DEF Order
<1>3. /\ Order[7] = "delegate" /\ Order[8] = "delegateSecret" /\ Order[9] = "await"
      /\ Order[10] = "marketPermission" /\ Order[11] = "permission"
      /\ Order[12] = "seal" /\ Order[13] = "done"
  BY DEF Order
<1> QED
  BY <1>1, <1>2, <1>3 DEF After

\* Changing the fields of a maker leaves it a maker.
LEMMA MakerRecords ==
  ASSUME NEW now \in MakerRecord, NEW at \in Stages
  PROVE  /\ [now EXCEPT !.at = at] \in MakerRecord
         /\ \A id \in Nat : [now EXCEPT !.at = at, !.id = id] \in MakerRecord
         /\ \A why \in {"lost", "taken", "refused", "exhausted"} :
              [now EXCEPT !.at = at, !.why = why] \in MakerRecord
BY DEF MakerRecord

\* Changing the fields of a market account leaves it one.
LEMMA MarketRecords ==
  ASSUME NEW now \in MarketRecord
  PROVE  /\ [now EXCEPT !.home = "ER"] \in MarketRecord
         /\ [now EXCEPT !.permission = "public"] \in MarketRecord
         /\ NoMarket \in MarketRecord
         /\ \A m \in Makers : [NoMarket EXCEPT !.maker = m, !.home = "L1"] \in MarketRecord
BY DEF MarketRecord, NoMarket

\* Changing the fields of a secret account leaves it one.
LEMMA SecretRecords ==
  ASSUME NEW now \in SecretRecord
  PROVE  /\ \A home \in {"L1", "ER"} : [now EXCEPT !.home = home] \in SecretRecord
         /\ [now EXCEPT !.permission = "private"] \in SecretRecord
         /\ \A m \in Makers : [now EXCEPT !.text = m] \in SecretRecord
BY DEF SecretRecord

----------------------------------------------------------------------------
(* What a maker's step leaves to the others.                               *)

Others(i) ==
  \A j \in Ids \ {i} : market'[j] = market[j] /\ secret'[j] = secret[j]

\* A market has one maker, so a step about it is about nobody else's.
LEMMA OthersKnow ==
  ASSUME VillageInvariant, NEW m \in Makers, NEW i \in Ids,
         market[i].maker \in {m, Nobody}, Others(i),
         NEW other \in Makers, other # m, maker'[other] = maker[other]
  PROVE  MakerKnows(other)'
<1>1. MakerKnows(other)
  BY DEF VillageInvariant
<1>2. other # Nobody
  BY VillageAssumption
<1>3. maker[other].at \in Stages \ {"village", "open", "enter", "claim", "create", "failed"} =>
        /\ maker[other].id \in Ids /\ maker[other].id # i
        /\ market'[maker[other].id] = market[maker[other].id]
        /\ secret'[maker[other].id] = secret[maker[other].id]
  BY <1>1, <1>2 DEF MakerKnows, Reached, Others
<1> QED
  BY <1>1, <1>3 DEF MakerKnows, Reached, Delegated, Stages

\* A step of a maker that changes nothing on the chain.
LEMMA LookingKeeps ==
  ASSUME VillageInvariant, UNCHANGED chain, NEW m \in Makers, NEW now \in MakerRecord,
         maker' = [maker EXCEPT ![m] = now], MakerKnows(m)'
  PROVE  VillageInvariant'
<1>1. VillageTypeOK'
  BY DEF VillageInvariant, VillageTypeOK, chain
<1>2. \A i \in Ids : SealedIsPrivate(i)'
  BY DEF VillageInvariant, SealedIsPrivate, chain
<1>3. ASSUME NEW other \in Makers, other # m
      PROVE  MakerKnows(other)'
  <2>1. MakerKnows(other) /\ maker'[other] = maker[other]
    BY <1>3 DEF VillageInvariant, VillageTypeOK
  <2> QED
    BY <2>1 DEF MakerKnows, Reached, Delegated, chain
<1> QED
  BY <1>1, <1>2, <1>3 DEF VillageInvariant

\* A step of a maker that changes its own market.
LEMMA ActingKeeps ==
  ASSUME VillageInvariant, NEW m \in Makers, NEW i \in Ids, NEW now \in MakerRecord,
         market[i].maker \in {m, Nobody}, Others(i),
         village' \in [exists : BOOLEAN, count : Nat],
         market' \in [Ids -> MarketRecord], secret' \in [Ids -> SecretRecord],
         SealedIsPrivate(i)',
         maker' = [maker EXCEPT ![m] = now], MakerKnows(m)'
  PROVE  VillageInvariant'
<1>1. VillageTypeOK'
  BY DEF VillageInvariant, VillageTypeOK
<1>2. ASSUME NEW j \in Ids, j # i
      PROVE  SealedIsPrivate(j)'
  BY <1>2 DEF VillageInvariant, SealedIsPrivate, Others
<1>3. ASSUME NEW other \in Makers, other # m
      PROVE  MakerKnows(other)'
  <2>1. maker'[other] = maker[other]
    BY <1>3 DEF VillageInvariant, VillageTypeOK
  <2> QED
    BY <1>3, <2>1, OthersKnow
<1> QED
  BY <1>1, <1>2, <1>3 DEF VillageInvariant

\* A flow that throws knows nothing any more of its market.
LEMMA ThrowingKnows ==
  ASSUME VillageInvariant, NEW m \in Makers,
         NEW why \in {"lost", "taken", "refused", "exhausted"}, Throws(m, why)
  PROVE  /\ MakerKnows(m)'
         /\ [maker[m] EXCEPT !.at = "failed", !.why = why] \in MakerRecord
         /\ maker' = [maker EXCEPT ![m] = [maker[m] EXCEPT !.at = "failed", !.why = why]]
<1>1. maker[m] \in MakerRecord /\ "failed" \in Stages /\ MakerKnows(m)
  BY DEF VillageInvariant, VillageTypeOK, Stages
<1>2. [maker[m] EXCEPT !.at = "failed", !.why = why] \in MakerRecord
  BY <1>1, MakerRecords
<1>3. maker' = [maker EXCEPT ![m] = [maker[m] EXCEPT !.at = "failed", !.why = why]]
  BY DEF Throws
<1>4. maker'[m].at = "failed" /\ maker'[m].kind = maker[m].kind /\ maker'[m].id = maker[m].id
  BY <1>1, <1>3 DEF VillageInvariant, VillageTypeOK, MakerRecord
<1> QED
  BY <1>1, <1>2, <1>3, <1>4 DEF MakerKnows, Reached

\* A flow that goes on knows what it has reached.
LEMMA GoingKnows ==
  ASSUME VillageInvariant, NEW m \in Makers, NEW at \in Stages \ {"claim"}, Goes(m, at),
         Reached(m, maker[m].id, at)'
  PROVE  /\ MakerKnows(m)'
         /\ [maker[m] EXCEPT !.at = at] \in MakerRecord
         /\ maker' = [maker EXCEPT ![m] = [maker[m] EXCEPT !.at = at]]
<1>1. maker[m] \in MakerRecord /\ MakerKnows(m)
  BY DEF VillageInvariant, VillageTypeOK
<1>2. [maker[m] EXCEPT !.at = at] \in MakerRecord
  BY <1>1, MakerRecords
<1>3. maker' = [maker EXCEPT ![m] = [maker[m] EXCEPT !.at = at]]
  BY DEF Goes
<1>4. maker'[m].at = at /\ maker'[m].kind = maker[m].kind /\ maker'[m].id = maker[m].id
  BY <1>1, <1>3 DEF VillageInvariant, VillageTypeOK, MakerRecord
<1> QED
  BY <1>1, <1>2, <1>3, <1>4 DEF MakerKnows

\* A transaction that lands, whether the flow hears of it or not.
LEMMA LandingKeeps ==
  ASSUME VillageInvariant, NEW m \in Makers, NEW i \in Ids, i = maker[m].id,
         market[i].maker \in {m, Nobody}, Others(i),
         village' \in [exists : BOOLEAN, count : Nat],
         market' \in [Ids -> MarketRecord], secret' \in [Ids -> SecretRecord],
         SealedIsPrivate(i)', NEW at \in Stages \ {"claim"}, Reached(m, i, at)',
         Goes(m, at) \/ Throws(m, "lost")
  PROVE  VillageInvariant'
<1>1. CASE Throws(m, "lost")
  BY <1>1, ThrowingKnows, ActingKeeps
<1>2. CASE Goes(m, at)
  <2>1. maker'[m].id = i
    BY <1>2 DEF Goes, VillageInvariant, VillageTypeOK, MakerRecord
  <2>2. Reached(m, maker[m].id, at)'
    BY <2>1 DEF Reached, Delegated
  <2>3. /\ MakerKnows(m)'
        /\ [maker[m] EXCEPT !.at = at] \in MakerRecord
        /\ maker' = [maker EXCEPT ![m] = [maker[m] EXCEPT !.at = at]]
    BY <1>2, <2>2, GoingKnows
  <2> QED
    BY <2>3, ActingKeeps
<1> QED
  BY <1>1, <1>2

\* A flow that throws without having landed anything.
LEMMA ThrowingKeeps ==
  ASSUME VillageInvariant, NEW m \in Makers, UNCHANGED chain,
         NEW why \in {"lost", "taken", "refused", "exhausted"}, Throws(m, why)
  PROVE  VillageInvariant'
BY ThrowingKnows, LookingKeeps

----------------------------------------------------------------------------
(* The transactions about a maker's own market.                            *)

\* create_market lands on a free id, confirmed or not.
LEMMA CreateKeeps ==
  ASSUME VillageInvariant, NEW m \in Makers, NEW i \in Ids, i = maker[m].id,
         Creatable(i), CreateMarket(m, i), Goes(m, "shell") \/ Throws(m, "lost")
  PROVE  VillageInvariant'
<1>1. market \in [Ids -> MarketRecord] /\ secret \in [Ids -> SecretRecord]
      /\ village \in [exists : BOOLEAN, count : Nat] /\ SealedIsPrivate(i)
  BY DEF VillageInvariant, VillageTypeOK
<1>2. market' = [market EXCEPT ![i] = [NoMarket EXCEPT !.maker = m, !.home = "L1"]]
  BY DEF CreateMarket, Creatable
<1>3. [NoMarket EXCEPT !.maker = m, !.home = "L1"] \in MarketRecord
  BY <1>1, MarketRecords
<1>4. [NoMarket EXCEPT !.maker = m, !.home = "L1"].maker = m
  BY DEF NoMarket
<1>5. market' \in [Ids -> MarketRecord] /\ market'[i].maker = m
      /\ \A j \in Ids \ {i} : market'[j] = market[j]
  BY <1>1, <1>2, <1>3, <1>4
<1>6. secret' = secret /\ village' \in [exists : BOOLEAN, count : Nat]
  BY <1>1 DEF CreateMarket
<1>7. SealedIsPrivate(i)'
  BY <1>1, <1>6 DEF SealedIsPrivate
<1>8. Reached(m, i, "shell")' /\ Others(i)
  BY <1>5, <1>6 DEF Reached, Others
<1>9. market[i].maker \in {m, Nobody} /\ "shell" \in Stages \ {"claim"}
  BY DEF Creatable, Stages
<1> QED
  BY <1>1, <1>5, <1>6, <1>7, <1>8, <1>9, LandingKeeps

\* The other transactions leave the maker of the market, or the market, alone.
Writes(i, market1, secret1) ==
  /\ market' = [market EXCEPT ![i] = market1]
  /\ secret' = [secret EXCEPT ![i] = secret1]
  /\ UNCHANGED village

\* A transaction that changes one maker and its own accounts keeps what the others know.
LEMMA WritingKeeps ==
  ASSUME VillageInvariant, NEW m \in Makers, NEW i \in Ids, i = maker[m].id,
         NEW market1 \in MarketRecord, NEW secret1 \in SecretRecord,
         Writes(i, market1, secret1), market[i].maker = m, market1.maker = m,
         secret1.text # Nobody => secret1.home = "ER" /\ secret1.permission = "private",
         NEW at \in Stages \ {"claim"},
         at \in {"marketPermission", "permission", "seal", "done"} =>
           market1.home = "ER" /\ secret1.home = "ER",
         at \in {"seal", "done"} => secret1.permission = "private",
         at = "done" => secret1.text = m,
         Goes(m, at) \/ Throws(m, "lost")
  PROVE  VillageInvariant'
<1>1. market \in [Ids -> MarketRecord] /\ secret \in [Ids -> SecretRecord]
      /\ village \in [exists : BOOLEAN, count : Nat]
  BY DEF VillageInvariant, VillageTypeOK
<1>2. /\ market' \in [Ids -> MarketRecord] /\ secret' \in [Ids -> SecretRecord]
      /\ village' \in [exists : BOOLEAN, count : Nat]
      /\ market'[i] = market1 /\ secret'[i] = secret1
  BY <1>1 DEF Writes
<1>3. Others(i)
  BY <1>1 DEF Writes, Others
<1>4. SealedIsPrivate(i)'
  BY <1>2 DEF SealedIsPrivate
<1>5. Reached(m, i, at)'
  BY <1>2 DEF Reached, Delegated
<1> QED
  BY <1>2, <1>3, <1>4, <1>5, LandingKeeps

\* create_secret_shell.
LEMMA ShellKeeps ==
  ASSUME VillageInvariant, NEW m \in Makers, NEW i \in Ids, i = maker[m].id,
         maker[m].at = "shell", market[i].home = "L1" /\ secret[i].home = "none", CreateSecretShell(i),
         Goes(m, After("shell")) \/ Throws(m, "lost")
  PROVE  VillageInvariant'
<1> DEFINE market1 == market[i]
           secret1 == [secret[i] EXCEPT !.home = "L1"]
<1>1. market \in [Ids -> MarketRecord] /\ secret \in [Ids -> SecretRecord]
      /\ SealedIsPrivate(i) /\ MakerKnows(m)
  BY DEF VillageInvariant, VillageTypeOK
<1>2. market[i] \in MarketRecord /\ secret[i] \in SecretRecord
  BY <1>1
<1>3. market1 \in MarketRecord /\ secret1 \in SecretRecord
  BY <1>2, SecretRecords
<1>4. Reached(m, i, "shell")
  BY <1>1 DEF MakerKnows
<1>5. market[i].maker = m
  BY <1>4 DEF Reached, Stages
<1>6. Writes(i, market1, secret1)
  BY <1>1 DEF Writes, CreateSecretShell
<1>7. market1.maker = m
  BY <1>2, <1>5 DEF MarketRecord
<1>8. secret1.text # Nobody => secret1.home = "ER" /\ secret1.permission = "private"
  BY <1>1, <1>2, <1>4 DEF SealedIsPrivate, Reached, Delegated, SecretRecord
<1>9. /\ "delegate" \in {"marketPermission", "permission", "seal", "done"} =>
           market1.home = "ER" /\ secret1.home = "ER"
      /\ "delegate" \in {"seal", "done"} => secret1.permission = "private"
      /\ "delegate" = "done" => secret1.text = m
  BY <1>2, <1>4 DEF Reached, Delegated, MarketRecord, SecretRecord
<1>10. "delegate" \in Stages \ {"claim"} /\ (Goes(m, "delegate") \/ Throws(m, "lost"))
  BY NextStages DEF Stages
<1> HIDE DEF market1, secret1
<1> QED
  BY <1>3, <1>5, <1>6, <1>7, <1>8, <1>9, <1>10, WritingKeeps

\* delegate_market.
LEMMA DelegateMarketKeeps ==
  ASSUME VillageInvariant, NEW m \in Makers, NEW i \in Ids, i = maker[m].id,
         maker[m].at = "delegate", market[i].home = "L1", DelegateMarket(i),
         Goes(m, After("delegate")) \/ Throws(m, "lost")
  PROVE  VillageInvariant'
<1> DEFINE market1 == [market[i] EXCEPT !.home = "ER"]
           secret1 == secret[i]
<1>1. market \in [Ids -> MarketRecord] /\ secret \in [Ids -> SecretRecord]
      /\ SealedIsPrivate(i) /\ MakerKnows(m)
  BY DEF VillageInvariant, VillageTypeOK
<1>2. market[i] \in MarketRecord /\ secret[i] \in SecretRecord
  BY <1>1
<1>3. market1 \in MarketRecord /\ secret1 \in SecretRecord
  BY <1>2, MarketRecords
<1>4. Reached(m, i, "delegate")
  BY <1>1 DEF MakerKnows
<1>5. market[i].maker = m
  BY <1>4 DEF Reached, Stages
<1>6. Writes(i, market1, secret1)
  BY <1>1 DEF Writes, DelegateMarket
<1>7. market1.maker = m
  BY <1>2, <1>5 DEF MarketRecord
<1>8. secret1.text # Nobody => secret1.home = "ER" /\ secret1.permission = "private"
  BY <1>1, <1>2, <1>4 DEF SealedIsPrivate, Reached, Delegated, SecretRecord
<1>9. /\ "delegateSecret" \in {"marketPermission", "permission", "seal", "done"} =>
           market1.home = "ER" /\ secret1.home = "ER"
      /\ "delegateSecret" \in {"seal", "done"} => secret1.permission = "private"
      /\ "delegateSecret" = "done" => secret1.text = m
  BY <1>2, <1>4 DEF Reached, Delegated, MarketRecord, SecretRecord
<1>10. "delegateSecret" \in Stages \ {"claim"} /\ (Goes(m, "delegateSecret") \/ Throws(m, "lost"))
  BY NextStages DEF Stages
<1> HIDE DEF market1, secret1
<1> QED
  BY <1>3, <1>5, <1>6, <1>7, <1>8, <1>9, <1>10, WritingKeeps

\* delegate_secret.
LEMMA DelegateSecretKeeps ==
  ASSUME VillageInvariant, NEW m \in Makers, NEW i \in Ids, i = maker[m].id,
         maker[m].at = "delegateSecret", secret[i].home = "L1", DelegateSecret(i),
         Goes(m, After("delegateSecret")) \/ Throws(m, "lost")
  PROVE  VillageInvariant'
<1> DEFINE market1 == market[i]
           secret1 == [secret[i] EXCEPT !.home = "ER"]
<1>1. market \in [Ids -> MarketRecord] /\ secret \in [Ids -> SecretRecord]
      /\ SealedIsPrivate(i) /\ MakerKnows(m)
  BY DEF VillageInvariant, VillageTypeOK
<1>2. market[i] \in MarketRecord /\ secret[i] \in SecretRecord
  BY <1>1
<1>3. market1 \in MarketRecord /\ secret1 \in SecretRecord
  BY <1>2, SecretRecords
<1>4. Reached(m, i, "delegateSecret")
  BY <1>1 DEF MakerKnows
<1>5. market[i].maker = m
  BY <1>4 DEF Reached, Stages
<1>6. Writes(i, market1, secret1)
  BY <1>1 DEF Writes, DelegateSecret
<1>7. market1.maker = m
  BY <1>2, <1>5 DEF MarketRecord
<1>8. secret1.text # Nobody => secret1.home = "ER" /\ secret1.permission = "private"
  BY <1>1, <1>2, <1>4 DEF SealedIsPrivate, Reached, Delegated, SecretRecord
<1>9. /\ "await" \in {"marketPermission", "permission", "seal", "done"} =>
           market1.home = "ER" /\ secret1.home = "ER"
      /\ "await" \in {"seal", "done"} => secret1.permission = "private"
      /\ "await" = "done" => secret1.text = m
  BY <1>2, <1>4 DEF Reached, Delegated, MarketRecord, SecretRecord
<1>10. "await" \in Stages \ {"claim"} /\ (Goes(m, "await") \/ Throws(m, "lost"))
  BY NextStages DEF Stages
<1> HIDE DEF market1, secret1
<1> QED
  BY <1>3, <1>5, <1>6, <1>7, <1>8, <1>9, <1>10, WritingKeeps

\* init_market_permission.
LEMMA MarketPermissionKeeps ==
  ASSUME VillageInvariant, NEW m \in Makers, NEW i \in Ids, i = maker[m].id,
         maker[m].at = "marketPermission", market[i].home = "ER", InitMarketPermission(i),
         Goes(m, After("marketPermission")) \/ Throws(m, "lost")
  PROVE  VillageInvariant'
<1> DEFINE market1 == [market[i] EXCEPT !.permission = "public"]
           secret1 == secret[i]
<1>1. market \in [Ids -> MarketRecord] /\ secret \in [Ids -> SecretRecord]
      /\ SealedIsPrivate(i) /\ MakerKnows(m)
  BY DEF VillageInvariant, VillageTypeOK
<1>2. market[i] \in MarketRecord /\ secret[i] \in SecretRecord
  BY <1>1
<1>3. market1 \in MarketRecord /\ secret1 \in SecretRecord
  BY <1>2, MarketRecords
<1>4. Reached(m, i, "marketPermission")
  BY <1>1 DEF MakerKnows
<1>5. market[i].maker = m
  BY <1>4 DEF Reached, Stages
<1>6. Writes(i, market1, secret1)
  BY <1>1 DEF Writes, InitMarketPermission
<1>7. market1.maker = m
  BY <1>2, <1>5 DEF MarketRecord
<1>8. secret1.text # Nobody => secret1.home = "ER" /\ secret1.permission = "private"
  BY <1>1, <1>2, <1>4 DEF SealedIsPrivate, Reached, Delegated, SecretRecord
<1>9. /\ "permission" \in {"marketPermission", "permission", "seal", "done"} =>
           market1.home = "ER" /\ secret1.home = "ER"
      /\ "permission" \in {"seal", "done"} => secret1.permission = "private"
      /\ "permission" = "done" => secret1.text = m
  BY <1>2, <1>4 DEF Reached, Delegated, MarketRecord, SecretRecord
<1>10. "permission" \in Stages \ {"claim"} /\ (Goes(m, "permission") \/ Throws(m, "lost"))
  BY NextStages DEF Stages
<1> HIDE DEF market1, secret1
<1> QED
  BY <1>3, <1>5, <1>6, <1>7, <1>8, <1>9, <1>10, WritingKeeps

\* init_secret_permission: from here on the text may be sealed.
LEMMA PermissionKeeps ==
  ASSUME VillageInvariant, NEW m \in Makers, NEW i \in Ids, i = maker[m].id,
         maker[m].at = "permission", Delegated(i), InitSecretPermission(i),
         Goes(m, After("permission")) \/ Throws(m, "lost")
  PROVE  VillageInvariant'
<1> DEFINE market1 == market[i]
           secret1 == [secret[i] EXCEPT !.permission = "private"]
<1>1. market \in [Ids -> MarketRecord] /\ secret \in [Ids -> SecretRecord]
      /\ SealedIsPrivate(i) /\ MakerKnows(m)
  BY DEF VillageInvariant, VillageTypeOK
<1>2. market[i] \in MarketRecord /\ secret[i] \in SecretRecord
  BY <1>1
<1>3. market1 \in MarketRecord /\ secret1 \in SecretRecord
  BY <1>2, SecretRecords
<1>4. Reached(m, i, "permission")
  BY <1>1 DEF MakerKnows
<1>5. market[i].maker = m
  BY <1>4 DEF Reached, Stages
<1>6. Writes(i, market1, secret1)
  BY <1>1 DEF Writes, InitSecretPermission
<1>7. market1.maker = m
  BY <1>2, <1>5 DEF MarketRecord
<1>8. secret1.text # Nobody => secret1.home = "ER" /\ secret1.permission = "private"
  BY <1>1, <1>2, <1>4 DEF SealedIsPrivate, Reached, Delegated, SecretRecord
<1>9. /\ "seal" \in {"marketPermission", "permission", "seal", "done"} =>
           market1.home = "ER" /\ secret1.home = "ER"
      /\ "seal" \in {"seal", "done"} => secret1.permission = "private"
      /\ "seal" = "done" => secret1.text = m
  BY <1>2, <1>4 DEF Reached, Delegated, MarketRecord, SecretRecord
<1>10. "seal" \in Stages \ {"claim"} /\ (Goes(m, "seal") \/ Throws(m, "lost"))
  BY NextStages DEF Stages
<1> HIDE DEF market1, secret1
<1> QED
  BY <1>3, <1>5, <1>6, <1>7, <1>8, <1>9, <1>10, WritingKeeps

\* seal_secret: the permission is there, as no step of the flow was skipped.
LEMMA SealKeeps ==
  ASSUME VillageInvariant, NEW m \in Makers, NEW i \in Ids, i = maker[m].id,
         maker[m].at = "seal", Delegated(i), SealSecret(m, i),
         Goes(m, After("seal")) \/ Throws(m, "lost")
  PROVE  VillageInvariant'
<1> DEFINE market1 == market[i]
           secret1 == [secret[i] EXCEPT !.text = m]
<1>1. market \in [Ids -> MarketRecord] /\ secret \in [Ids -> SecretRecord]
      /\ SealedIsPrivate(i) /\ MakerKnows(m)
  BY DEF VillageInvariant, VillageTypeOK
<1>2. market[i] \in MarketRecord /\ secret[i] \in SecretRecord
  BY <1>1
<1>3. market1 \in MarketRecord /\ secret1 \in SecretRecord
  BY <1>2, SecretRecords
<1>4. Reached(m, i, "seal")
  BY <1>1 DEF MakerKnows
<1>5. market[i].maker = m
  BY <1>4 DEF Reached, Stages
<1>6. Writes(i, market1, secret1)
  BY <1>1 DEF Writes, SealSecret
<1>7. market1.maker = m
  BY <1>2, <1>5 DEF MarketRecord
<1>8. secret1.text # Nobody => secret1.home = "ER" /\ secret1.permission = "private"
  BY <1>1, <1>2, <1>4 DEF SealedIsPrivate, Reached, Delegated, SecretRecord
<1>9. /\ "done" \in {"marketPermission", "permission", "seal", "done"} =>
           market1.home = "ER" /\ secret1.home = "ER"
      /\ "done" \in {"seal", "done"} => secret1.permission = "private"
      /\ "done" = "done" => secret1.text = m
  BY <1>2, <1>4 DEF Reached, Delegated, MarketRecord, SecretRecord
<1>10. "done" \in Stages \ {"claim"} /\ (Goes(m, "done") \/ Throws(m, "lost"))
  BY NextStages DEF Stages
<1> HIDE DEF market1, secret1
<1> QED
  BY <1>3, <1>5, <1>6, <1>7, <1>8, <1>9, <1>10, WritingKeeps

----------------------------------------------------------------------------
(* The invariant holds.                                                    *)

\* The invariant holds of the markets that earlier seeds left.
LEMMA InitKeeps == VillageInit => VillageInvariant
<1> SUFFICES ASSUME VillageInit PROVE VillageInvariant
  OBVIOUS
<1>1. village \in [exists : BOOLEAN, count : Nat]
  <2>1. PICK standing \in SUBSET Standing :
          village \in [exists : BOOLEAN, count : 0..Cardinality(standing)]
    BY DEF VillageInit
  <2> QED
    BY <2>1
<1>2. /\ [maker |-> Earlier, home |-> "ER", permission |-> "public"] \in MarketRecord
      /\ NoMarket \in MarketRecord
      /\ [home |-> "ER", permission |-> "private", text |-> Earlier] \in SecretRecord
      /\ NoSecret \in SecretRecord
  BY DEF MarketRecord, SecretRecord, NoMarket, NoSecret
<1>3. market \in [Ids -> MarketRecord] /\ secret \in [Ids -> SecretRecord]
  BY <1>2 DEF VillageInit
<1>4. \A i \in Ids : SealedIsPrivate(i)
  BY DEF VillageInit, SealedIsPrivate, NoSecret
<1>5. /\ maker \in [Makers -> MakerRecord]
      /\ \A m \in Makers : maker[m].at = "village"
  <2> DEFINE Start == [kind : {"tab", "seed"}, at : {"village"}, id : Ids, looks : {0},
                       tries : {0}, why : {"none"}]
  <2>1. maker \in [Makers -> Start]
    BY DEF VillageInit
  <2>2. Ids \subseteq Nat /\ {0} \subseteq Nat /\ {"village"} \subseteq Stages
    BY VillageAssumption DEF Stages
  <2>3. ASSUME NEW now \in Start
        PROVE  now \in MakerRecord /\ now.at = "village"
    BY <2>2 DEF MakerRecord
  <2> HIDE DEF Start
  <2> QED
    BY <2>1, <2>3
<1>6. \A m \in Makers : maker[m].kind = "tab" => maker[m].id \in Drawn
  BY DEF VillageInit
<1>7. \A m \in Makers : MakerKnows(m)
  BY <1>5, <1>6 DEF MakerKnows, Reached, Stages
<1> QED
  BY <1>1, <1>3, <1>4, <1>5, <1>7 DEF VillageInvariant, VillageTypeOK

\* A look, and what a flow does after it without a transaction.
LEMMA GoingKeeps ==
  ASSUME VillageInvariant, NEW m \in Makers, UNCHANGED chain,
         NEW at \in Stages \ {"claim"}, Goes(m, at), Reached(m, maker[m].id, at)
  PROVE  VillageInvariant'
<1>1. maker'[m].id = maker[m].id
  BY DEF Goes, VillageInvariant, VillageTypeOK, MakerRecord
<1>2. Reached(m, maker[m].id, at)'
  BY <1>1 DEF Reached, Delegated, chain
<1> QED
  BY <1>2, GoingKnows, LookingKeeps

\* A seed goes to look at an id.
LEMMA ClaimingKeeps ==
  ASSUME VillageInvariant, NEW m \in Makers, UNCHANGED chain, maker[m].kind = "seed",
         NEW now \in MakerRecord, now.at = "claim", now.kind = "seed",
         maker' = [maker EXCEPT ![m] = now]
  PROVE  VillageInvariant'
<1>1. maker'[m] = now
  BY DEF VillageInvariant, VillageTypeOK
<1>2. MakerKnows(m)'
  BY <1>1 DEF MakerKnows, Reached
<1> QED
  BY <1>2, LookingKeeps

\* A maker that looks whether the village is there.
LEMMA LooksForVillageKeeps ==
  ASSUME VillageInvariant, NEW m \in Makers, LooksForVillage(m)
  PROVE  VillageInvariant'
<1>1. \A at \in {"enter", "open"} : Reached(m, maker[m].id, at) /\ at \in Stages \ {"claim"}
  BY DEF Reached, Stages
<1>2. CASE Goes(m, IF village.exists THEN "enter" ELSE "open")
  BY <1>1, <1>2, GoingKeeps DEF LooksForVillage
<1>3. CASE Throws(m, "lost")
  BY <1>3, ThrowingKeeps DEF LooksForVillage
<1> QED
  BY <1>2, <1>3 DEF LooksForVillage

\* initialize_village, which may wind the count back.
LEMMA OpensVillageKeeps ==
  ASSUME VillageInvariant, NEW m \in Makers, OpensVillage(m)
  PROVE  VillageInvariant'
<1>1. CASE InitializeVillage
  <2>1. village' \in [exists : BOOLEAN, count : Nat] /\ UNCHANGED <<market, secret>>
    BY <1>1 DEF InitializeVillage
  <2>2. Goes(m, "enter") \/ Throws(m, "lost")
    BY DEF OpensVillage, Sends
  <2>3. "enter" \in Stages \ {"claim"} /\ Reached(m, maker[m].id, "enter")'
    BY DEF Reached, Stages
  <2>4. \E now \in MakerRecord : maker' = [maker EXCEPT ![m] = now] /\ MakerKnows(m)'
    BY <2>2, <2>3, GoingKnows, ThrowingKnows
  <2>5. PICK now \in MakerRecord : maker' = [maker EXCEPT ![m] = now] /\ MakerKnows(m)'
    BY <2>4
  <2>6. VillageTypeOK' /\ \A i \in Ids : SealedIsPrivate(i)'
    BY <2>1, <2>5 DEF VillageInvariant, VillageTypeOK, SealedIsPrivate
  <2>7. ASSUME NEW other \in Makers, other # m
        PROVE  MakerKnows(other)'
    <3>1. MakerKnows(other) /\ maker'[other] = maker[other]
      BY <2>5, <2>7 DEF VillageInvariant, VillageTypeOK
    <3> QED
      BY <2>1, <3>1 DEF MakerKnows, Reached, Delegated
  <2> QED
    BY <2>5, <2>6, <2>7 DEF VillageInvariant
<1>2. CASE UNCHANGED chain /\ Throws(m, "lost")
  BY <1>2, ThrowingKeeps
<1> QED
  BY <1>1, <1>2 DEF OpensVillage, Sends

\* A maker that goes on to its id: a tab has drawn one, a seed takes the count.
LEMMA EntersKeeps ==
  ASSUME VillageInvariant, NEW m \in Makers, Enters(m)
  PROVE  VillageInvariant'
<1>1. maker[m] \in MakerRecord /\ village.count \in Nat /\ MakerKnows(m) /\ UNCHANGED chain
  BY DEF VillageInvariant, VillageTypeOK, Enters
<1>2. CASE maker[m].kind = "tab" /\ Goes(m, "create")
  <2>1. Reached(m, maker[m].id, "create") /\ "create" \in Stages \ {"claim"}
    BY <1>1, <1>2, VillageAssumption DEF MakerKnows, Reached, Stages
  <2> QED
    BY <1>1, <1>2, <2>1, GoingKeeps
<1>3. CASE /\ maker[m].kind = "seed"
           /\ maker' = [maker EXCEPT ![m].at = "claim", ![m].id = village.count]
  <2> DEFINE now == [maker[m] EXCEPT !.at = "claim", !.id = village.count]
  <2>1. now \in MakerRecord
    BY <1>1, MakerRecords DEF Stages
  <2>2. now.at = "claim" /\ now.kind = "seed" /\ maker' = [maker EXCEPT ![m] = now]
    BY <1>1, <1>3 DEF MakerRecord
  <2> QED
    BY <1>1, <1>3, <2>1, <2>2, ClaimingKeeps
<1>4. CASE Throws(m, "lost")
  BY <1>1, <1>4, ThrowingKeeps
<1> QED
  BY <1>2, <1>3, <1>4 DEF Enters

\* claimId: a maker that looks for an id which is free.
LEMMA ClaimsIdKeeps ==
  ASSUME VillageInvariant, NEW m \in Makers, ClaimsId(m)
  PROVE  VillageInvariant'
<1>1. /\ maker[m] \in MakerRecord /\ MakerKnows(m) /\ UNCHANGED chain
      /\ maker[m].at = "claim" /\ maker[m].id \in Ids
  BY DEF VillageInvariant, VillageTypeOK, ClaimsId
<1>2. maker[m].kind = "seed"
  BY <1>1 DEF MakerKnows, MakerRecord
<1>3. CASE Goes(m, "create")
  <2>1. Reached(m, maker[m].id, "create") /\ "create" \in Stages \ {"claim"}
    BY <1>1 DEF Reached, Stages
  <2> QED
    BY <1>1, <1>3, <2>1, GoingKeeps
<1>4. CASE maker' = [maker EXCEPT ![m].looks = @ + 1, ![m].id = @ + 1]
  <2> DEFINE now == [maker[m] EXCEPT !.looks = @ + 1, !.id = @ + 1]
  <2>1. maker[m].looks + 1 \in Nat /\ maker[m].id + 1 \in Nat
    BY <1>1 DEF MakerRecord
  <2>2. now \in MakerRecord
    BY <1>1, <2>1 DEF MakerRecord
  <2>3. now.at = "claim" /\ now.kind = "seed" /\ maker' = [maker EXCEPT ![m] = now]
    BY <1>1, <1>2, <1>4 DEF MakerRecord
  <2> QED
    BY <1>1, <1>2, <2>2, <2>3, ClaimingKeeps
<1>5. CASE \E why \in {"exhausted", "lost"} : Throws(m, why)
  BY <1>1, <1>5, ThrowingKeeps
<1> QED
  BY <1>3, <1>4, <1>5 DEF ClaimsId

\* create_market, sent by either kind of client: landed, lost, or the id is taken.
LEMMA CreatesKeeps ==
  ASSUME VillageInvariant, NEW m \in Makers, Creates(m)
  PROVE  VillageInvariant'
<1> DEFINE i == maker[m].id
<1>1. /\ maker[m] \in MakerRecord /\ MakerKnows(m) /\ maker[m].at = "create"
  BY DEF VillageInvariant, VillageTypeOK, Creates
<1>2. i \in Ids
  BY <1>1 DEF MakerKnows, Reached, Stages
<1>3. CASE Creatable(i) /\ CreateMarket(m, i) /\ (Goes(m, "shell") \/ Throws(m, "lost"))
  BY <1>2, <1>3, CreateKeeps
<1>4. CASE UNCHANGED chain /\ Throws(m, "lost")
  BY <1>4, ThrowingKeeps
<1>5. CASE UNCHANGED chain /\ IdTaken(m)
  <2>1. CASE /\ maker[m].kind = "seed"
             /\ maker' = [maker EXCEPT ![m].at = "claim", ![m].id = @ + 1, ![m].looks = 0,
                                       ![m].tries = @ + 1]
    <3> DEFINE now == [maker[m] EXCEPT !.at = "claim", !.id = @ + 1, !.looks = 0, !.tries = @ + 1]
    <3>1. maker[m].tries + 1 \in Nat /\ maker[m].id + 1 \in Nat /\ 0 \in Nat
      BY <1>1 DEF MakerRecord
    <3>2. now \in MakerRecord
      BY <1>1, <3>1 DEF MakerRecord, Stages
    <3>3. now.at = "claim" /\ now.kind = "seed" /\ maker' = [maker EXCEPT ![m] = now]
      BY <1>1, <2>1 DEF MakerRecord
    <3> QED
      BY <1>5, <2>1, <3>2, <3>3, ClaimingKeeps
  <2>2. CASE \E why \in {"exhausted", "taken"} : Throws(m, why)
    BY <1>5, <2>2, ThrowingKeeps
  <2> QED
    BY <1>5, <2>1, <2>2 DEF IdTaken
<1> QED
  BY <1>3, <1>4, <1>5 DEF Creates, Sends

\* await_er: a maker that waits for its clones.
LEMMA AwaitsKeeps ==
  ASSUME VillageInvariant, NEW m \in Makers, Awaits(m)
  PROVE  VillageInvariant'
<1>1. CASE Delegated(maker[m].id) /\ Goes(m, After("await"))
  <2>1. MakerKnows(m) /\ maker[m].at = "await"
    BY DEF VillageInvariant, Awaits
  <2>2. Reached(m, maker[m].id, "marketPermission")
    BY <1>1, <2>1 DEF MakerKnows, Reached, Stages
  <2>3. "marketPermission" \in Stages \ {"claim"}
    BY DEF Stages
  <2> QED
    BY <1>1, <2>2, <2>3, NextStages, GoingKeeps DEF Awaits
<1>2. CASE Throws(m, "lost")
  BY <1>2, ThrowingKeeps DEF Awaits
<1> QED
  BY <1>1, <1>2 DEF Awaits

\* A market that goes home is of a maker that has ended, if it is one of theirs.
LEMMA GoingHomeKeeps ==
  ASSUME VillageInvariant, SealersAreDone, NEW i \in Ids, GoesHome(i)
  PROVE  VillageInvariant'
<1>1. /\ market \in [Ids -> MarketRecord] /\ market[i].home = "ER"
      /\ market' = [market EXCEPT ![i].home = "back"]
      /\ UNCHANGED <<village, secret, maker>>
  BY DEF VillageInvariant, VillageTypeOK, GoesHome
<1>2. [market[i] EXCEPT !.home = "back"] \in MarketRecord
  BY <1>1 DEF MarketRecord
<1>3. /\ market' \in [Ids -> MarketRecord] /\ market'[i].maker = market[i].maker
      /\ \A j \in Ids \ {i} : market'[j] = market[j]
  BY <1>1, <1>2 DEF MarketRecord
<1>4. ASSUME NEW m \in Makers
      PROVE  MakerKnows(m)'
  <2>1. MakerKnows(m) /\ m # Nobody
    BY VillageAssumption DEF VillageInvariant
  <2>2. CASE maker[m].at \in {"marketPermission", "permission", "seal"}
    <3>1. maker[m].id \in Ids /\ market[maker[m].id].maker = m
      BY <2>1, <2>2 DEF MakerKnows, Reached, Stages
    <3>2. maker[m].id # i
      BY <1>4, <2>1, <2>2, <3>1 DEF SealersAreDone, GoesHome
    <3> QED
      BY <1>1, <1>3, <2>1, <2>2, <3>1, <3>2 DEF MakerKnows, Reached, Delegated
  <2>3. CASE maker[m].at \notin {"marketPermission", "permission", "seal"}
    <3>1. \A j \in Ids : market'[j].maker = market[j].maker
      BY <1>3
    <3> QED
      BY <1>1, <2>1, <2>3, <3>1 DEF MakerKnows, Reached
  <2> QED
    BY <2>2, <2>3
<1> QED
  BY <1>1, <1>3, <1>4 DEF VillageInvariant, VillageTypeOK, SealedIsPrivate

\* Every step of the makers and of the probe keeps the invariant.
LEMMA NextKeeps ==
  ASSUME VillageInvariant, SealersAreDone, [VillageNext]_villageVars
  PROVE  VillageInvariant'
<1>1. CASE UNCHANGED <<chain, maker>>
  BY <1>1 DEF VillageInvariant, VillageTypeOK, SealedIsPrivate, MakerKnows, Reached, Delegated,
              chain
<1>2. ASSUME NEW m \in Makers, MakerStep(m)
      PROVE  VillageInvariant'
  <2> DEFINE i == maker[m].id
  <2>1. MakerKnows(m)
    BY DEF VillageInvariant
  <2>2. maker[m].at \in Stages \ {"village", "open", "enter", "claim", "failed"} => i \in Ids
    BY <2>1 DEF MakerKnows, Reached
  <2>3. CASE Step(m, "shell", market[i].home = "L1" /\ secret[i].home = "none", CreateSecretShell(i))
    <3>1. maker[m].at = "shell" /\ i \in Ids
      BY <2>2, <2>3 DEF Step, Stages
    <3>2. CASE /\ market[i].home = "L1" /\ secret[i].home = "none" /\ CreateSecretShell(i)
               /\ Goes(m, After("shell")) \/ Throws(m, "lost")
      BY <3>1, <3>2, ShellKeeps
    <3>3. CASE UNCHANGED chain /\ (Throws(m, "lost") \/ Throws(m, "refused"))
      BY <3>3, ThrowingKeeps
    <3> QED
      BY <2>3, <3>2, <3>3 DEF Step, Sends
  <2>4. CASE Step(m, "delegate", market[i].home = "L1", DelegateMarket(i))
    <3>1. maker[m].at = "delegate" /\ i \in Ids
      BY <2>2, <2>4 DEF Step, Stages
    <3>2. CASE /\ market[i].home = "L1" /\ DelegateMarket(i)
               /\ Goes(m, After("delegate")) \/ Throws(m, "lost")
      BY <3>1, <3>2, DelegateMarketKeeps
    <3>3. CASE UNCHANGED chain /\ (Throws(m, "lost") \/ Throws(m, "refused"))
      BY <3>3, ThrowingKeeps
    <3> QED
      BY <2>4, <3>2, <3>3 DEF Step, Sends
  <2>5. CASE Step(m, "delegateSecret", secret[i].home = "L1", DelegateSecret(i))
    <3>1. maker[m].at = "delegateSecret" /\ i \in Ids
      BY <2>2, <2>5 DEF Step, Stages
    <3>2. CASE /\ secret[i].home = "L1" /\ DelegateSecret(i)
               /\ Goes(m, After("delegateSecret")) \/ Throws(m, "lost")
      BY <3>1, <3>2, DelegateSecretKeeps
    <3>3. CASE UNCHANGED chain /\ (Throws(m, "lost") \/ Throws(m, "refused"))
      BY <3>3, ThrowingKeeps
    <3> QED
      BY <2>5, <3>2, <3>3 DEF Step, Sends
  <2>6. CASE Step(m, "marketPermission", market[i].home = "ER", InitMarketPermission(i))
    <3>1. maker[m].at = "marketPermission" /\ i \in Ids
      BY <2>2, <2>6 DEF Step, Stages
    <3>2. CASE /\ market[i].home = "ER" /\ InitMarketPermission(i)
               /\ Goes(m, After("marketPermission")) \/ Throws(m, "lost")
      BY <3>1, <3>2, MarketPermissionKeeps
    <3>3. CASE UNCHANGED chain /\ (Throws(m, "lost") \/ Throws(m, "refused"))
      BY <3>3, ThrowingKeeps
    <3> QED
      BY <2>6, <3>2, <3>3 DEF Step, Sends
  <2>7. CASE Step(m, "permission", Delegated(i), InitSecretPermission(i))
    <3>1. maker[m].at = "permission" /\ i \in Ids
      BY <2>2, <2>7 DEF Step, Stages
    <3>2. CASE /\ Delegated(i) /\ InitSecretPermission(i)
               /\ Goes(m, After("permission")) \/ Throws(m, "lost")
      BY <3>1, <3>2, PermissionKeeps
    <3>3. CASE UNCHANGED chain /\ (Throws(m, "lost") \/ Throws(m, "refused"))
      BY <3>3, ThrowingKeeps
    <3> QED
      BY <2>7, <3>2, <3>3 DEF Step, Sends
  <2>8. CASE Step(m, "seal", Delegated(i), SealSecret(m, i))
    <3>1. maker[m].at = "seal" /\ i \in Ids
      BY <2>2, <2>8 DEF Step, Stages
    <3>2. CASE /\ Delegated(i) /\ SealSecret(m, i)
               /\ Goes(m, After("seal")) \/ Throws(m, "lost")
      BY <3>1, <3>2, SealKeeps
    <3>3. CASE UNCHANGED chain /\ (Throws(m, "lost") \/ Throws(m, "refused"))
      BY <3>3, ThrowingKeeps
    <3> QED
      BY <2>8, <3>2, <3>3 DEF Step, Sends
  <2>9. CASE \/ LooksForVillage(m) \/ OpensVillage(m) \/ Enters(m) \/ ClaimsId(m)
             \/ Creates(m) \/ Awaits(m)
    BY <2>9, LooksForVillageKeeps, OpensVillageKeeps, EntersKeeps, ClaimsIdKeeps, CreatesKeeps,
       AwaitsKeeps
  <2> QED
    BY <1>2, <2>3, <2>4, <2>5, <2>6, <2>7, <2>8, <2>9 DEF MakerStep
<1>3. ASSUME NEW i \in Ids, GoesHome(i)
      PROVE  VillageInvariant'
  BY <1>3, GoingHomeKeeps
<1> QED
  BY <1>1, <1>2, <1>3 DEF VillageNext, StrangerStep, villageVars

\* Of a text before the makers begin, the maker is an earlier one.
LEMMA SealersInit == VillageInit => SealersAreDone
<1> SUFFICES ASSUME VillageInit, NEW i \in Ids, secret[i].text # Nobody
             PROVE  market[i].maker = Earlier /\ secret[i].text = Earlier
  BY VillageAssumption DEF SealersAreDone
<1> QED
  BY DEF VillageInit, NoMarket, NoSecret

\* A step of a maker: it has not ended, it alone moves, a market that has a maker
\* keeps it, and a text is written by its sealing and by nothing else.
LEMMA MakersMove ==
  ASSUME VillageInvariant, NEW m \in Makers, MakerStep(m)
  PROVE  /\ maker[m].at \notin {"done", "failed"}
         /\ \A other \in Makers \ {m} : maker'[other] = maker[other]
         /\ \A i \in Ids : market[i].maker # Nobody => market'[i].maker = market[i].maker
         /\ \/ \A i \in Ids : secret'[i].text = secret[i].text
            \/ /\ maker[m].at = "seal" /\ maker[m].id \in Ids
               /\ secret' = [secret EXCEPT ![maker[m].id].text = m]
               /\ Goes(m, "done") \/ Throws(m, "lost")
<1> DEFINE i == maker[m].id
           Goal == /\ maker[m].at \notin {"done", "failed"}
                   /\ \A other \in Makers \ {m} : maker'[other] = maker[other]
                   /\ \A j \in Ids : market[j].maker # Nobody => market'[j].maker = market[j].maker
                   /\ \A j \in Ids : secret'[j].text = secret[j].text
<1>1. /\ maker \in [Makers -> MakerRecord] /\ market \in [Ids -> MarketRecord]
      /\ secret \in [Ids -> SecretRecord] /\ MakerKnows(m)
  BY DEF VillageInvariant, VillageTypeOK
<1>2. \A at : Goes(m, at) => \A other \in Makers \ {m} : maker'[other] = maker[other]
  BY <1>1 DEF Goes
<1>3. \A why : Throws(m, why) => \A other \in Makers \ {m} : maker'[other] = maker[other]
  BY <1>1 DEF Throws
<1>4. CASE LooksForVillage(m) \/ OpensVillage(m)
  BY <1>2, <1>3, <1>4 DEF LooksForVillage, OpensVillage, Sends, InitializeVillage, chain
<1>5. CASE Enters(m) \/ ClaimsId(m) \/ Awaits(m)
  BY <1>1, <1>2, <1>3, <1>5 DEF Enters, ClaimsId, Awaits, chain
<1>6. CASE Creates(m)
  <2>1. IdTaken(m) => \A other \in Makers \ {m} : maker'[other] = maker[other]
    BY <1>1, <1>3 DEF IdTaken
  <2>2. CASE UNCHANGED chain
    BY <1>2, <1>3, <1>6, <2>1, <2>2 DEF Creates, Sends, chain
  <2>3. CASE Creatable(i) /\ CreateMarket(m, i) /\ (Goes(m, "shell") \/ Throws(m, "lost"))
    <3>1. secret' = secret /\ \A j \in Ids : market[j].maker # Nobody => market'[j].maker = market[j].maker
      BY <1>1, <2>3 DEF Creatable, CreateMarket
    <3> QED
      BY <1>2, <1>3, <1>6, <2>3, <3>1 DEF Creates
  <2> QED
    BY <1>6, <2>2, <2>3 DEF Creates, Sends
<1>7. CASE Step(m, "shell", market[i].home = "L1" /\ secret[i].home = "none", CreateSecretShell(i))
  BY <1>1, <1>2, <1>3, <1>7 DEF Step, Sends, CreateSecretShell, SecretRecord, chain
<1>8. CASE Step(m, "delegate", market[i].home = "L1", DelegateMarket(i))
  BY <1>1, <1>2, <1>3, <1>8 DEF Step, Sends, DelegateMarket, MarketRecord, chain
<1>9. CASE Step(m, "delegateSecret", secret[i].home = "L1", DelegateSecret(i))
  BY <1>1, <1>2, <1>3, <1>9 DEF Step, Sends, DelegateSecret, SecretRecord, chain
<1>10. CASE Step(m, "marketPermission", market[i].home = "ER", InitMarketPermission(i))
  BY <1>1, <1>2, <1>3, <1>10 DEF Step, Sends, InitMarketPermission, MarketRecord, chain
<1>11. CASE Step(m, "permission", Delegated(i), InitSecretPermission(i))
  BY <1>1, <1>2, <1>3, <1>11 DEF Step, Sends, InitSecretPermission, SecretRecord, chain
<1>12. CASE Step(m, "seal", Delegated(i), SealSecret(m, i))
  <2>1. maker[m].at = "seal" /\ i \in Ids
    BY <1>1, <1>12 DEF Step, MakerKnows, Reached, Stages
  <2>2. CASE SealSecret(m, i) /\ (Goes(m, "done") \/ Throws(m, "lost"))
    BY <1>2, <1>3, <2>1, <2>2 DEF SealSecret
  <2>3. CASE UNCHANGED chain /\ (Throws(m, "lost") \/ Throws(m, "refused"))
    BY <1>3, <2>1, <2>3 DEF chain
  <2> QED
    BY <1>12, <2>2, <2>3, NextStages DEF Step, Sends
<1> QED
  BY <1>4, <1>5, <1>6, <1>7, <1>8, <1>9, <1>10, <1>11, <1>12 DEF MakerStep

\* Whoever has sealed has ended, and its market stays its own.
LEMMA SealersKeep ==
  ASSUME VillageInvariant, SealersAreDone, [VillageNext]_villageVars
  PROVE  SealersAreDone'
<1>1. CASE UNCHANGED <<chain, maker>>
  BY <1>1 DEF SealersAreDone, chain
<1>2. ASSUME NEW m \in Makers, MakerStep(m)
      PROVE  SealersAreDone'
  <2> SUFFICES ASSUME NEW i \in Ids, secret'[i].text # Nobody
               PROVE  /\ market'[i].maker = secret'[i].text
                      /\ secret'[i].text \in Makers =>
                           maker'[secret'[i].text].at \in {"done", "failed"}
    BY DEF SealersAreDone
  <2>0. Nobody \notin Makers /\ maker \in [Makers -> MakerRecord]
        /\ secret \in [Ids -> SecretRecord] /\ MakerKnows(m)
    BY VillageAssumption DEF VillageInvariant, VillageTypeOK
  <2>1. CASE secret'[i].text = secret[i].text
    <3>1. /\ maker[m].at \notin {"done", "failed"}
          /\ \A other \in Makers \ {m} : maker'[other] = maker[other]
          /\ market[i].maker # Nobody => market'[i].maker = market[i].maker
      BY <1>2, MakersMove
    <3>2. /\ secret[i].text # Nobody /\ market[i].maker = secret[i].text
          /\ secret[i].text \in Makers => maker[secret[i].text].at \in {"done", "failed"}
      BY <2>1 DEF SealersAreDone
    <3> QED
      BY <2>1, <3>1, <3>2
  <2>2. CASE secret'[i].text # secret[i].text
    <3>1. /\ maker[m].at = "seal" /\ i = maker[m].id
          /\ secret' = [secret EXCEPT ![maker[m].id].text = m]
          /\ Goes(m, "done") \/ Throws(m, "lost")
      BY <1>2, <2>0, <2>2, MakersMove
    <3>2. secret'[i].text = m /\ market[i].maker = m
      BY <2>0, <3>1 DEF SecretRecord, MakerKnows, Reached, Stages
    <3>3. market'[i].maker = m
      BY <1>2, <2>0, <3>2, MakersMove
    <3>4. maker'[m].at \in {"done", "failed"}
      BY <2>0, <3>1 DEF Goes, Throws, MakerRecord
    <3> QED
      BY <3>2, <3>3, <3>4
  <2> QED
    BY <2>1, <2>2
<1>3. ASSUME NEW i \in Ids, GoesHome(i)
      PROVE  SealersAreDone'
  <2>1. /\ UNCHANGED <<secret, maker>> /\ market \in [Ids -> MarketRecord]
        /\ market' = [market EXCEPT ![i].home = "back"]
    BY <1>3 DEF GoesHome, VillageInvariant, VillageTypeOK
  <2>2. \A j \in Ids : market'[j].maker = market[j].maker
    BY <2>1 DEF MarketRecord
  <2> QED
    BY <2>1, <2>2 DEF SealersAreDone
<1> QED
  BY <1>1, <1>2, <1>3 DEF VillageNext, StrangerStep, villageVars

\* Who has come how far with which market, and what is sealed is private: the
\* steps of lib.rs:45-123, 356-363, 489-528, 1130-1167, 1191-1225 as flows.ts and seed.ts order
\* them, whoever else takes them too and whatever is lost.
THEOREM VillageInvariantHolds == VillageSpec => [](VillageInvariant /\ SealersAreDone)
<1>1. VillageInit => VillageInvariant /\ SealersAreDone
  BY InitKeeps, SealersInit
<1>2. VillageInvariant /\ SealersAreDone /\ [VillageNext]_villageVars =>
        (VillageInvariant /\ SealersAreDone)'
  BY NextKeeps, SealersKeep
<1> QED
  BY <1>1, <1>2, PTL DEF VillageSpec

\* No sealed text is in an account that a service which enforces the member lists
\* reads out to a stranger, though seal_secret asks for no permission (lib.rs:495).
THEOREM NothingSealedIsRead == VillageSpec => []NoStrangerReads
<1>1. VillageInvariant => NoStrangerReads
  <2> SUFFICES ASSUME VillageInvariant, NEW i \in Ids, enforced, secret[i].text # Nobody
               PROVE  "data" \notin Filtered(secret[i])
    BY DEF NoStrangerReads
  <2>1. secret[i].home = "ER" /\ secret[i].permission = "private"
    BY DEF VillageInvariant, SealedIsPrivate
  <2> QED
    BY <2>1 DEF Filtered
<1> QED
  BY <1>1, VillageInvariantHolds, PTL

----------------------------------------------------------------------------
(* Why a flow fails.                                                       *)

\* The markets that a maker's counting has passed: somebody else's.
Passed(m) == {j \in Ids : j < maker[m].id /\ market[j].maker \notin {m, Nobody}}

\* How far a maker has come, beyond Reached: what its next transaction needs is so, a
\* seed has passed a market for each look and try, and a failure has its reason.
FlowKnows(m) ==
  /\ maker[m].at \notin {"village", "open", "failed"} => village.exists
  /\ maker[m].at \in {"village", "open", "enter", "claim", "create"} =>
       \A j \in Ids : market[j].maker # m
  /\ maker[m].at \in {"village", "open", "enter"} => maker[m].looks = 0 /\ maker[m].tries = 0
  /\ maker[m].at \in {"claim", "create"} =>
       Cardinality(Passed(m)) >= maker[m].looks + maker[m].tries
  /\ maker[m].at \in {"shell", "delegate"} => market[maker[m].id].home = "L1"
  /\ maker[m].at = "shell" => secret[maker[m].id].home = "none"
  /\ maker[m].at \in {"delegate", "delegateSecret"} => secret[maker[m].id].home = "L1"
  /\ maker[m].at = "delegateSecret" => market[maker[m].id].home = "ER"
  /\ maker[m].at = "await" => Delegated(maker[m].id)
  /\ maker[m].at = "failed" => FailedForAReason(m)

\* A secret is made after its market, and sealed once the market is on the rollup.
SecretFollows(i) ==
  /\ market[i].maker = Nobody => market[i].home = "none" /\ secret[i].home = "none"
  /\ secret[i].text # Nobody => market[i].home \in {"ER", "back"}

FlowInvariant ==
  /\ \A i \in Ids : SecretFollows(i)
  /\ \A m \in Makers : FlowKnows(m)

\* What is on the chain stays there.
ChainGrows ==
  /\ village.exists => village'.exists
  /\ \A j \in Ids :
       /\ market[j].maker # Nobody => market'[j].maker = market[j].maker
       /\ market[j].home \in {"ER", "back"} => market'[j].home = market[j].home
       /\ secret[j].text # Nobody => secret'[j].text # Nobody
       /\ secret[j].permission = "private" => secret'[j].permission = "private"

\* A maker's step touches no market but its own, or one that it makes its own.
Touches(m) ==
  \A j \in Ids :
    \/ market'[j] = market[j] /\ secret'[j] = secret[j]
    \/ market[j].maker \in {m, Nobody} /\ market'[j].maker = m

\* Of two sets of ids, one in the other, the larger counts as many or more.
LEMMA IdCounts ==
  ASSUME NEW S \in SUBSET Ids, NEW T \in SUBSET Ids, S \subseteq T
  PROVE  Cardinality(S) \in Nat /\ Cardinality(T) \in Nat /\ Cardinality(S) <= Cardinality(T)
<1>1. IsFiniteSet(S) /\ IsFiniteSet(T)
  BY VillageAssumption, FS_Subset
<1> QED
  BY <1>1, FS_Subset, FS_CardinalityType

\* What a maker knows outlasts the others' steps.
LEMMA OthersFlow ==
  ASSUME VillageInvariant, FlowInvariant, NEW m \in Makers, ChainGrows, Touches(m),
         NEW other \in Makers, other # m, maker'[other] = maker[other]
  PROVE  FlowKnows(other)'
<1>1. MakerKnows(other) /\ FlowKnows(other) /\ other # Nobody
  BY VillageAssumption DEF VillageInvariant, FlowInvariant
<1>2. maker[other].at \in {"shell", "delegate", "delegateSecret", "await"} =>
        /\ market'[maker[other].id] = market[maker[other].id]
        /\ secret'[maker[other].id] = secret[maker[other].id]
  BY <1>1 DEF MakerKnows, Reached, Stages, Touches
<1>3. ASSUME \A j \in Ids : market[j].maker # other PROVE \A j \in Ids : market'[j].maker # other
  BY <1>3 DEF Touches
<1>4. Passed(other) \subseteq Passed(other)'
  BY <1>1 DEF Passed, ChainGrows
<1>5. /\ Cardinality(Passed(other)) \in Nat /\ Cardinality(Passed(other)') \in Nat
      /\ Cardinality(Passed(other)) <= Cardinality(Passed(other)')
  BY <1>4, IdCounts DEF Passed
<1>6. maker[other].looks \in Nat /\ maker[other].tries \in Nat
  BY DEF VillageInvariant, VillageTypeOK, MakerRecord
<1>7. ASSUME FailedForAReason(other) PROVE FailedForAReason(other)'
  <2> DEFINE others == {j \in Ids : market[j].maker \notin {other, Nobody}}
             others1 == {j \in Ids : market'[j].maker \notin {other, Nobody}}
  <2>1. others \subseteq others1
    BY DEF ChainGrows
  <2>2. /\ Cardinality(others) \in Nat /\ Cardinality(others1) \in Nat
        /\ Cardinality(others) <= Cardinality(others1)
    BY <2>1, IdCounts
  <2>3. \/ maker[other].why = "lost"
        \/ maker[other].why = "taken" /\ maker[other].id \in others
        \/ maker[other].why = "exhausted"
           /\ Cardinality(others) >= (IF Lookups < Attempts + 1 THEN Lookups ELSE Attempts + 1)
    BY <1>7, Zenon DEF FailedForAReason
  <2> HIDE DEF others, others1
  <2>4. \/ maker'[other].why = "lost"
        \/ maker'[other].why = "taken" /\ maker'[other].id \in others1
        \/ maker'[other].why = "exhausted"
           /\ Cardinality(others1) >= (IF Lookups < Attempts + 1 THEN Lookups ELSE Attempts + 1)
    BY <2>1, <2>2, <2>3, VillageAssumption
  <2> QED
    BY <2>4, Zenon DEF FailedForAReason, others1
<1>8. maker[other].at \in {"claim", "create"} =>
        Cardinality(Passed(other)') >= maker'[other].looks + maker'[other].tries
  BY <1>1, <1>5, <1>6 DEF FlowKnows
<1>9. maker[other].at \notin {"village", "open", "failed"} => village'.exists
  BY <1>1 DEF FlowKnows, ChainGrows
<1> QED
  BY <1>1, <1>2, <1>3, <1>7, <1>8, <1>9 DEF FlowKnows, Delegated

\* A step of one maker that grows the chain, if it leaves what is known of that maker.
LEMMA FlowStep ==
  ASSUME VillageInvariant, FlowInvariant, NEW m \in Makers, ChainGrows, Touches(m),
         \A i \in Ids : SecretFollows(i)',
         NEW now, maker' = [maker EXCEPT ![m] = now], FlowKnows(m)'
  PROVE  FlowInvariant'
<1>1. ASSUME NEW other \in Makers, other # m PROVE FlowKnows(other)'
  <2>1. maker'[other] = maker[other]
    BY <1>1 DEF VillageInvariant, VillageTypeOK
  <2> QED
    BY <1>1, <2>1, OthersFlow
<1> QED
  BY <1>1 DEF FlowInvariant

\* A chain that is left alone has grown.
LEMMA StillChain ==
  ASSUME FlowInvariant, UNCHANGED <<market, secret>>, village.exists => village'.exists
  PROVE  ChainGrows /\ (\A m \in Makers : Touches(m)) /\ \A i \in Ids : SecretFollows(i)'
BY DEF ChainGrows, Touches, FlowInvariant, SecretFollows

\* A lost call is a reason.
LEMMA LostFlow ==
  ASSUME VillageInvariant, NEW m \in Makers, Throws(m, "lost")
  PROVE  /\ FlowKnows(m)'
         /\ maker' = [maker EXCEPT ![m] = [maker[m] EXCEPT !.at = "failed", !.why = "lost"]]
<1>1. maker' = [maker EXCEPT ![m] = [maker[m] EXCEPT !.at = "failed", !.why = "lost"]]
  BY DEF Throws
<1>2. maker'[m].at = "failed" /\ maker'[m].why = "lost"
  BY <1>1 DEF VillageInvariant, VillageTypeOK, MakerRecord
<1> QED
  BY <1>1, <1>2 DEF FlowKnows, FailedForAReason

\* The flow goes on, and knows what its new stage needs.
LEMMA GoesFlow ==
  ASSUME VillageInvariant, NEW m \in Makers, NEW at \in Stages, Goes(m, at)
  PROVE  /\ maker' = [maker EXCEPT ![m] = [maker[m] EXCEPT !.at = at]]
         /\ maker'[m].at = at /\ maker'[m].kind = maker[m].kind /\ maker'[m].id = maker[m].id
         /\ maker'[m].looks = maker[m].looks /\ maker'[m].tries = maker[m].tries
         /\ maker[m].looks \in Nat /\ maker[m].tries \in Nat
BY DEF Goes, VillageInvariant, VillageTypeOK, MakerRecord

\* The markets that a seed has passed are others', and so is the one it finds taken.
LEMMA PassedMore ==
  ASSUME VillageInvariant, FlowInvariant, NEW m \in Makers, maker[m].at \in {"claim", "create"},
         maker[m].id \in Ids, market[maker[m].id].maker # Nobody
  PROVE  /\ maker[m].id \in {j \in Ids : market[j].maker \notin {m, Nobody}}
         /\ Cardinality({j \in Ids : market[j].maker \notin {m, Nobody}})
              >= maker[m].looks + maker[m].tries + 1
         /\ Cardinality({j \in Ids : j < maker[m].id + 1 /\ market[j].maker \notin {m, Nobody}})
              >= maker[m].looks + maker[m].tries + 1
         /\ maker[m].looks \in Nat /\ maker[m].tries \in Nat
<1> DEFINE i == maker[m].id
           others == {j \in Ids : market[j].maker \notin {m, Nobody}}
           passes == {j \in Ids : j < i + 1 /\ market[j].maker \notin {m, Nobody}}
<1>1. /\ FlowKnows(m) /\ maker[m].looks \in Nat /\ maker[m].tries \in Nat
      /\ Ids \subseteq Nat /\ IsFiniteSet(Ids) /\ i \in Nat
  BY VillageAssumption DEF VillageInvariant, VillageTypeOK, MakerRecord, FlowInvariant
<1>2. i \in others
  BY <1>1 DEF FlowKnows
<1>3. Cardinality(Passed(m)) >= maker[m].looks + maker[m].tries
  BY <1>1 DEF FlowKnows
<1>4. i \notin Passed(m) /\ Passed(m) \cup {i} \subseteq passes /\ passes \subseteq others
  <2>1. i < i + 1 /\ ~(i < i)
    BY <1>1
  <2>2. ASSUME NEW j \in Ids, j < i PROVE j < i + 1
    BY <1>1, <2>2
  <2> QED
    BY <1>2, <2>1, <2>2 DEF Passed
<1>5. IsFiniteSet(Passed(m)) /\ Cardinality(Passed(m)) \in Nat
  BY <1>1, FS_Subset, FS_CardinalityType DEF Passed
<1>6. Cardinality(Passed(m) \cup {i}) = Cardinality(Passed(m)) + 1
  BY <1>4, <1>5, FS_AddElement
<1>7. /\ Cardinality(passes) \in Nat /\ Cardinality(others) \in Nat
      /\ Cardinality(Passed(m) \cup {i}) <= Cardinality(passes)
      /\ Cardinality(passes) <= Cardinality(others)
  BY <1>4, IdCounts
<1> HIDE DEF others, passes
<1>8. /\ Cardinality(others) >= maker[m].looks + maker[m].tries + 1
      /\ Cardinality(passes) >= maker[m].looks + maker[m].tries + 1
  BY <1>1, <1>3, <1>5, <1>6, <1>7
<1> QED
  BY <1>1, <1>2, <1>8 DEF others, passes

\* A maker that looked and threw.
LEMMA LostFlowKeeps ==
  ASSUME VillageInvariant, FlowInvariant, NEW m \in Makers, UNCHANGED chain, Throws(m, "lost")
  PROVE  FlowInvariant' /\ ChainGrows
BY LostFlow, StillChain, FlowStep DEF chain

\* The village is looked for, and opened.
LEMMA VillageFlow ==
  ASSUME VillageInvariant, FlowInvariant, NEW m \in Makers, LooksForVillage(m) \/ OpensVillage(m)
  PROVE  FlowInvariant' /\ ChainGrows
<1>1. /\ market' = market /\ secret' = secret /\ (village.exists => village'.exists)
      /\ FlowKnows(m) /\ maker[m].at \in {"village", "open"}
      /\ \A j \in Ids : market[j].maker # m
      /\ maker[m].looks = 0 /\ maker[m].tries = 0
  BY DEF LooksForVillage, OpensVillage, Sends, InitializeVillage, chain, FlowInvariant, FlowKnows
<1>2. ChainGrows /\ Touches(m) /\ \A i \in Ids : SecretFollows(i)'
  BY <1>1, StillChain
<1>3. CASE Throws(m, "lost")
  BY <1>2, <1>3, LostFlow, FlowStep
<1>4. ASSUME NEW at \in {"enter", "open"}, Goes(m, at), at = "enter" => village'.exists
      PROVE  FlowInvariant'
  <2>1. at \in Stages
    BY <1>4 DEF Stages
  <2>2. /\ maker' = [maker EXCEPT ![m] = [maker[m] EXCEPT !.at = at]]
        /\ maker'[m].at = at /\ maker'[m].looks = 0 /\ maker'[m].tries = 0
    BY <1>1, <1>4, <2>1, GoesFlow
  <2>3. FlowKnows(m)'
    BY <1>1, <1>4, <2>2 DEF FlowKnows
  <2> QED
    BY <1>2, <2>2, <2>3, FlowStep
<1>5. \/ Throws(m, "lost")
      \/ Goes(m, "enter") /\ village'.exists
      \/ Goes(m, "open")
  BY DEF LooksForVillage, OpensVillage, Sends, InitializeVillage, chain
<1> QED
  BY <1>2, <1>3, <1>4, <1>5

\* A tab goes to its id, and a seed begins to count.
LEMMA EntersFlow ==
  ASSUME VillageInvariant, FlowInvariant, NEW m \in Makers, Enters(m)
  PROVE  FlowInvariant' /\ ChainGrows
<1>1. /\ UNCHANGED chain /\ FlowKnows(m) /\ maker[m].at = "enter" /\ village.exists
      /\ \A j \in Ids : market[j].maker # m
      /\ maker[m].looks = 0 /\ maker[m].tries = 0
      /\ maker[m] \in MakerRecord /\ maker \in [Makers -> MakerRecord]
  BY DEF Enters, FlowInvariant, FlowKnows, VillageInvariant, VillageTypeOK
<1>2. ChainGrows /\ Touches(m) /\ \A i \in Ids : SecretFollows(i)'
  BY <1>1, StillChain DEF chain
<1>3. CASE Throws(m, "lost")
  BY <1>1, <1>3, LostFlowKeeps
<1>4. ASSUME NEW now \in MakerRecord, maker' = [maker EXCEPT ![m] = now],
             now.at \in {"claim", "create"}, now.looks = 0, now.tries = 0
      PROVE  FlowInvariant'
  <2>1. maker'[m] = now
    BY <1>1, <1>4
  <2>2. Cardinality(Passed(m)') >= 0
    <3>1. Passed(m)' \in SUBSET Ids
      BY DEF Passed
    <3> QED
      BY <3>1, IdCounts
  <2>3. FlowKnows(m)'
    BY <1>1, <1>4, <2>1, <2>2 DEF FlowKnows, chain
  <2> QED
    BY <1>2, <1>4, <2>3, FlowStep
<1>5. ASSUME Goes(m, "create") PROVE FlowInvariant'
  <2>1. [maker[m] EXCEPT !.at = "create"] \in MakerRecord
    BY <1>1, MakerRecords DEF Stages
  <2> QED
    BY <1>1, <1>4, <1>5, <2>1 DEF Goes, MakerRecord
<1>6. ASSUME maker' = [maker EXCEPT ![m].at = "claim", ![m].id = village.count]
      PROVE  FlowInvariant'
  <2>1. [maker[m] EXCEPT !.at = "claim", !.id = village.count] \in MakerRecord
    BY <1>1, MakerRecords DEF Stages, VillageInvariant, VillageTypeOK
  <2> QED
    BY <1>1, <1>4, <1>6, <2>1 DEF MakerRecord
<1> QED
  BY <1>2, <1>3, <1>5, <1>6 DEF Enters

\* A seed looks at an id: it claims it, passes on, or has looked enough.
LEMMA ClaimsFlow ==
  ASSUME VillageInvariant, FlowInvariant, NEW m \in Makers, ClaimsId(m)
  PROVE  FlowInvariant' /\ ChainGrows
<1> DEFINE i == maker[m].id
           others == {j \in Ids : market[j].maker \notin {m, Nobody}}
<1>1. /\ UNCHANGED chain /\ market' = market /\ FlowKnows(m) /\ maker[m].at = "claim"
      /\ village.exists /\ village' = village /\ i \in Ids
      /\ \A j \in Ids : market[j].maker # m
      /\ maker[m] \in MakerRecord /\ maker \in [Makers -> MakerRecord]
  BY DEF ClaimsId, FlowInvariant, FlowKnows, VillageInvariant, VillageTypeOK, chain
<1>2. ChainGrows /\ Touches(m) /\ \A j \in Ids : SecretFollows(j)'
  BY <1>1, StillChain DEF chain
<1>3. CASE Throws(m, "lost")
  BY <1>1, <1>3, LostFlowKeeps
<1>4. CASE Goes(m, "create")
  <2>1. /\ maker' = [maker EXCEPT ![m] = [maker[m] EXCEPT !.at = "create"]]
        /\ maker'[m].at = "create" /\ maker'[m].id = i
        /\ maker'[m].looks = maker[m].looks /\ maker'[m].tries = maker[m].tries
    BY <1>4, GoesFlow DEF Stages
  <2>2. Passed(m)' = Passed(m)
    BY <1>1, <2>1 DEF Passed
  <2>3. FlowKnows(m)'
    BY <1>1, <2>1, <2>2 DEF FlowKnows
  <2> QED
    BY <1>2, <2>1, <2>3, FlowStep
<1>5. CASE market[i].maker # Nobody /\ maker' = [maker EXCEPT ![m].looks = @ + 1, ![m].id = @ + 1]
  <2> DEFINE now == [maker[m] EXCEPT !.looks = @ + 1, !.id = @ + 1]
  <2>1. maker' = [maker EXCEPT ![m] = now] /\ maker'[m] = now
    BY <1>1, <1>5
  <2>2. now.at = "claim" /\ now.id = i + 1 /\ now.looks = maker[m].looks + 1 /\ now.tries = maker[m].tries
    BY <1>1 DEF MakerRecord
  <2> HIDE DEF now
  <2>3. Passed(m)' = {j \in Ids : j < i + 1 /\ market[j].maker \notin {m, Nobody}}
    BY <1>1, <2>1, <2>2 DEF Passed
  <2>4. Cardinality(Passed(m)') >= now.looks + now.tries
    <3>1. /\ Cardinality(Passed(m)') >= maker[m].looks + maker[m].tries + 1
          /\ maker[m].looks \in Nat /\ maker[m].tries \in Nat
      BY <1>1, <1>5, <2>3, PassedMore
    <3>2. Cardinality(Passed(m)') \in Nat
      BY IdCounts DEF Passed
    <3> QED
      BY <2>2, <3>1, <3>2
  <2>5. FlowKnows(m)'
    BY <1>1, <2>1, <2>2, <2>4 DEF FlowKnows
  <2> QED
    BY <1>2, <2>1, <2>5, FlowStep
<1>6. CASE market[i].maker # Nobody /\ ~(maker[m].looks + 1 < Lookups) /\ Throws(m, "exhausted")
  <2> DEFINE now == [maker[m] EXCEPT !.at = "failed", !.why = "exhausted"]
  <2>1. maker' = [maker EXCEPT ![m] = now] /\ maker'[m] = now
    BY <1>1, <1>6 DEF Throws
  <2>2. now.at = "failed" /\ now.why = "exhausted"
    BY <1>1 DEF MakerRecord
  <2> HIDE DEF now
  <2>3. /\ Cardinality(others) >= maker[m].looks + maker[m].tries + 1
        /\ maker[m].looks \in Nat /\ maker[m].tries \in Nat
    BY <1>1, <1>6, PassedMore
  <2>4. Cardinality(others) \in Nat
    BY IdCounts
  <2> HIDE DEF others
  <2>5. Cardinality(others) >= (IF Lookups < Attempts + 1 THEN Lookups ELSE Attempts + 1)
    BY <1>6, <2>3, <2>4, VillageAssumption
  <2>6. FailedForAReason(m)'
    BY <1>1, <2>1, <2>2, <2>5 DEF FailedForAReason, others
  <2>7. FlowKnows(m)'
    BY <2>1, <2>2, <2>6 DEF FlowKnows
  <2> QED
    BY <1>2, <2>1, <2>7, FlowStep
<1> QED
  BY <1>2, <1>3, <1>4, <1>5, <1>6 DEF ClaimsId

\* The id turns out to be taken: a seed counts on, if it may, and a tab ends.
LEMMA TakenFlow ==
  ASSUME VillageInvariant, FlowInvariant, NEW m \in Makers, maker[m].at = "create",
         UNCHANGED chain, ~Creatable(maker[m].id), IdTaken(m)
  PROVE  FlowInvariant' /\ ChainGrows
<1> DEFINE i == maker[m].id
           others == {j \in Ids : market[j].maker \notin {m, Nobody}}
<1>1. /\ market' = market /\ village' = village /\ FlowKnows(m) /\ MakerKnows(m)
      /\ village.exists /\ \A j \in Ids : market[j].maker # m
      /\ maker[m] \in MakerRecord /\ maker \in [Makers -> MakerRecord]
  BY DEF FlowInvariant, FlowKnows, VillageInvariant, VillageTypeOK, chain
<1>2. ChainGrows /\ Touches(m) /\ \A j \in Ids : SecretFollows(j)'
  BY <1>1, StillChain DEF chain
<1>3. i \in Ids /\ market[i].maker # Nobody
  BY <1>1 DEF MakerKnows, Reached, Stages, Creatable
<1>4. CASE maker' = [maker EXCEPT ![m].at = "claim", ![m].id = @ + 1, ![m].looks = 0,
                                  ![m].tries = @ + 1]
  <2> DEFINE now == [maker[m] EXCEPT !.at = "claim", !.id = @ + 1, !.looks = 0, !.tries = @ + 1]
  <2>1. maker' = [maker EXCEPT ![m] = now] /\ maker'[m] = now
    BY <1>1, <1>4
  <2>2. now.at = "claim" /\ now.id = i + 1 /\ now.looks = 0 /\ now.tries = maker[m].tries + 1
    BY <1>1 DEF MakerRecord
  <2> HIDE DEF now
  <2>3. Passed(m)' = {j \in Ids : j < i + 1 /\ market[j].maker \notin {m, Nobody}}
    BY <1>1, <2>1, <2>2 DEF Passed
  <2>4. Cardinality(Passed(m)') >= now.looks + now.tries
    <3>1. /\ Cardinality(Passed(m)') >= maker[m].looks + maker[m].tries + 1
          /\ maker[m].looks \in Nat /\ maker[m].tries \in Nat
      BY <1>3, <2>3, PassedMore
    <3>2. Cardinality(Passed(m)') \in Nat
      BY IdCounts DEF Passed
    <3> QED
      BY <2>2, <3>1, <3>2
  <2>5. FlowKnows(m)'
    BY <1>1, <2>1, <2>2, <2>4 DEF FlowKnows
  <2> QED
    BY <1>2, <2>1, <2>5, FlowStep
<1>5. ASSUME NEW why \in {"exhausted", "taken"}, Throws(m, why),
             why = "exhausted" => ~(maker[m].tries < Attempts)
      PROVE  FlowInvariant'
  <2> DEFINE now == [maker[m] EXCEPT !.at = "failed", !.why = why]
  <2>1. maker' = [maker EXCEPT ![m] = now] /\ maker'[m] = now
    BY <1>1, <1>5 DEF Throws
  <2>2. now.at = "failed" /\ now.why = why /\ now.id = i
    BY <1>1 DEF MakerRecord
  <2> HIDE DEF now
  <2>3. /\ i \in others
        /\ Cardinality(others) >= maker[m].looks + maker[m].tries + 1
        /\ maker[m].looks \in Nat /\ maker[m].tries \in Nat
    BY <1>3, PassedMore
  <2>4. Cardinality(others) \in Nat
    BY IdCounts
  <2> HIDE DEF others
  <2>5. why = "exhausted" =>
          Cardinality(others) >= (IF Lookups < Attempts + 1 THEN Lookups ELSE Attempts + 1)
    BY <1>5, <2>3, <2>4, VillageAssumption
  <2>6. FailedForAReason(m)'
    BY <1>1, <1>5, <2>1, <2>2, <2>3, <2>5 DEF FailedForAReason, others
  <2>7. FlowKnows(m)'
    BY <2>1, <2>2, <2>6 DEF FlowKnows
  <2> QED
    BY <1>2, <2>1, <2>7, FlowStep
<1> QED
  BY <1>2, <1>4, <1>5 DEF IdTaken

\* A transaction about a market that is the maker's own.
LEMMA OwnFlow ==
  ASSUME VillageInvariant, VillageInvariant', FlowInvariant, NEW m \in Makers,
         NEW i \in Ids, i = maker[m].id, market[i].maker \in {m, Nobody}, market'[i].maker = m,
         Others(i), village'.exists,
         market[i].home \in {"ER", "back"} => market'[i].home = market[i].home,
         secret[i].text # Nobody => secret'[i].text # Nobody,
         secret[i].permission = "private" => secret'[i].permission = "private",
         secret'[i].text # Nobody => market'[i].home \in {"ER", "back"},
         NEW at \in {"shell", "delegate", "delegateSecret", "await", "marketPermission",
                     "permission", "seal", "done"},
         at \in {"shell", "delegate"} => market'[i].home = "L1",
         at = "shell" => secret'[i].home = "none",
         at \in {"delegate", "delegateSecret"} => secret'[i].home = "L1",
         at = "delegateSecret" => market'[i].home = "ER",
         at = "await" => market'[i].home = "ER" /\ secret'[i].home = "ER",
         Goes(m, at) \/ Throws(m, "lost")
  PROVE  FlowInvariant' /\ ChainGrows
<1>1. m # Nobody
  BY VillageAssumption
<1>2. ChainGrows /\ Touches(m)
  BY DEF ChainGrows, Touches, Others
<1>3. \A j \in Ids : SecretFollows(j)'
  BY <1>1 DEF FlowInvariant, SecretFollows, Others
<1>4. CASE Throws(m, "lost")
  BY <1>2, <1>3, <1>4, LostFlow, FlowStep
<1>5. CASE Goes(m, at)
  <2>1. /\ maker' = [maker EXCEPT ![m] = [maker[m] EXCEPT !.at = at]]
        /\ maker'[m].at = at /\ maker'[m].id = i
    BY <1>5, GoesFlow DEF Stages
  <2>2. FlowKnows(m)'
    BY <2>1 DEF FlowKnows, Delegated
  <2> QED
    BY <1>2, <1>3, <2>1, <2>2, FlowStep
<1> QED
  BY <1>2, <1>4, <1>5

\* What a maker with a market of its own can count on.
LEMMA OwnMarket ==
  ASSUME VillageInvariant, FlowInvariant, NEW m \in Makers,
         maker[m].at \in {"shell", "delegate", "delegateSecret", "await", "marketPermission",
                         "permission", "seal"}
  PROVE  /\ maker[m].id \in Ids /\ market[maker[m].id].maker = m /\ m # Nobody /\ village.exists
         /\ SecretFollows(maker[m].id) /\ FlowKnows(m)
         /\ maker[m].at \in {"marketPermission", "permission", "seal"} => Delegated(maker[m].id)
         /\ market \in [Ids -> MarketRecord] /\ secret \in [Ids -> SecretRecord]
<1>1. MakerKnows(m) /\ FlowKnows(m) /\ m # Nobody
  BY VillageAssumption DEF VillageInvariant, FlowInvariant
<1>2. maker[m].id \in Ids /\ market[maker[m].id].maker = m
  BY <1>1 DEF MakerKnows, Reached, Stages
<1>3. maker[m].at \in {"marketPermission", "permission", "seal"} => Delegated(maker[m].id)
  BY <1>1 DEF MakerKnows, Reached
<1>4. village.exists /\ SecretFollows(maker[m].id)
  BY <1>1, <1>2 DEF FlowKnows, FlowInvariant
<1> QED
  BY <1>1, <1>2, <1>3, <1>4 DEF VillageInvariant, VillageTypeOK

\* A shell for the secret is made, of a market that is still on Solana.
LEMMA ShellFlow ==
  ASSUME VillageInvariant, VillageInvariant', FlowInvariant, NEW m \in Makers,
         NEW i, i = maker[m].id, Step(m, "shell", market[i].home = "L1" /\ secret[i].home = "none", CreateSecretShell(i))
  PROVE  FlowInvariant' /\ ChainGrows
<1>1. /\ maker[m].at = "shell" /\ i \in Ids /\ market[i].maker = m /\ m # Nobody /\ village.exists
      /\ SecretFollows(i) /\ FlowKnows(m)
      /\ "shell" \in {"marketPermission", "permission", "seal"} => Delegated(i)
      /\ market \in [Ids -> MarketRecord] /\ secret \in [Ids -> SecretRecord]
  BY OwnMarket DEF Step
<1>2. market[i].home = "L1" /\ secret[i].home = "none"
  BY <1>1 DEF FlowKnows, Delegated
<1>3. CASE UNCHANGED chain /\ Throws(m, "lost")
  BY <1>3, LostFlowKeeps
<1>4. CASE CreateSecretShell(i) /\ (Goes(m, "delegate") \/ Throws(m, "lost"))
  <2>1. /\ secret' = [secret EXCEPT ![i].home = "L1"]
        /\ market' = market /\ village' = village
    BY <1>4 DEF CreateSecretShell
  <2>2. /\ secret'[i].home = "L1"
        /\ secret'[i].permission = secret[i].permission /\ secret'[i].text = secret[i].text
        /\ market'[i] = market[i] /\ Others(i)
    BY <1>1, <2>1 DEF SecretRecord, Others
  <2>3. /\ market'[i].maker = m /\ village'.exists
        /\ market[i].home \in {"ER", "back"} => market'[i].home = market[i].home
        /\ secret[i].text # Nobody => secret'[i].text # Nobody
        /\ secret[i].permission = "private" => secret'[i].permission = "private"
        /\ secret'[i].text # Nobody => market'[i].home \in {"ER", "back"}
    BY <1>1, <1>2, <2>1, <2>2 DEF SecretFollows, Delegated
  <2>4. /\ "delegate" \in {"shell", "delegate"} => market'[i].home = "L1"
        /\ "delegate" = "shell" => secret'[i].home = "none"
        /\ "delegate" \in {"delegate", "delegateSecret"} => secret'[i].home = "L1"
        /\ "delegate" = "delegateSecret" => market'[i].home = "ER"
        /\ "delegate" = "await" => market'[i].home = "ER" /\ secret'[i].home = "ER"
    BY <1>1, <1>2, <2>2 DEF FlowKnows
  <2> QED
    BY <1>1, <1>4, <2>2, <2>3, <2>4, OwnFlow
<1> QED
  BY <1>2, <1>3, <1>4, NextStages DEF Step, Sends

\* The market goes to the rollup.
LEMMA DelegateMarketFlow ==
  ASSUME VillageInvariant, VillageInvariant', FlowInvariant, NEW m \in Makers,
         NEW i, i = maker[m].id, Step(m, "delegate", market[i].home = "L1", DelegateMarket(i))
  PROVE  FlowInvariant' /\ ChainGrows
<1>1. /\ maker[m].at = "delegate" /\ i \in Ids /\ market[i].maker = m /\ m # Nobody /\ village.exists
      /\ SecretFollows(i) /\ FlowKnows(m)
      /\ "delegate" \in {"marketPermission", "permission", "seal"} => Delegated(i)
      /\ market \in [Ids -> MarketRecord] /\ secret \in [Ids -> SecretRecord]
  BY OwnMarket DEF Step
<1>2. market[i].home = "L1"
  BY <1>1 DEF FlowKnows, Delegated
<1>3. CASE UNCHANGED chain /\ Throws(m, "lost")
  BY <1>3, LostFlowKeeps
<1>4. CASE DelegateMarket(i) /\ (Goes(m, "delegateSecret") \/ Throws(m, "lost"))
  <2>1. /\ market' = [market EXCEPT ![i].home = "ER"]
        /\ secret' = secret /\ village' = village
    BY <1>4 DEF DelegateMarket
  <2>2. /\ market'[i].home = "ER"
        /\ market'[i].maker = market[i].maker /\ market'[i].permission = market[i].permission
        /\ secret'[i] = secret[i] /\ Others(i)
    BY <1>1, <2>1 DEF MarketRecord, Others
  <2>3. /\ market'[i].maker = m /\ village'.exists
        /\ market[i].home \in {"ER", "back"} => market'[i].home = market[i].home
        /\ secret[i].text # Nobody => secret'[i].text # Nobody
        /\ secret[i].permission = "private" => secret'[i].permission = "private"
        /\ secret'[i].text # Nobody => market'[i].home \in {"ER", "back"}
    BY <1>1, <1>2, <2>1, <2>2 DEF SecretFollows, Delegated
  <2>4. /\ "delegateSecret" \in {"shell", "delegate"} => market'[i].home = "L1"
        /\ "delegateSecret" = "shell" => secret'[i].home = "none"
        /\ "delegateSecret" \in {"delegate", "delegateSecret"} => secret'[i].home = "L1"
        /\ "delegateSecret" = "delegateSecret" => market'[i].home = "ER"
        /\ "delegateSecret" = "await" => market'[i].home = "ER" /\ secret'[i].home = "ER"
    BY <1>1, <1>2, <2>2 DEF FlowKnows
  <2> QED
    BY <1>1, <1>4, <2>2, <2>3, <2>4, OwnFlow
<1> QED
  BY <1>2, <1>3, <1>4, NextStages DEF Step, Sends

\* The secret follows it.
LEMMA DelegateSecretFlow ==
  ASSUME VillageInvariant, VillageInvariant', FlowInvariant, NEW m \in Makers,
         NEW i, i = maker[m].id, Step(m, "delegateSecret", secret[i].home = "L1", DelegateSecret(i))
  PROVE  FlowInvariant' /\ ChainGrows
<1>1. /\ maker[m].at = "delegateSecret" /\ i \in Ids /\ market[i].maker = m /\ m # Nobody /\ village.exists
      /\ SecretFollows(i) /\ FlowKnows(m)
      /\ "delegateSecret" \in {"marketPermission", "permission", "seal"} => Delegated(i)
      /\ market \in [Ids -> MarketRecord] /\ secret \in [Ids -> SecretRecord]
  BY OwnMarket DEF Step
<1>2. secret[i].home = "L1"
  BY <1>1 DEF FlowKnows, Delegated
<1>3. CASE UNCHANGED chain /\ Throws(m, "lost")
  BY <1>3, LostFlowKeeps
<1>4. CASE DelegateSecret(i) /\ (Goes(m, "await") \/ Throws(m, "lost"))
  <2>1. /\ secret' = [secret EXCEPT ![i].home = "ER"]
        /\ market' = market /\ village' = village
    BY <1>4 DEF DelegateSecret
  <2>2. /\ secret'[i].home = "ER"
        /\ secret'[i].permission = secret[i].permission /\ secret'[i].text = secret[i].text
        /\ market'[i] = market[i] /\ Others(i)
    BY <1>1, <2>1 DEF SecretRecord, Others
  <2>3. /\ market'[i].maker = m /\ village'.exists
        /\ market[i].home \in {"ER", "back"} => market'[i].home = market[i].home
        /\ secret[i].text # Nobody => secret'[i].text # Nobody
        /\ secret[i].permission = "private" => secret'[i].permission = "private"
        /\ secret'[i].text # Nobody => market'[i].home \in {"ER", "back"}
    BY <1>1, <1>2, <2>1, <2>2 DEF SecretFollows, Delegated
  <2>4. /\ "await" \in {"shell", "delegate"} => market'[i].home = "L1"
        /\ "await" = "shell" => secret'[i].home = "none"
        /\ "await" \in {"delegate", "delegateSecret"} => secret'[i].home = "L1"
        /\ "await" = "delegateSecret" => market'[i].home = "ER"
        /\ "await" = "await" => market'[i].home = "ER" /\ secret'[i].home = "ER"
    BY <1>1, <1>2, <2>2 DEF FlowKnows
  <2> QED
    BY <1>1, <1>4, <2>2, <2>3, <2>4, OwnFlow
<1> QED
  BY <1>2, <1>3, <1>4, NextStages DEF Step, Sends

\* The market gets its permission.
LEMMA MarketPermissionFlow ==
  ASSUME VillageInvariant, VillageInvariant', FlowInvariant, NEW m \in Makers,
         NEW i, i = maker[m].id, Step(m, "marketPermission", market[i].home = "ER", InitMarketPermission(i))
  PROVE  FlowInvariant' /\ ChainGrows
<1>1. /\ maker[m].at = "marketPermission" /\ i \in Ids /\ market[i].maker = m /\ m # Nobody /\ village.exists
      /\ SecretFollows(i) /\ FlowKnows(m)
      /\ "marketPermission" \in {"marketPermission", "permission", "seal"} => Delegated(i)
      /\ market \in [Ids -> MarketRecord] /\ secret \in [Ids -> SecretRecord]
  BY OwnMarket DEF Step
<1>2. market[i].home = "ER"
  BY <1>1 DEF FlowKnows, Delegated
<1>3. CASE UNCHANGED chain /\ Throws(m, "lost")
  BY <1>3, LostFlowKeeps
<1>4. CASE InitMarketPermission(i) /\ (Goes(m, "permission") \/ Throws(m, "lost"))
  <2>1. /\ market' = [market EXCEPT ![i].permission = "public"]
        /\ secret' = secret /\ village' = village
    BY <1>4 DEF InitMarketPermission
  <2>2. /\ market'[i].permission = "public"
        /\ market'[i].maker = market[i].maker /\ market'[i].home = market[i].home
        /\ secret'[i] = secret[i] /\ Others(i)
    BY <1>1, <2>1 DEF MarketRecord, Others
  <2>3. /\ market'[i].maker = m /\ village'.exists
        /\ market[i].home \in {"ER", "back"} => market'[i].home = market[i].home
        /\ secret[i].text # Nobody => secret'[i].text # Nobody
        /\ secret[i].permission = "private" => secret'[i].permission = "private"
        /\ secret'[i].text # Nobody => market'[i].home \in {"ER", "back"}
    BY <1>1, <1>2, <2>1, <2>2 DEF SecretFollows, Delegated
  <2>4. /\ "permission" \in {"shell", "delegate"} => market'[i].home = "L1"
        /\ "permission" = "shell" => secret'[i].home = "none"
        /\ "permission" \in {"delegate", "delegateSecret"} => secret'[i].home = "L1"
        /\ "permission" = "delegateSecret" => market'[i].home = "ER"
        /\ "permission" = "await" => market'[i].home = "ER" /\ secret'[i].home = "ER"
    BY <1>1, <1>2, <2>2 DEF FlowKnows
  <2> QED
    BY <1>1, <1>4, <2>2, <2>3, <2>4, OwnFlow
<1> QED
  BY <1>2, <1>3, <1>4, NextStages DEF Step, Sends

\* The secret gets its own.
LEMMA PermissionFlow ==
  ASSUME VillageInvariant, VillageInvariant', FlowInvariant, NEW m \in Makers,
         NEW i, i = maker[m].id, Step(m, "permission", Delegated(i), InitSecretPermission(i))
  PROVE  FlowInvariant' /\ ChainGrows
<1>1. /\ maker[m].at = "permission" /\ i \in Ids /\ market[i].maker = m /\ m # Nobody /\ village.exists
      /\ SecretFollows(i) /\ FlowKnows(m)
      /\ "permission" \in {"marketPermission", "permission", "seal"} => Delegated(i)
      /\ market \in [Ids -> MarketRecord] /\ secret \in [Ids -> SecretRecord]
  BY OwnMarket DEF Step
<1>2. Delegated(i)
  BY <1>1 DEF FlowKnows, Delegated
<1>3. CASE UNCHANGED chain /\ Throws(m, "lost")
  BY <1>3, LostFlowKeeps
<1>4. CASE InitSecretPermission(i) /\ (Goes(m, "seal") \/ Throws(m, "lost"))
  <2>1. /\ secret' = [secret EXCEPT ![i].permission = "private"]
        /\ market' = market /\ village' = village
    BY <1>4 DEF InitSecretPermission
  <2>2. /\ secret'[i].permission = "private"
        /\ secret'[i].home = secret[i].home /\ secret'[i].text = secret[i].text
        /\ market'[i] = market[i] /\ Others(i)
    BY <1>1, <2>1 DEF SecretRecord, Others
  <2>3. /\ market'[i].maker = m /\ village'.exists
        /\ market[i].home \in {"ER", "back"} => market'[i].home = market[i].home
        /\ secret[i].text # Nobody => secret'[i].text # Nobody
        /\ secret[i].permission = "private" => secret'[i].permission = "private"
        /\ secret'[i].text # Nobody => market'[i].home \in {"ER", "back"}
    BY <1>1, <1>2, <2>1, <2>2 DEF SecretFollows, Delegated
  <2>4. /\ "seal" \in {"shell", "delegate"} => market'[i].home = "L1"
        /\ "seal" = "shell" => secret'[i].home = "none"
        /\ "seal" \in {"delegate", "delegateSecret"} => secret'[i].home = "L1"
        /\ "seal" = "delegateSecret" => market'[i].home = "ER"
        /\ "seal" = "await" => market'[i].home = "ER" /\ secret'[i].home = "ER"
    BY <1>1, <1>2, <2>2 DEF FlowKnows
  <2> QED
    BY <1>1, <1>4, <2>2, <2>3, <2>4, OwnFlow
<1> QED
  BY <1>2, <1>3, <1>4, NextStages DEF Step, Sends

\* The text is sealed.
LEMMA SealFlow ==
  ASSUME VillageInvariant, VillageInvariant', FlowInvariant, NEW m \in Makers,
         NEW i, i = maker[m].id, Step(m, "seal", Delegated(i), SealSecret(m, i))
  PROVE  FlowInvariant' /\ ChainGrows
<1>1. /\ maker[m].at = "seal" /\ i \in Ids /\ market[i].maker = m /\ m # Nobody /\ village.exists
      /\ SecretFollows(i) /\ FlowKnows(m)
      /\ "seal" \in {"marketPermission", "permission", "seal"} => Delegated(i)
      /\ market \in [Ids -> MarketRecord] /\ secret \in [Ids -> SecretRecord]
  BY OwnMarket DEF Step
<1>2. Delegated(i)
  BY <1>1 DEF FlowKnows, Delegated
<1>3. CASE UNCHANGED chain /\ Throws(m, "lost")
  BY <1>3, LostFlowKeeps
<1>4. CASE SealSecret(m, i) /\ (Goes(m, "done") \/ Throws(m, "lost"))
  <2>1. /\ secret' = [secret EXCEPT ![i].text = m]
        /\ market' = market /\ village' = village
    BY <1>4 DEF SealSecret
  <2>2. /\ secret'[i].text = m
        /\ secret'[i].home = secret[i].home /\ secret'[i].permission = secret[i].permission
        /\ market'[i] = market[i] /\ Others(i)
    BY <1>1, <2>1 DEF SecretRecord, Others
  <2>3. /\ market'[i].maker = m /\ village'.exists
        /\ market[i].home \in {"ER", "back"} => market'[i].home = market[i].home
        /\ secret[i].text # Nobody => secret'[i].text # Nobody
        /\ secret[i].permission = "private" => secret'[i].permission = "private"
        /\ secret'[i].text # Nobody => market'[i].home \in {"ER", "back"}
    BY <1>1, <1>2, <2>1, <2>2 DEF SecretFollows, Delegated
  <2>4. /\ "done" \in {"shell", "delegate"} => market'[i].home = "L1"
        /\ "done" = "shell" => secret'[i].home = "none"
        /\ "done" \in {"delegate", "delegateSecret"} => secret'[i].home = "L1"
        /\ "done" = "delegateSecret" => market'[i].home = "ER"
        /\ "done" = "await" => market'[i].home = "ER" /\ secret'[i].home = "ER"
    BY <1>1, <1>2, <2>2 DEF FlowKnows
  <2> QED
    BY <1>1, <1>4, <2>2, <2>3, <2>4, OwnFlow
<1> QED
  BY <1>2, <1>3, <1>4, NextStages DEF Step, Sends

\* The maker waits for its accounts.
LEMMA AwaitsFlow ==
  ASSUME VillageInvariant, VillageInvariant', FlowInvariant, NEW m \in Makers, Awaits(m)
  PROVE  FlowInvariant' /\ ChainGrows
<1> DEFINE i == maker[m].id
<1>1. /\ maker[m].at = "await" /\ i \in Ids /\ market[i].maker = m /\ village.exists
      /\ SecretFollows(i) /\ UNCHANGED <<village, market, secret>>
  BY OwnMarket DEF Awaits, chain
<1>2. CASE Goes(m, "marketPermission")
  BY <1>1, <1>2, OwnFlow DEF Others, SecretFollows
<1>3. CASE Throws(m, "lost")
  BY <1>1, <1>3, LostFlowKeeps DEF chain
<1> QED
  BY <1>2, <1>3, NextStages DEF Awaits

\* The market is made: nobody else has it, or the id was taken.
LEMMA CreatesFlow ==
  ASSUME VillageInvariant, VillageInvariant', FlowInvariant, NEW m \in Makers, Creates(m)
  PROVE  FlowInvariant' /\ ChainGrows
<1> DEFINE i == maker[m].id
<1>1. /\ maker[m].at = "create" /\ i \in Ids /\ village.exists /\ m # Nobody
      /\ SecretFollows(i) /\ SealedIsPrivate(i)
      /\ market \in [Ids -> MarketRecord] /\ secret \in [Ids -> SecretRecord]
      /\ village \in [exists : BOOLEAN, count : Nat]
  <2>1. maker[m].at = "create" /\ MakerKnows(m) /\ FlowKnows(m)
    BY DEF Creates, VillageInvariant, FlowInvariant
  <2>2. i \in Ids /\ village.exists
    BY <2>1 DEF MakerKnows, Reached, Stages, FlowKnows
  <2> QED
    BY <2>1, <2>2, VillageAssumption DEF VillageInvariant, VillageTypeOK, FlowInvariant
<1>2. CASE Creatable(i) /\ CreateMarket(m, i) /\ (Goes(m, "shell") \/ Throws(m, "lost"))
  <2>1. /\ market[i].maker = Nobody /\ market[i].home = "none"
        /\ secret[i].home = "none" /\ secret[i].text = Nobody
    BY <1>1, <1>2 DEF Creatable, SecretFollows, SealedIsPrivate
  <2>2. market' = [market EXCEPT ![i] = [NoMarket EXCEPT !.maker = m, !.home = "L1"]]
    BY <1>2, <2>1 DEF CreateMarket
  <2>3. /\ [NoMarket EXCEPT !.maker = m, !.home = "L1"].maker = m
        /\ [NoMarket EXCEPT !.maker = m, !.home = "L1"].home = "L1"
    BY DEF NoMarket
  <2>4. market'[i].maker = m /\ market'[i].home = "L1" /\ secret' = secret /\ Others(i)
    BY <1>1, <1>2, <2>2, <2>3 DEF CreateMarket, Others
  <2>5. village'.exists
    BY <1>1, <1>2 DEF CreateMarket
  <2>6. market[i].home \in {"ER", "back"} => market'[i].home = market[i].home
    BY <2>1
  <2> QED
    BY <1>1, <1>2, <2>1, <2>4, <2>5, <2>6, OwnFlow
<1>3. CASE UNCHANGED chain /\ Throws(m, "lost")
  BY <1>3, LostFlowKeeps
<1>4. CASE UNCHANGED chain /\ ~Creatable(i) /\ IdTaken(m)
  BY <1>1, <1>4, TakenFlow
<1> QED
  BY <1>2, <1>3, <1>4 DEF Creates, Sends

\* Every step of a maker.
LEMMA MakerFlow ==
  ASSUME VillageInvariant, VillageInvariant', FlowInvariant, NEW m \in Makers, MakerStep(m)
  PROVE  FlowInvariant' /\ ChainGrows
BY VillageFlow, EntersFlow, ClaimsFlow, CreatesFlow, ShellFlow, DelegateMarketFlow,
   DelegateSecretFlow, AwaitsFlow, MarketPermissionFlow, PermissionFlow, SealFlow DEF MakerStep

\* A stranger's steps leave the flows alone.
LEMMA StrangerFlow ==
  ASSUME FlowInvariant, UNCHANGED <<chain, maker>>
  PROVE  FlowInvariant'
<1>1. \A m \in Makers : FailedForAReason(m)' = FailedForAReason(m)
  BY DEF FailedForAReason, chain
<1>2. \A m \in Makers : Passed(m)' = Passed(m)
  BY DEF Passed, chain
<1>3. \A m \in Makers : FlowKnows(m)'
  BY <1>1, <1>2 DEF FlowInvariant, FlowKnows, Delegated, chain
<1> QED
  BY <1>3 DEF FlowInvariant, SecretFollows, chain

\* A market that goes home is not one that a flow is still about.
LEMMA GoingHomeFlow ==
  ASSUME VillageInvariant, SealersAreDone, FlowInvariant, NEW i \in Ids, GoesHome(i)
  PROVE  FlowInvariant'
<1>1. /\ market \in [Ids -> MarketRecord] /\ UNCHANGED <<village, secret, maker>>
      /\ market' = [market EXCEPT ![i].home = "back"]
  BY DEF VillageInvariant, VillageTypeOK, GoesHome
<1>2. /\ market'[i].home = "back" /\ market[i].maker # Nobody
      /\ \A j \in Ids : market'[j].maker = market[j].maker
      /\ \A j \in Ids \ {i} : market'[j] = market[j]
  BY <1>1, VillageAssumption DEF MarketRecord, SealersAreDone, GoesHome
<1>3. \A j \in Ids : SecretFollows(j)'
  BY <1>1, <1>2 DEF FlowInvariant, SecretFollows
<1>4. ASSUME NEW m \in Makers
      PROVE  FlowKnows(m)'
  <2>1. MakerKnows(m) /\ FlowKnows(m) /\ m # Nobody
    BY VillageAssumption DEF VillageInvariant, FlowInvariant
  <2>2. maker[m].at \in {"shell", "delegate", "delegateSecret", "await"} =>
          maker[m].id \in Ids /\ maker[m].id # i
    BY <1>4, <2>1 DEF MakerKnows, Reached, Stages, SealersAreDone, GoesHome
  <2>3. Passed(m)' = Passed(m)
    BY <1>1, <1>2 DEF Passed
  <2>4. FailedForAReason(m)' = FailedForAReason(m)
    <3>1. {j \in Ids : market'[j].maker \notin {m, Nobody}}
            = {j \in Ids : market[j].maker \notin {m, Nobody}}
      BY <1>2
    <3> QED
      BY <1>1, <3>1 DEF FailedForAReason
  <2> QED
    BY <1>1, <1>2, <2>1, <2>2, <2>3, <2>4 DEF FlowKnows, Delegated
<1> QED
  BY <1>3, <1>4 DEF FlowInvariant

\* The makers begin with nothing, beside the markets of an earlier seed.
LEMMA FlowInit == VillageInit => FlowInvariant
<1> SUFFICES ASSUME VillageInit PROVE FlowInvariant
  OBVIOUS
<1>1. Earlier \notin Makers /\ Nobody \notin Makers
  BY VillageAssumption
<1>2. PICK standing \in SUBSET Standing :
        /\ market = [i \in Ids |-> IF i \in standing
                       THEN [maker |-> Earlier, home |-> "ER", permission |-> "public"] ELSE NoMarket]
        /\ secret = [i \in Ids |-> IF i \in standing
                       THEN [home |-> "ER", permission |-> "private", text |-> Earlier] ELSE NoSecret]
  BY DEF VillageInit
<1>3. ASSUME NEW i \in Ids
      PROVE  /\ market[i].maker \in {Earlier, Nobody}
             /\ i \in standing => market[i].home = "ER"
             /\ i \in standing \/ (market[i].home = "none" /\ secret[i].home = "none"
                                   /\ secret[i].text = Nobody)
             /\ i \in standing => market[i].maker = Earlier
  BY <1>2 DEF NoMarket, NoSecret
<1>4. \A i \in Ids : SecretFollows(i)
  <2> SUFFICES ASSUME NEW i \in Ids PROVE SecretFollows(i)
    OBVIOUS
  <2>1. i \in standing => market[i].maker = Earlier /\ market[i].home = "ER"
    BY <1>3
  <2>2. i \notin standing => market[i].home = "none" /\ secret[i].home = "none"
                            /\ secret[i].text = Nobody
    BY <1>3
  <2>3. Earlier # Nobody
    BY VillageAssumption
  <2> QED
    BY <2>1, <2>2, <2>3 DEF SecretFollows
<1>5. ASSUME NEW m \in Makers PROVE FlowKnows(m)
  <2>1. maker[m].at = "village" /\ maker[m].looks = 0 /\ maker[m].tries = 0
    BY DEF VillageInit
  <2> QED
    BY <1>1, <1>3, <2>1 DEF FlowKnows
<1> QED
  BY <1>4, <1>5 DEF FlowInvariant

\* How far each maker has come, and why those that failed did: the guards of
\* lib.rs:45-123, 356-363, 489-528, 1130-1225 never refuse a flow of flows.ts:172-270 or
\* seed.ts:390-474 that has lost nothing, once its id is its own.
THEOREM FlowInvariantHolds == VillageSpec => []FlowInvariant
<1>1. VillageInit => FlowInvariant
  BY FlowInit
<1>2. VillageInvariant /\ SealersAreDone /\ VillageInvariant' /\ FlowInvariant
        /\ [VillageNext]_villageVars => FlowInvariant'
  <2> SUFFICES ASSUME VillageInvariant, SealersAreDone, VillageInvariant', FlowInvariant,
                      [VillageNext]_villageVars
               PROVE  FlowInvariant'
    OBVIOUS
  <2>1. CASE UNCHANGED <<chain, maker>>
    BY <2>1, StrangerFlow
  <2>2. CASE \E m \in Makers : MakerStep(m)
    BY <2>2, MakerFlow
  <2>3. CASE \E i \in Ids : GoesHome(i)
    BY <2>3, GoingHomeFlow
  <2> QED
    BY <2>1, <2>2, <2>3 DEF VillageNext, StrangerStep, villageVars
<1> QED
  BY <1>1, <1>2, VillageInvariantHolds, PTL DEF VillageSpec

\* A maker that ends well has a market of its own, private and sealed with its own
\* text; one that fails lost a call, drew an id somebody had, or has passed a market
\* for each of its looks or tries (flows.ts:172-270, seed.ts:390-409, 765-775).
THEOREM MakersAreServed == VillageSpec => []MakersGetTheirMarkets
<1>1. VillageInvariant /\ FlowInvariant => MakersGetTheirMarkets
  <2> SUFFICES ASSUME VillageInvariant, FlowInvariant, NEW m \in Makers
               PROVE  /\ maker[m].at = "done" => HasItsMarket(m)
                      /\ maker[m].at = "failed" => FailedForAReason(m)
    BY DEF MakersGetTheirMarkets
  <2>1. MakerKnows(m) /\ FlowKnows(m)
    BY DEF VillageInvariant, FlowInvariant
  <2>2. maker[m].at = "done" => HasItsMarket(m)
    <3> SUFFICES ASSUME maker[m].at = "done" PROVE HasItsMarket(m)
      OBVIOUS
    <3>1. /\ maker[m].id \in Ids /\ market[maker[m].id].maker = m
          /\ secret[maker[m].id].text = m /\ m # Nobody
      BY <2>1, VillageAssumption DEF MakerKnows, Reached, Stages
    <3> QED
      BY <3>1 DEF VillageInvariant, SealedIsPrivate, FlowInvariant, SecretFollows, HasItsMarket
  <2> QED
    BY <2>1, <2>2 DEF FlowKnows
<1> QED
  BY <1>1, VillageInvariantHolds, FlowInvariantHolds, PTL

----------------------------------------------------------------------------
(* What a stranger is shown.                                               *)

\* A probe.
ProbeRecord ==
  [page : {"none", "challenge", "landing"},
   at : {"idle", "permission", "anon", "token", "stranger", "market", "control", "done",
         "error", "running"},
   id : Nat, sealed : BOOLEAN, missed : BOOLEAN,
   held : SUBSET {"permission", "anon", "stranger", "market", "control"}]

\* The rows that hold when all before this one do.
RowsBefore(page, at) ==
  IF page = "challenge"
  THEN CASE at = "permission" -> {}
         [] at = "anon" -> {"permission"}
         [] at \in {"token", "stranger"} -> {"permission", "anon"}
         [] at = "market" -> {"permission", "anon", "stranger"}
         [] at = "control" -> {"permission", "anon", "stranger", "market"}
         [] OTHER -> {"permission", "anon", "stranger", "market", "control"}
  ELSE CASE at \in {"token", "stranger"} -> {}
         [] at = "control" -> {"stranger"}
         [] OTHER -> {"stranger", "control"}

\* The row that need not hold: the market's, once the market has gone home.
Gone == IF market[probe.id].home = "back" THEN {"market"} ELSE {}

\* Those of the rows that fail where the member list is not asked.
Open(rows) == IF enforced THEN {} ELSE rows \cap {"anon", "stranger"}

\* A row that held about the permission still does, what was sealed is, and if every
\* call was answered all the rows so far held, but for those.
ProbeInvariant ==
  /\ probe \in ProbeRecord
  /\ probe.at = "idle" => probe.held = {} /\ ~probe.sealed
  /\ probe.at # "idle" =>
       /\ probe.id \in Ids
       /\ probe.page \in {"challenge", "landing"}
       /\ probe.page = "landing" => probe.at \in {"token", "stranger", "control", "done", "error"}
       /\ probe.page = "challenge" => probe.at # "error"
       /\ "permission" \in probe.held => secret[probe.id].permission = "private"
       /\ probe.sealed => secret[probe.id].text # Nobody
       /\ probe.sealed /\ ~probe.missed =>
            LET before == RowsBefore(probe.page, probe.at)
            IN  probe.held \subseteq before /\ (before \ probe.held) \ Gone = Open(before)

\* The rows follow each other as the page has them, and each adds itself to those that
\* hold, but for the token's.
LEMMA RowsFollow ==
  ASSUME probe.page \in {"challenge", "landing"},
         probe.at \in {"permission", "anon", "token", "stranger", "market", "control"},
         probe.page = "landing" => probe.at \in {"token", "stranger", "control"}
  PROVE  /\ probe.at \notin RowsBefore(probe.page, probe.at)
         /\ Following \in {"anon", "token", "stranger", "market", "control", "done"}
         /\ probe.page = "landing" => Following \in {"stranger", "control", "done"}
         /\ RowsBefore(probe.page, Following) =
              IF probe.at = "token" THEN RowsBefore(probe.page, probe.at)
              ELSE RowsBefore(probe.page, probe.at) \cup {probe.at}
<1>1. CASE probe.page = "challenge"
  <2> DEFINE rows == <<"permission", "anon", "token", "stranger", "market", "control", "done">>
  <2>1. Rows[probe.page] = rows
    BY <1>1 DEF Rows
  <2>2. /\ DOMAIN rows = 1..7
        /\ rows[2] = "anon" /\ rows[3] = "token" /\ rows[4] = "stranger"
        /\ rows[5] = "market" /\ rows[6] = "control" /\ rows[7] = "done"
    OBVIOUS
  <2>3. \A n \in 1..7 : /\ rows[n] = "permission" <=> n = 1
                        /\ rows[n] = "anon" <=> n = 2
                        /\ rows[n] = "token" <=> n = 3
                        /\ rows[n] = "stranger" <=> n = 4
                        /\ rows[n] = "market" <=> n = 5
                        /\ rows[n] = "control" <=> n = 6
    OBVIOUS
  <2>4. Following = rows[1 + CHOOSE n \in DOMAIN rows : rows[n] = probe.at]
    BY <2>1 DEF Following
  <2> HIDE DEF rows
  <2>5. /\ probe.at = "permission" => Following = "anon"
        /\ probe.at = "anon" => Following = "token"
        /\ probe.at = "token" => Following = "stranger"
        /\ probe.at = "stranger" => Following = "market"
        /\ probe.at = "market" => Following = "control"
        /\ probe.at = "control" => Following = "done"
    BY <2>2, <2>3, <2>4
  <2> QED
    BY <1>1, <2>5 DEF RowsBefore
<1>2. CASE probe.page = "landing"
  <2> DEFINE rows == <<"token", "stranger", "control", "done">>
  <2>1. Rows[probe.page] = rows
    BY <1>2 DEF Rows
  <2>2. /\ DOMAIN rows = 1..4
        /\ rows[2] = "stranger" /\ rows[3] = "control" /\ rows[4] = "done"
    OBVIOUS
  <2>3. \A n \in 1..4 : /\ rows[n] = "token" <=> n = 1
                        /\ rows[n] = "stranger" <=> n = 2
                        /\ rows[n] = "control" <=> n = 3
    OBVIOUS
  <2>4. Following = rows[1 + CHOOSE n \in DOMAIN rows : rows[n] = probe.at]
    BY <2>1 DEF Following
  <2> HIDE DEF rows
  <2>5. /\ probe.at = "token" => Following = "stranger"
        /\ probe.at = "stranger" => Following = "control"
        /\ probe.at = "control" => Following = "done"
    BY <2>2, <2>3, <2>4
  <2> QED
    BY <1>2, <2>5 DEF RowsBefore
<1> QED
  BY <1>1, <1>2

\* A row is shown, whatever it says, if it says so truly.
LEMMA ShowsKeeps ==
  ASSUME ProbeInvariant, UNCHANGED <<chain, enforced>>,
         NEW held \in BOOLEAN, NEW missed \in BOOLEAN,
         probe.at \in {"permission", "anon", "token", "stranger", "market", "control"},
         Shows(held, missed),
         probe.at = "token" => ~held,
         held /\ probe.at = "permission" => secret[probe.id].permission = "private",
         probe.sealed /\ ~missed /\ probe.at # "token" =>
           \/ held <=> probe.at \notin Open({probe.at})
           \/ probe.at \in Gone
  PROVE  ProbeInvariant'
<1> DEFINE before == IF held THEN probe.held \cup {probe.at} ELSE probe.held
<1>1. /\ probe \in ProbeRecord /\ probe.id \in Ids /\ probe.page \in {"challenge", "landing"}
      /\ probe.page = "landing" => probe.at \in {"token", "stranger", "control"}
      /\ "permission" \in probe.held => secret[probe.id].permission = "private"
      /\ probe.sealed => secret[probe.id].text # Nobody
      /\ probe.sealed /\ ~probe.missed =>
           /\ probe.held \subseteq RowsBefore(probe.page, probe.at)
           /\ (RowsBefore(probe.page, probe.at) \ probe.held) \ Gone
                = Open(RowsBefore(probe.page, probe.at))
  BY DEF ProbeInvariant
<1>2. probe' = [probe EXCEPT !.at = Following, !.missed = @ \/ missed, !.held = before]
  BY DEF Shows
<1>3. /\ probe.at \notin RowsBefore(probe.page, probe.at)
      /\ Following \in {"anon", "token", "stranger", "market", "control", "done"}
      /\ probe.page = "landing" => Following \in {"stranger", "control", "done"}
      /\ RowsBefore(probe.page, Following) =
           IF probe.at = "token" THEN RowsBefore(probe.page, probe.at)
           ELSE RowsBefore(probe.page, probe.at) \cup {probe.at}
  BY <1>1, RowsFollow
<1>4. before \in SUBSET {"permission", "anon", "stranger", "market", "control"}
  BY <1>1 DEF ProbeRecord
<1>5. "permission" \in before => secret[probe.id].permission = "private"
  BY <1>1
<1>6. probe.sealed /\ ~probe.missed /\ ~missed =>
        /\ before \subseteq RowsBefore(probe.page, Following)
        /\ (RowsBefore(probe.page, Following) \ before) \ Gone
             = Open(RowsBefore(probe.page, Following))
  <2> SUFFICES ASSUME probe.sealed, ~probe.missed, ~missed
               PROVE  /\ before \subseteq RowsBefore(probe.page, Following)
                      /\ (RowsBefore(probe.page, Following) \ before) \ Gone
                           = Open(RowsBefore(probe.page, Following))
    OBVIOUS
  <2> DEFINE so == RowsBefore(probe.page, probe.at)
             then == RowsBefore(probe.page, Following)
  <2>1. /\ probe.held \subseteq so /\ (so \ probe.held) \ Gone = Open(so) /\ probe.at \notin so
        /\ then = IF probe.at = "token" THEN so ELSE so \cup {probe.at}
        /\ before = IF held THEN probe.held \cup {probe.at} ELSE probe.held
    BY <1>1, <1>3
  <2> HIDE DEF so, then, before
  <2>2. CASE probe.at = "token"
    <3>1. before = probe.held /\ then = so
      BY <2>1, <2>2
    <3> QED
      BY <2>1, <3>1 DEF then
  <2>3. CASE probe.at # "token"
    <3>0. then = so \cup {probe.at}
      BY <2>1, <2>3
    <3>1. Open(then) = Open(so) \cup Open({probe.at})
      BY <3>0 DEF Open
    <3>2. (then \ before) \ Gone = ((so \ probe.held) \ Gone)
                                     \cup (IF held THEN {} ELSE {probe.at} \ Gone)
      <4>1. CASE held
        <5>1. before = probe.held \cup {probe.at}
          BY <2>1, <4>1
        <5> QED
          BY <2>1, <3>0, <4>1, <5>1
      <4>2. CASE ~held
        <5>1. before = probe.held
          BY <2>1, <4>2
        <5> QED
          BY <2>1, <3>0, <4>2, <5>1
      <4> QED
        BY <4>1, <4>2
    <3>3. (IF held THEN {} ELSE {probe.at} \ Gone) = Open({probe.at})
      <4>1. Open({probe.at}) \subseteq {probe.at} /\ Open({probe.at}) \cap Gone = {}
        BY DEF Open, Gone
      <4>2. (held <=> probe.at \notin Open({probe.at})) \/ probe.at \in Gone
        BY <2>3
      <4> QED
        BY <4>1, <4>2
    <3> QED
      BY <2>1, <2>3, <3>1, <3>2, <3>3 DEF then
  <2> QED
    BY <2>2, <2>3 DEF then
<1> HIDE DEF before
<1> DEFINE RowsHeld == probe.sealed /\ ~probe.missed =>
                         LET so == RowsBefore(probe.page, probe.at)
                         IN  probe.held \subseteq so /\ (so \ probe.held) \ Gone = Open(so)
<1>7. /\ probe'.at = Following /\ probe'.held = before /\ probe'.page = probe.page
      /\ probe'.id = probe.id /\ probe'.sealed = probe.sealed
      /\ probe'.missed = (probe.missed \/ missed)
  BY <1>1, <1>2 DEF ProbeRecord
<1>8. probe' \in ProbeRecord
  BY <1>1, <1>2, <1>3, <1>4 DEF ProbeRecord
<1>9. Gone' = Gone
  BY <1>7 DEF Gone, chain
<1>10. RowsHeld'
  BY <1>6, <1>7, <1>9 DEF Open, RowsBefore
<1> QED
  BY <1>1, <1>3, <1>5, <1>7, <1>8, <1>10 DEF ProbeInvariant, chain, RowsBefore

\* A run that goes on without a row, or ends.
LEMMA EndsKeeps ==
  ASSUME ProbeInvariant, UNCHANGED <<chain, enforced>>, probe.at # "idle",
         NEW at \in {"control", "running", "error"}, Ends(at),
         probe.page = "landing" => at = "error", probe.page = "challenge" => at # "error"
  PROVE  ProbeInvariant'
<1>1. /\ probe' \in ProbeRecord /\ probe'.at = at /\ probe'.missed
      /\ probe'.page = probe.page /\ probe'.id = probe.id /\ probe'.sealed = probe.sealed
      /\ probe'.held = probe.held
  BY DEF ProbeInvariant, ProbeRecord, Ends
<1> QED
  BY <1>1 DEF ProbeInvariant, chain

\* What the accounts of a sealed secret are read as is what the rows expect, but for
\* those that fail where the member list is not asked, and for a market that is gone.
LEMMA SealedIsExpected ==
  ASSUME VillageInvariant, FlowInvariant, probe.id \in Ids, secret[probe.id].text # Nobody,
         probe.at \in {"anon", "stranger", "market", "control"}, NEW reply \in Replies(probe.at)
  PROVE  \/ Expected(probe.at, reply) <=> probe.at \notin Open({probe.at})
         \/ probe.at \in Gone
<1>1. /\ secret[probe.id].home = "ER" /\ secret[probe.id].permission = "private"
      /\ market[probe.id].home \in {"ER", "back"}
      /\ market[probe.id].permission \in {"none", "public"}
  BY DEF VillageInvariant, VillageTypeOK, MarketRecord, SealedIsPrivate, FlowInvariant, SecretFollows
<1>2. CASE probe.at \in {"anon", "stranger"}
  BY <1>1, <1>2 DEF Replies, Filtered, Unfiltered, Expected, Open
<1>3. CASE probe.at = "market"
  BY <1>1, <1>3 DEF Replies, Filtered, Unfiltered, Expected, Open, Gone
<1>4. CASE probe.at = "control"
  BY <1>1, <1>4 DEF Replies, Unfiltered, Expected, Open
<1> QED
  BY <1>2, <1>3, <1>4

\* A run begins: the first row of its page is asked.
LEMMA StartsKeeps ==
  ASSUME ProbeInvariant, UNCHANGED <<chain, enforced>>, StartsProbe
  PROVE  ProbeInvariant'
<1>1. PICK page \in DOMAIN Rows, i \in Ids :
        probe' = [probe EXCEPT !.page = page, !.at = Rows[page][1], !.id = i,
                               !.sealed = secret[i].text # Nobody]
  BY DEF StartsProbe
<1>2. /\ page \in {"challenge", "landing"}
      /\ Rows["challenge"][1] = "permission" /\ Rows["landing"][1] = "token"
  BY DEF Rows
<1>3. probe \in ProbeRecord /\ probe.held = {} /\ i \in Nat
  BY VillageAssumption DEF ProbeInvariant, StartsProbe
<1>4. /\ probe'.page = page /\ probe'.at = Rows[page][1] /\ probe'.id = i
      /\ probe'.sealed = (secret[i].text # Nobody) /\ probe'.held = {}
      /\ probe'.missed = probe.missed
  BY <1>1, <1>3 DEF ProbeRecord
<1>5. probe' \in ProbeRecord
  BY <1>1, <1>2, <1>3 DEF ProbeRecord
<1>6. RowsBefore(page, Rows[page][1]) = {}
  BY <1>2 DEF RowsBefore
<1>7. probe'.at \in {"permission", "token"} /\ (page = "landing" => probe'.at = "token")
  BY <1>2, <1>4
<1>8. LET so == RowsBefore(page, Rows[page][1])
      IN  probe'.held \subseteq so /\ (so \ probe'.held) \ Gone' = {}
          /\ (IF enforced THEN {} ELSE so \cap {"anon", "stranger"}) = {}
  BY <1>4, <1>6
<1> QED
  BY <1>2, <1>4, <1>5, <1>7, <1>8 DEF ProbeInvariant, chain, RowsBefore, Open

\* Every step of a stranger.
LEMMA StrangerKeeps ==
  ASSUME VillageInvariant, FlowInvariant, ProbeInvariant, StrangerStep, UNCHANGED enforced
  PROVE  ProbeInvariant'
<1>1. UNCHANGED <<chain, enforced>>
  BY DEF StrangerStep
<1>2. CASE StartsProbe
  BY <1>1, <1>2, StartsKeeps
<1>3. CASE AsksPermission
  <2>1. PICK held \in BOOLEAN, missed \in BOOLEAN :
          /\ Shows(held, missed) /\ (held => PermissionExists)
          /\ ~missed => (held <=> PermissionExists)
    BY <1>3 DEF AsksPermission, PermissionExists
  <2>2. probe.at = "permission" /\ probe.id \in Ids
        /\ (probe.sealed => secret[probe.id].text # Nobody)
    BY <1>3 DEF AsksPermission, ProbeInvariant
  <2>3. secret[probe.id].permission \in {"none", "private"} /\ SealedIsPrivate(probe.id)
    BY <2>2 DEF VillageInvariant, VillageTypeOK, SecretRecord
  <2>4. /\ PermissionExists => secret[probe.id].permission = "private"
        /\ probe.sealed => PermissionExists
    BY <2>2, <2>3 DEF PermissionExists, SealedIsPrivate
  <2>5. probe.at \notin Open({probe.at})
    BY <2>2 DEF Open
  <2> QED
    BY <1>1, <2>1, <2>2, <2>4, <2>5, ShowsKeeps
<1>4. CASE GetsToken
  <2>1. probe.at = "token" /\ probe.page \in {"challenge", "landing"}
    BY <1>4 DEF GetsToken, ProbeInvariant
  <2>2. CASE Shows(FALSE, FALSE)
    BY <1>1, <2>1, <2>2, ShowsKeeps
  <2>3. CASE Ends(IF probe.page = "challenge" THEN "control" ELSE "error")
    BY <1>1, <2>1, <2>3, EndsKeeps
  <2> QED
    BY <1>4, <2>2, <2>3 DEF GetsToken
<1>5. CASE AsksAccount
  <2>1. /\ probe.at \in {"anon", "stranger", "market", "control"} /\ probe.id \in Ids
        /\ probe.page \in {"challenge", "landing"}
        /\ (probe.sealed => secret[probe.id].text # Nobody)
    BY <1>5 DEF AsksAccount, ProbeInvariant
  <2>2. ASSUME NEW reply \in Replies(probe.at), Shows(Expected(probe.at, reply), FALSE)
        PROVE  ProbeInvariant'
    <3>1. probe.sealed => \/ Expected(probe.at, reply) <=> probe.at \notin Open({probe.at})
                          \/ probe.at \in Gone
      <4> SUFFICES ASSUME probe.sealed
                   PROVE  \/ Expected(probe.at, reply) <=> probe.at \notin Open({probe.at})
                          \/ probe.at \in Gone
        OBVIOUS
      <4> QED
        BY <2>1, <2>2, SealedIsExpected
    <3>2. Expected(probe.at, reply) \in BOOLEAN
      BY DEF Expected
    <3> QED
      BY <1>1, <2>1, <2>2, <3>1, <3>2, ShowsKeeps
  <2>3. CASE Shows(Expected(probe.at, "error"), TRUE)
    <3>1. Expected(probe.at, "error") \in BOOLEAN
      BY DEF Expected
    <3> QED
      BY <1>1, <2>1, <2>3, <3>1, ShowsKeeps
  <2>4. CASE Ends(IF probe.page = "landing" THEN "error"
                  ELSE IF probe.at \in {"stranger", "market"} THEN "control" ELSE "running")
    BY <1>1, <2>1, <2>4, EndsKeeps
  <2> QED
    BY <1>5, <2>2, <2>3, <2>4 DEF AsksAccount
<1> QED
  BY <1>2, <1>3, <1>4, <1>5 DEF StrangerStep

\* What a probe has found outlasts the makers' steps: a chain only grows.
LEMMA GrowingKeeps ==
  ASSUME ProbeInvariant, FlowInvariant, ChainGrows, UNCHANGED <<probe, enforced>>
  PROVE  ProbeInvariant'
<1>1. probe.sealed /\ probe.id \in Ids /\ secret[probe.id].text # Nobody => Gone' = Gone
  BY DEF FlowInvariant, SecretFollows, ChainGrows, Gone
<1>2. \A rows : Open(rows)' = Open(rows)
  BY DEF Open
<1> QED
  BY <1>1, <1>2 DEF ProbeInvariant, ChainGrows, RowsBefore

\* A market's going home changes what may be shown of the market, and nothing else.
LEMMA GoingHomeShown ==
  ASSUME VillageInvariant, ProbeInvariant, NEW i \in Ids, GoesHome(i), UNCHANGED enforced
  PROVE  ProbeInvariant'
<1>1. UNCHANGED <<secret, probe>> /\ market \in [Ids -> MarketRecord]
      /\ market' = [market EXCEPT ![i].home = "back"]
  BY DEF GoesHome, VillageInvariant, VillageTypeOK
<1>2. Gone \subseteq Gone' /\ Gone' \subseteq {"market"}
  BY <1>1 DEF Gone, MarketRecord
<1>3. \A rows : Open(rows)' = Open(rows) /\ "market" \notin Open(rows)
  BY DEF Open
<1>4. ASSUME NEW before, (before \ probe.held) \ Gone = Open(before)
      PROVE  (before \ probe.held) \ Gone' = Open(before)'
  BY <1>2, <1>3, <1>4
<1> QED
  BY <1>1, <1>4 DEF ProbeInvariant, RowsBefore

\* What a run of the probes has found is so in every state, however the makers' calls
\* fall between two rows (challenge/page.tsx:96-217, app/page.tsx:141-186).
THEOREM ProbeInvariantHolds == VillageSpec => []ProbeInvariant
<1>1. VillageInit => ProbeInvariant
  BY DEF VillageInit, ProbeInvariant, ProbeRecord
<1>2. VillageInvariant /\ VillageInvariant' /\ FlowInvariant /\ ProbeInvariant
        /\ [VillageNext]_villageVars => ProbeInvariant'
  <2> SUFFICES ASSUME VillageInvariant, VillageInvariant', FlowInvariant, ProbeInvariant,
                      [VillageNext]_villageVars
               PROVE  ProbeInvariant'
    OBVIOUS
  <2>1. CASE UNCHANGED villageVars
    BY <2>1 DEF villageVars, chain, ProbeInvariant, Gone, Open, RowsBefore
  <2>2. CASE StrangerStep
    BY <2>2, StrangerKeeps DEF VillageNext, villageVars
  <2>3. ASSUME NEW m \in Makers, MakerStep(m) PROVE ProbeInvariant'
    BY <2>3, MakerFlow, GrowingKeeps DEF MakerStep, VillageNext, villageVars
  <2>4. ASSUME NEW i \in Ids, GoesHome(i) PROVE ProbeInvariant'
    BY <2>4, GoingHomeShown DEF VillageNext, GoesHome, villageVars
  <2> QED
    BY <2>1, <2>2, <2>3, <2>4 DEF VillageNext
<1> QED
  BY <1>1, <1>2, VillageInvariantHolds, FlowInvariantHolds, PTL DEF VillageSpec

\* What the probes show is so: five rows that hold mean a private secret, and of a secret
\* sealed when they began, if every call was answered, those fail that a service must
\* fail which does not ask the member list, and no others, but for the market's once it
\* went home (challenge/page.tsx:96-217, app/page.tsx:141-186).
THEOREM ProbesAreHonest == VillageSpec => []ChallengeIsHonest
<1>1. ProbeInvariant => ChallengeIsHonest
  <2> SUFFICES ASSUME ProbeInvariant, probe.at = "done" PROVE ChallengeIsHonest
    BY DEF ChallengeIsHonest
  <2> DEFINE all == {Rows[probe.page][n] : n \in DOMAIN Rows[probe.page]} \ {"token", "done"}
  <2>1. all = RowsBefore(probe.page, "done")
    <3>1. CASE probe.page = "challenge"
      <4>1. Rows[probe.page] =
              <<"permission", "anon", "token", "stranger", "market", "control", "done">>
        BY <3>1 DEF Rows
      <4>2. {Rows[probe.page][n] : n \in DOMAIN Rows[probe.page]} =
              {"permission", "anon", "token", "stranger", "market", "control", "done"}
        BY <4>1
      <4> QED
        BY <3>1, <4>2 DEF RowsBefore
    <3>2. CASE probe.page = "landing"
      <4>1. Rows[probe.page] = <<"token", "stranger", "control", "done">>
        BY <3>2 DEF Rows
      <4>2. {Rows[probe.page][n] : n \in DOMAIN Rows[probe.page]} =
              {"token", "stranger", "control", "done"}
        BY <4>1
      <4> QED
        BY <3>2, <4>2 DEF RowsBefore
    <3> QED
      BY <3>1, <3>2 DEF ProbeInvariant
  <2>2. probe.page = "challenge" => "permission" \in RowsBefore(probe.page, "done")
    BY DEF RowsBefore
  <2> HIDE DEF all
  <2>3. /\ probe.page = "challenge" /\ probe.held = all => secret[probe.id].permission = "private"
        /\ probe.sealed /\ ~probe.missed =>
             (all \ probe.held) \ Gone = IF enforced THEN {} ELSE all \cap {"anon", "stranger"}
    BY <2>1, <2>2 DEF ProbeInvariant, Open
  <2> QED
    BY <2>3 DEF ChallengeIsHonest, all, Gone
<1> QED
  BY <1>1, ProbeInvariantHolds, PTL
============================================================================
