----------------------------- MODULE FeedProofs -----------------------------
(***************************************************************************)
(* Proofs about what a market's page reads.  Module Feed: a read whose     *)
(* calls were all answered shows nothing older than the market was when it *)
(* began, for every number of reads in flight, of versions and of          *)
(* failures.  Module History: the strip of the market's transactions tells *)
(* nothing that did not happen and leaves nothing out without a reason,    *)
(* for ledgers of every length and every limit.                            *)
(***************************************************************************)
EXTENDS Feed, History, Integers, TLAPS

----------------------------------------------------------------------------
(* Where the newest copy is.                                               *)

\* A market is newest on the layer it is on; the rollup's copy, while there is
\* none, is owed nothing; and a copy that is left over says that the market has
\* been delegated, which happens once.
CopiesAreKnown ==
  /\ place = "L1" \/ clone = 0 => snapshot = version
  /\ place # "L1" /\ clone # 0 => clone = version
  /\ place = "returning" => clone # 0
  /\ place # "L1" \/ clone # 0 => delegated
  /\ snapshot <= version /\ clone <= version

\* What a read has learned, and what its next call can find.
ReadIsCurrent(r) ==
  LET now == read[r] IN
  /\ now.at # "idle" => now.began <= version
  /\ now.at \in {"base", "last"} /\ ~now.lost => snapshot >= now.began
  /\ now.at = "er" /\ ~now.lost => clone = 0 \/ clone >= now.began
  /\ now.base \in {Unread, Null, NoView} \/ now.base.layer = "base"
  /\ now.at = "rows" =>
       /\ now.base.layer = "base" => now.base.version >= now.began
       /\ now.base = Null => now.lost
       /\ now.base = NoView => clone = 0 \/ clone >= now.began
       /\ now.base = NoView /\ now.er.layer = "er" => now.er.version >= now.began
       /\ now.base = Unread /\ now.er.layer = "er" =>
            now.er.version >= now.began \/ (place = "L1" /\ delegated)

FeedInvariant ==
  /\ FeedTypeOK
  /\ CopiesAreKnown
  /\ \A r \in Reads : ReadIsCurrent(r)

----------------------------------------------------------------------------
(* The type invariant.                                                     *)

\* What a layer answers to a read is a version or nothing.
LEMMA ViewsAreTyped ==
  ASSUME FeedTypeOK
  PROVE  /\ NoView \in View
         /\ \A label \in {"base", "er"} : BaseView(label) \in View
         /\ ErView \in View
BY FeedAssumption DEF FeedTypeOK, NoView, View, BaseView, ErView

\* Every record a read becomes is one of these.
LEMMA LandsIsTyped ==
  ASSUME FeedTypeOK, NEW r \in Reads, NEW view \in View, NEW threw \in BOOLEAN,
         Lands(r, view, threw), faults' \in 0..MaxFaults
  PROVE  FeedTypeOK'
<1>1. Idle \in ReadRecord
  BY FeedAssumption DEF Idle, ReadRecord, Steps, Rows, Unread
<1>2. read' \in [Reads -> ReadRecord]
  BY <1>1 DEF Lands, FeedTypeOK
<1>3. shown' \in [data : View, loading : BOOLEAN, error : BOOLEAN]
  BY DEF Lands, FeedTypeOK
<1>4. pushed' \in BOOLEAN
  BY DEF Lands, FeedTypeOK
<1> QED
  BY <1>2, <1>3, <1>4 DEF Lands, FeedTypeOK, worldVars

\* A read that goes on to its next call stays a record of a read.
LEMMA GoesIsTyped ==
  ASSUME FeedTypeOK, NEW r \in Reads, NEW record \in ReadRecord,
         Goes(r, record), faults' \in 0..MaxFaults
  PROVE  FeedTypeOK'
BY DEF Goes, FeedTypeOK, worldVars

\* A read that begins is one.
LEMMA BeginsIsTyped ==
  ASSUME FeedTypeOK, NEW r \in Reads, Begins(r)
  PROVE  read' \in [Reads -> ReadRecord]
<1> DEFINE at == IF page = "market" THEN "owner" ELSE "rows"
           begun == [Idle EXCEPT !.at = at, !.began = version]
<1>1. at \in Steps /\ version \in 0..MaxVersion
  BY FeedAssumption DEF FeedTypeOK, Steps
<1>2. Idle \in ReadRecord
  BY FeedAssumption DEF Idle, ReadRecord, Steps, Rows, Unread
<1>3. begun \in ReadRecord
  <2> HIDE DEF at
  <2> QED
    BY <1>1, <1>2 DEF ReadRecord
<1>4. read' = [read EXCEPT ![r] = begun]
  BY DEF Begins
<1> QED
  BY <1>3, <1>4 DEF FeedTypeOK

\* Faults are counted in the naturals.
LEMMA FaultsAreTyped ==
  ASSUME FeedTypeOK, Answers \/ Fails
  PROVE  faults' \in 0..MaxFaults
BY FeedAssumption DEF FeedTypeOK, Answers, Fails

\* Goes' records, field by field.
LEMMA RecordsAreTyped ==
  ASSUME FeedTypeOK, NEW r \in Reads, NEW at \in Steps, NEW lost \in BOOLEAN, NEW onBase \in BOOLEAN,
         NEW er \in Rows, NEW base \in Rows
  PROVE  /\ [read[r] EXCEPT !.at = at, !.onBase = onBase] \in ReadRecord
         /\ [read[r] EXCEPT !.at = at, !.lost = lost] \in ReadRecord
         /\ [read[r] EXCEPT !.at = at] \in ReadRecord
         /\ [read[r] EXCEPT !.er = er, !.lost = lost] \in ReadRecord
         /\ [read[r] EXCEPT !.base = base, !.lost = lost] \in ReadRecord
BY DEF FeedTypeOK, ReadRecord

\* Every step of the world and of the reads keeps the types.
LEMMA TypeStep ==
  ASSUME FeedTypeOK, FeedNext
  PROVE  FeedTypeOK'
<1> USE FeedAssumption
<1>1. CASE World
  <2>1. version' \in 1..MaxVersion /\ snapshot' \in 1..MaxVersion /\ clone' \in 0..MaxVersion
    <3>1. CASE Change
      <4>1. version' = version + 1 /\ version + 1 \in 1..MaxVersion
        BY <3>1 DEF Change, FeedTypeOK
      <4>2. \/ clone' = version + 1 /\ snapshot' = snapshot
            \/ snapshot' = version + 1 /\ clone' = clone
        BY <3>1 DEF Change
      <4> QED
        BY <4>1, <4>2 DEF FeedTypeOK
    <3>2. CASE Delegate \/ Clones \/ Undelegate
      BY <3>2 DEF Delegate, Clones, Undelegate, FeedTypeOK
    <3>3. CASE Returns \/ Evicts
      BY <3>3 DEF Returns, Evicts, FeedTypeOK
    <3> QED
      BY <1>1, <3>1, <3>2, <3>3 DEF World
  <2>2. place' \in {"L1", "ER", "returning"}
    BY <1>1 DEF World, Change, Delegate, Clones, Undelegate, Returns, Evicts, FeedTypeOK
  <2>3. delegated' \in BOOLEAN
    BY <1>1 DEF World, Change, Delegate, Clones, Undelegate, Returns, Evicts, FeedTypeOK
  <2>4. pushed' \in BOOLEAN
    BY <1>1 DEF World, FeedTypeOK
  <2> QED
    BY <1>1, <2>1, <2>2, <2>3, <2>4 DEF World, FeedTypeOK
<1>2. CASE PollBegins
  <2>1. read' \in [Reads -> ReadRecord]
    BY <1>2, BeginsIsTyped DEF PollBegins
  <2> QED
    BY <1>2, <2>1 DEF PollBegins, FeedTypeOK, worldVars
<1>3. ASSUME NEW r \in Reads, PushBegins(r)
      PROVE  FeedTypeOK'
  <2>1. read' \in [Reads -> ReadRecord]
    BY <1>3, BeginsIsTyped DEF PushBegins
  <2> QED
    BY <1>3, <2>1 DEF PushBegins, FeedTypeOK, worldVars
<1>4. ASSUME NEW r \in Reads, ReadStep(r)
      PROVE  FeedTypeOK'
  <2> DEFINE now == read[r]
  <2>1. /\ now \in ReadRecord /\ now.er \in Rows /\ now.base \in Rows /\ now.lost \in BOOLEAN
        /\ {"idle", "rows", "owner", "base", "er", "last"} = Steps
    BY DEF FeedTypeOK, ReadRecord, Steps
  <2>2. CASE Owner(r)
    BY <2>1, <2>2, GoesIsTyped, FaultsAreTyped, RecordsAreTyped DEF Owner
  <2>3. CASE Base(r)
    BY <2>1, <2>3, GoesIsTyped, LandsIsTyped, FaultsAreTyped, RecordsAreTyped, ViewsAreTyped DEF Base
  <2>4. CASE Er(r)
    BY <2>1, <2>4, GoesIsTyped, LandsIsTyped, FaultsAreTyped, RecordsAreTyped, ViewsAreTyped DEF Er
  <2>5. CASE Last(r)
    BY <2>5, LandsIsTyped, FaultsAreTyped, ViewsAreTyped DEF Last
  <2>6. ASSUME NEW layer \in {"er", "base"}, RowsOn(r, layer)
        PROVE  FeedTypeOK'
    <3> DEFINE rows == IF layer = "er"
                       THEN IF clone # 0 THEN ErView ELSE NoView
                       ELSE IF place = "L1" THEN BaseView("base") ELSE NoView
    <3>1. rows \in Rows /\ Null \in Rows
      BY ViewsAreTyped DEF Rows, Null
    <3>2. PICK got \in {rows, Null} :
            /\ Answers \/ Fails
            /\ Goes(r, IF layer = "er"
                       THEN [now EXCEPT !.er = got, !.lost = @ \/ got = Null]
                       ELSE [now EXCEPT !.base = got, !.lost = @ \/ got = Null])
      BY <2>6 DEF RowsOn
    <3>3. (now.lost \/ got = Null) \in BOOLEAN
      BY <2>1
    <3> QED
      BY <2>1, <3>1, <3>2, <3>3, GoesIsTyped, FaultsAreTyped DEF ReadRecord
  <2>7. CASE Union(r)
    <3>1. BaseWins(now.er, now.base) \in View
      BY <2>1, ViewsAreTyped DEF BaseWins, Rows
    <3>2. faults' \in 0..MaxFaults
      BY <2>7 DEF Union, FeedTypeOK
    <3> QED
      BY <2>1, <2>7, <3>1, <3>2, GoesIsTyped, LandsIsTyped, RecordsAreTyped, ViewsAreTyped DEF Union
  <2> QED
    BY <1>4, <2>2, <2>3, <2>4, <2>5, <2>6, <2>7 DEF ReadStep
<1>5. CASE Unmounts
  BY <1>5 DEF Unmounts, FeedTypeOK, worldVars
<1> QED
  BY <1>1, <1>2, <1>3, <1>4, <1>5 DEF FeedNext

----------------------------------------------------------------------------
(* The copies.                                                             *)

\* A read does not change what it reads.
LEMMA OnlyTheWorldMoves ==
  ASSUME FeedNext
  PROVE  World \/ UNCHANGED worldVars
BY DEF FeedNext, PollBegins, PushBegins, ReadStep, Owner, Base, Er, Last, RowsOn, Union,
       Goes, Lands, Unmounts

\* The world keeps the newest copy where CopiesAreKnown says that it is.
LEMMA CopiesStep ==
  ASSUME FeedTypeOK, CopiesAreKnown, FeedNext
  PROVE  CopiesAreKnown'
<1>1. CASE World
  <2> USE FeedAssumption DEF FeedTypeOK, CopiesAreKnown
  <2>1. CASE Change
    BY <2>1 DEF Change
  <2>2. CASE Delegate
    BY <2>2 DEF Delegate
  <2>3. CASE Clones
    BY <2>3 DEF Clones
  <2>4. CASE Undelegate
    BY <2>4 DEF Undelegate
  <2>5. CASE Returns
    BY <2>5 DEF Returns
  <2>6. CASE Evicts
    BY <2>6 DEF Evicts
  <2> QED
    BY <1>1, <2>1, <2>2, <2>3, <2>4, <2>5, <2>6 DEF World
<1>2. CASE UNCHANGED worldVars
  BY <1>2 DEF worldVars, CopiesAreKnown
<1> QED
  BY <1>1, <1>2, OnlyTheWorldMoves

\* What a step of the market does to its copies: they grow, or go.
LEMMA CopiesGrow ==
  ASSUME FeedTypeOK, CopiesAreKnown, World
  PROVE  /\ version' >= version /\ snapshot' >= snapshot
         /\ clone' = 0 \/ (clone # 0 /\ clone' >= clone) \/ clone' >= version
         /\ place = "L1" /\ delegated => place' = "L1" /\ delegated'
<1> USE FeedAssumption DEF FeedTypeOK, CopiesAreKnown
<1>1. CASE Change
  BY <1>1 DEF Change
<1>2. CASE Delegate
  BY <1>2 DEF Delegate
<1>3. CASE Clones
  BY <1>3 DEF Clones
<1>4. CASE Undelegate
  BY <1>4 DEF Undelegate
<1>5. CASE Returns
  BY <1>5 DEF Returns
<1>6. CASE Evicts
  BY <1>6 DEF Evicts
<1> QED
  BY <1>1, <1>2, <1>3, <1>4, <1>5, <1>6 DEF World

----------------------------------------------------------------------------
(* The reads.                                                              *)

\* What a read has learned stays true of a market that changes or moves meanwhile.
LEMMA WorldKeepsReads ==
  ASSUME FeedInvariant, World, NEW r \in Reads
  PROVE  ReadIsCurrent(r)'
<1> DEFINE now == read[r]
<1>1. /\ FeedTypeOK /\ CopiesAreKnown /\ ReadIsCurrent(r)
  BY DEF FeedInvariant
<1>2. read' = read
  BY DEF World
<1>3. /\ version' >= version /\ snapshot' >= snapshot
      /\ clone' = 0 \/ (clone # 0 /\ clone' >= clone) \/ clone' >= version
      /\ place = "L1" /\ delegated => place' = "L1" /\ delegated'
  BY <1>1, CopiesGrow
<1>4. /\ version \in Nat /\ snapshot \in Nat /\ clone \in Nat /\ now.began \in Nat
  BY <1>1, FeedAssumption DEF FeedTypeOK, ReadRecord
<1>5. /\ version' \in Nat /\ snapshot' \in Nat /\ clone' \in Nat
  BY <1>1, TypeStep, FeedAssumption DEF FeedNext, FeedTypeOK
<1>6. now.at # "idle" /\ (clone = 0 \/ clone >= now.began) => clone' = 0 \/ clone' >= now.began
  BY <1>1, <1>3, <1>4, <1>5 DEF ReadIsCurrent
<1>7. now.at # "idle" => now.began <= version'
  BY <1>1, <1>3, <1>4, <1>5 DEF ReadIsCurrent
<1>8. snapshot >= now.began => snapshot' >= now.began
  BY <1>3, <1>4, <1>5
<1> QED
  BY <1>1, <1>2, <1>3, <1>6, <1>7, <1>8 DEF ReadIsCurrent

\* A read that is done, or that moves on with nothing learned, has nothing to show.
LEMMA IdleIsCurrent ==
  ASSUME NEW r \in Reads, read'[r] = Idle
  PROVE  ReadIsCurrent(r)'
BY DEF ReadIsCurrent, Idle, Unread

\* A read knows nothing old when it begins.
LEMMA BegunIsCurrent ==
  ASSUME FeedTypeOK, NEW r \in Reads, Begins(r), UNCHANGED worldVars
  PROVE  ReadIsCurrent(r)'
<1>1. read'[r] = [Idle EXCEPT !.at = IF page = "market" THEN "owner" ELSE "rows",
                              !.began = version]
  BY DEF Begins, FeedTypeOK
<1>2. /\ read'[r].at \in {"owner", "rows"} /\ read'[r].began = version
      /\ read'[r].base = Unread /\ read'[r].er = Unread
  BY <1>1 DEF Idle
<1>3. version' = version /\ version <= version
  BY FeedAssumption DEF worldVars, FeedTypeOK
<1> QED
  BY <1>2, <1>3 DEF ReadIsCurrent, Unread, Null, NoView

\* A step of one read leaves the others as they are, and the market.
LEMMA OthersAreKept ==
  ASSUME FeedInvariant, NEW r \in Reads, NEW s \in Reads \ {r},
         read'[s] = read[s], UNCHANGED worldVars
  PROVE  ReadIsCurrent(s)'
BY DEF FeedInvariant, ReadIsCurrent, worldVars

\* Each of its calls leaves it with what CopiesAreKnown and the last call allow.
LEMMA StepIsCurrent ==
  ASSUME FeedInvariant, NEW r \in Reads, ReadStep(r)
  PROVE  ReadIsCurrent(r)'
<1> DEFINE now == read[r]
           next == read'[r]
<1>1. /\ FeedTypeOK /\ CopiesAreKnown /\ ReadIsCurrent(r)
      /\ now \in ReadRecord /\ read \in [Reads -> ReadRecord]
  BY DEF FeedInvariant, FeedTypeOK
<1>2. UNCHANGED <<place, version, snapshot, clone, delegated>>
  BY DEF ReadStep, Owner, Base, Er, Last, RowsOn, Union, Goes, Lands, worldVars
<1>3. /\ version \in Nat /\ snapshot \in Nat /\ clone \in Nat /\ now.began \in Nat
  BY <1>1, FeedAssumption DEF FeedTypeOK, ReadRecord
<1>4. ASSUME NEW view, NEW threw, Lands(r, view, threw)
      PROVE  ReadIsCurrent(r)'
  <2>1. next = Idle
    BY <1>1, <1>4 DEF Lands
  <2> QED
    BY <2>1, IdleIsCurrent
<1>5. ASSUME NEW record, Goes(r, record)
      PROVE  next = record
  BY <1>1, <1>5 DEF Goes
<1>6. CASE Owner(r)
  <2>1. CASE next = [now EXCEPT !.at = IF Homed THEN "base" ELSE "er", !.onBase = TRUE]
    <3>1. /\ next.at = IF Homed THEN "base" ELSE "er"
          /\ next.lost = now.lost /\ next.began = now.began /\ next.base = now.base
      BY <1>1, <2>1 DEF ReadRecord
    <3>2. now.began <= version
      BY <1>1, <1>6 DEF Owner, ReadIsCurrent
    <3> QED
      BY <1>1, <1>2, <1>3, <3>1, <3>2 DEF Homed, CopiesAreKnown, ReadIsCurrent
  <2>2. CASE next = [now EXCEPT !.at = "er", !.lost = TRUE]
    <3>1. /\ next.at = "er" /\ next.lost = TRUE
          /\ next.began = now.began /\ next.base = now.base
      BY <1>1, <2>2 DEF ReadRecord
    <3> QED
      BY <1>1, <1>2, <1>6, <3>1 DEF Owner, ReadIsCurrent
  <2> QED
    BY <1>5, <1>6, <2>1, <2>2 DEF Owner
<1>7. CASE Base(r)
  <2>1. CASE next = [now EXCEPT !.at = "er", !.lost = TRUE]
    <3>1. /\ next.at = "er" /\ next.lost = TRUE
          /\ next.began = now.began /\ next.base = now.base
      BY <1>1, <2>1 DEF ReadRecord
    <3> QED
      BY <1>1, <1>2, <1>7, <3>1 DEF Base, ReadIsCurrent
  <2> QED
    BY <1>4, <1>5, <1>7, <2>1 DEF Base
<1>8. CASE Er(r)
  <2>1. CASE clone = 0 /\ next = [now EXCEPT !.at = "last"]
    <3>1. /\ next.at = "last" /\ next.lost = now.lost
          /\ next.began = now.began /\ next.base = now.base
      BY <1>1, <2>1 DEF ReadRecord
    <3>2. now.began <= version
      BY <1>1, <1>8 DEF Er, ReadIsCurrent
    <3> QED
      BY <1>1, <1>2, <1>3, <2>1, <3>1, <3>2 DEF CopiesAreKnown, ReadIsCurrent
  <2>2. CASE next = [now EXCEPT !.at = "last", !.lost = TRUE]
    <3>1. /\ next.at = "last" /\ next.lost = TRUE
          /\ next.began = now.began /\ next.base = now.base
      BY <1>1, <2>2 DEF ReadRecord
    <3> QED
      BY <1>1, <1>2, <1>8, <3>1 DEF Er, ReadIsCurrent
  <2> QED
    BY <1>4, <1>5, <1>8, <2>1, <2>2 DEF Er
<1>9. CASE Last(r)
  BY <1>4, <1>9 DEF Last
<1>10. CASE RowsOn(r, "er")
  <2>1. PICK got \in {IF clone # 0 THEN ErView ELSE NoView, Null} :
          next = [now EXCEPT !.er = got, !.lost = @ \/ got = Null]
    BY <1>5, <1>10 DEF RowsOn
  <2>2. /\ next.at = "rows" /\ next.er = got /\ next.began = now.began /\ next.base = now.base
        /\ now.lost => next.lost
    BY <1>1, <1>10, <2>1 DEF ReadRecord, RowsOn
  <2>3. now.at = "rows" /\ now.began <= version
    BY <1>1, <1>10 DEF RowsOn, ReadIsCurrent
  <2>4. CASE got.layer = "er"
    <3>1. clone # 0 /\ got.version = clone
      BY <2>1, <2>4 DEF ErView, NoView, Null
    <3>2. clone = version \/ (place = "L1" /\ delegated)
      BY <1>1, <3>1 DEF CopiesAreKnown
    <3> QED
      BY <1>1, <1>2, <1>3, <2>2, <2>3, <3>1, <3>2 DEF ReadIsCurrent
  <2> QED
    BY <1>1, <1>2, <2>2, <2>3, <2>4 DEF ReadIsCurrent
<1>11. CASE RowsOn(r, "base")
  <2>1. PICK got \in {IF place = "L1" THEN BaseView("base") ELSE NoView, Null} :
          next = [now EXCEPT !.base = got, !.lost = @ \/ got = Null]
    BY <1>5, <1>11 DEF RowsOn
  <2>2. /\ next.at = "rows" /\ next.base = got /\ next.began = now.began /\ next.er = now.er
        /\ got = Null => next.lost
    BY <1>1, <1>11, <2>1 DEF ReadRecord, RowsOn
  <2>3. now.at = "rows" /\ now.base = Unread /\ now.began <= version
    BY <1>1, <1>11 DEF RowsOn, ReadIsCurrent
  <2>4. CASE got = BaseView("base") /\ place = "L1"
    <3>1. got.layer = "base" /\ got.version = version /\ got \notin {Unread, Null, NoView}
      BY <1>1, <2>4 DEF BaseView, CopiesAreKnown, Unread, Null, NoView
    <3> QED
      BY <1>1, <1>2, <1>3, <2>2, <2>3, <3>1 DEF ReadIsCurrent
  <2>5. CASE got = NoView /\ place # "L1"
    <3>1. got.layer # "base" /\ got \notin {Unread, Null}
      BY <2>5 DEF Unread, Null, NoView
    <3>2. clone = 0 \/ clone = version
      BY <1>1, <2>5 DEF CopiesAreKnown
    <3>3. now.er.layer = "er" => now.er.version >= now.began
      BY <1>1, <2>3, <2>5 DEF ReadIsCurrent
    <3> QED
      BY <1>1, <1>2, <1>3, <2>2, <2>3, <2>5, <3>1, <3>2, <3>3 DEF ReadIsCurrent
  <2>6. CASE got = Null
    <3>1. got.layer # "base" /\ got \notin {Unread, NoView}
      BY <2>6 DEF Unread, Null, NoView
    <3> QED
      BY <1>1, <1>2, <2>2, <2>3, <2>6, <3>1 DEF ReadIsCurrent
  <2> QED
    BY <2>1, <2>4, <2>5, <2>6
<1>12. CASE Union(r)
  <2>1. CASE next = [now EXCEPT !.at = "owner"]
    <3>1. next.at = "owner" /\ next.began = now.began /\ next.base = now.base
      BY <1>1, <2>1 DEF ReadRecord
    <3> QED
      BY <1>1, <1>2, <1>12, <3>1 DEF Union, ReadIsCurrent
  <2> QED
    BY <1>4, <1>5, <1>12, <2>1 DEF Union
<1> QED
  BY <1>6, <1>7, <1>8, <1>9, <1>10, <1>11, <1>12 DEF ReadStep

----------------------------------------------------------------------------
(* The theorems.                                                           *)

\* The three parts of the invariant, kept together.
LEMMA InvariantStep ==
  ASSUME FeedInvariant, [FeedNext]_feedVars
  PROVE  FeedInvariant'
<1>1. CASE UNCHANGED feedVars
  BY <1>1 DEF feedVars, worldVars, pageVars, FeedInvariant, FeedTypeOK, CopiesAreKnown, ReadIsCurrent
<1>2. CASE FeedNext
  <2>1. FeedTypeOK' /\ CopiesAreKnown'
    BY <1>2, TypeStep, CopiesStep DEF FeedInvariant
  <2>2. ASSUME NEW s \in Reads
        PROVE  ReadIsCurrent(s)'
    <3>1. CASE World
      BY <3>1, WorldKeepsReads
    <3>2. ASSUME NEW r \in Reads, Begins(r), UNCHANGED worldVars
          PROVE  ReadIsCurrent(s)'
      <4>1. s # r => read'[s] = read[s]
        BY <3>2 DEF Begins, FeedInvariant, FeedTypeOK
      <4> QED
        BY <3>2, <4>1, BegunIsCurrent, OthersAreKept DEF FeedInvariant
    <3>3. ASSUME NEW r \in Reads, ReadStep(r)
          PROVE  ReadIsCurrent(s)'
      <4>1. UNCHANGED worldVars
        BY <3>3 DEF ReadStep, Owner, Base, Er, Last, RowsOn, Union, Goes, Lands
      <4>2. s # r => read'[s] = read[s]
        BY <3>3 DEF ReadStep, Owner, Base, Er, Last, RowsOn, Union, Goes, Lands,
                    FeedInvariant, FeedTypeOK
      <4> QED
        BY <3>3, <4>1, <4>2, StepIsCurrent, OthersAreKept
    <3>4. CASE Unmounts
      BY <3>4 DEF Unmounts, worldVars, FeedInvariant, ReadIsCurrent
    <3> QED
      BY <1>2, <3>1, <3>2, <3>3, <3>4, FeedAssumption DEF FeedNext, PollBegins, PushBegins
  <2> QED
    BY <2>1, <2>2 DEF FeedInvariant
<1> QED
  BY <1>1, <1>2

\* And true at first.
LEMMA InvariantInit ==
  ASSUME FeedInit
  PROVE  FeedInvariant
<1>1. FeedTypeOK
  <2>1. /\ version \in 1..MaxVersion /\ snapshot \in 1..MaxVersion /\ clone \in 0..MaxVersion
        /\ faults \in 0..MaxFaults
    BY FeedAssumption DEF FeedInit
  <2>2. place \in {"L1", "ER", "returning"} /\ delegated \in BOOLEAN
    BY DEF FeedInit
  <2>3. page \in {"market", "village"} /\ others \in BOOLEAN /\ pushed \in BOOLEAN /\ mounted \in BOOLEAN
    BY DEF FeedInit
  <2>4. Idle \in ReadRecord
    BY FeedAssumption DEF Idle, ReadRecord, Steps, Rows, Unread
  <2>5. read \in [Reads -> ReadRecord]
    BY <2>4 DEF FeedInit
  <2>6. NoView \in View
    BY FeedAssumption DEF View, NoView
  <2>7. shown \in [data : View, loading : BOOLEAN, error : BOOLEAN]
    BY <2>6 DEF FeedInit
  <2> QED
    BY <2>1, <2>2, <2>3, <2>5, <2>7 DEF FeedTypeOK
<1>2. CopiesAreKnown
  BY DEF FeedInit, CopiesAreKnown
<1>3. \A r \in Reads : ReadIsCurrent(r)
  BY DEF FeedInit, ReadIsCurrent, Idle, Unread
<1> QED
  BY <1>1, <1>2, <1>3 DEF FeedInvariant

\* What the copies and the reads in flight know of each other, always.
THEOREM FeedInvariantHolds == FeedSpec => []FeedInvariant
<1>1. FeedInit => FeedInvariant
  BY InvariantInit
<1>2. FeedInvariant /\ [FeedNext]_feedVars => FeedInvariant'
  BY InvariantStep
<1> QED
  BY <1>1, <1>2, PTL DEF FeedSpec

\* The step that lands a read, none of whose calls failed, lands nothing older
\* than the market was when the read began.
LEMMA FreshStep ==
  ASSUME FeedInvariant, FeedNext, NEW r \in Reads,
         read[r].at # "idle", read'[r].at = "idle",
         mounted, ~read[r].lost, faults' = faults, shown'.data # NoView
  PROVE  shown'.data.version >= read[r].began
<1> DEFINE now == read[r]
<1>1. /\ FeedTypeOK /\ CopiesAreKnown /\ ReadIsCurrent(r)
      /\ now \in ReadRecord /\ read \in [Reads -> ReadRecord]
  BY DEF FeedInvariant, FeedTypeOK
<1>2. /\ version \in Nat /\ snapshot \in Nat /\ clone \in Nat /\ now.began \in Nat
      /\ faults \in Nat
  BY <1>1, FeedAssumption DEF FeedTypeOK, ReadRecord
<1>3. ReadStep(r)
  <2>1. read'[r] # read[r]
    OBVIOUS
  <2>2. ASSUME NEW s \in Reads \ {r}, PushBegins(s) \/ ReadStep(s)
        PROVE  read'[r] = read[r]
    BY <1>1, <2>2 DEF PushBegins, Begins, ReadStep, Owner, Base, Er, Last, RowsOn, Union, Goes, Lands
  <2>3. ASSUME NEW s \in Reads, Begins(s)
        PROVE  FALSE
    <3>1. s = r
      BY <1>1, <2>1, <2>3 DEF Begins
    <3>2. read'[r].at \in {"owner", "rows"}
      BY <1>1, <2>3, <3>1 DEF Begins, Idle
    <3> QED
      BY <3>2
  <2>4. CASE World \/ Unmounts
    BY <2>1, <2>4 DEF World, Unmounts
  <2>5. CASE PollBegins
    BY <2>3, <2>5, FeedAssumption DEF PollBegins
  <2>6. ASSUME NEW s \in Reads, PushBegins(s)
        PROVE  FALSE
    BY <2>3, <2>6 DEF PushBegins
  <2>7. ASSUME NEW s \in Reads, ReadStep(s)
        PROVE  ReadStep(r)
    <3>1. s = r
      BY <2>1, <2>2, <2>7
    <3> QED
      BY <2>7, <3>1
  <2> QED
    BY <2>4, <2>5, <2>6, <2>7 DEF FeedNext
<1>4. ~Fails
  BY <1>2 DEF Fails
<1>5. ASSUME NEW view, NEW threw, Lands(r, view, threw)
      PROVE  ~threw => shown'.data = view
  BY <1>5 DEF Lands
<1>6. ASSUME NEW record, Goes(r, record)
      PROVE  record.at = "idle"
  BY <1>1, <1>6 DEF Goes
<1>7. CASE Owner(r)
  <2>1. [now EXCEPT !.at = IF Homed THEN "base" ELSE "er", !.onBase = TRUE].at # "idle"
    BY <1>1 DEF ReadRecord
  <2> QED
    BY <1>4, <1>6, <1>7, <2>1 DEF Owner
<1>8. CASE Base(r)
  <2>1. shown'.data = BaseView("base")
    BY <1>4, <1>5, <1>8 DEF Base
  <2>2. snapshot >= now.began
    BY <1>1, <1>8 DEF Base, ReadIsCurrent
  <2> QED
    BY <2>1, <2>2 DEF BaseView
<1>9. CASE Er(r)
  <2>1. [now EXCEPT !.at = "last"].at # "idle"
    BY <1>1 DEF ReadRecord
  <2>2. clone # 0 /\ shown'.data = ErView
    BY <1>4, <1>5, <1>6, <1>9, <2>1 DEF Er
  <2> QED
    BY <1>1, <1>9, <2>2 DEF Er, ErView, ReadIsCurrent
<1>10. CASE Last(r)
  <2>1. shown'.data = BaseView("er")
    BY <1>4, <1>5, <1>10 DEF Last
  <2> QED
    BY <1>1, <1>10, <2>1 DEF Last, BaseView, ReadIsCurrent
<1>11. CASE RowsOn(r, "er") \/ RowsOn(r, "base")
  <2>1. \A got : /\ [now EXCEPT !.er = got, !.lost = @ \/ got = Null].at = now.at
                 /\ [now EXCEPT !.base = got, !.lost = @ \/ got = Null].at = now.at
    BY <1>1 DEF ReadRecord
  <2> QED
    BY <1>6, <1>11, <2>1 DEF RowsOn
<1>12. CASE Union(r)
  <2>1. [now EXCEPT !.at = "owner"].at # "idle"
    BY <1>1 DEF ReadRecord
  <2>2. now.at = "rows" /\ now.base # Unread /\ now.base # Null
    BY <1>1, <1>12 DEF Union, ReadIsCurrent
  <2>3. shown'.data = BaseWins(now.er, now.base)
    BY <1>5, <1>6, <1>12, <2>1, <2>2 DEF Union
  <2>4. CASE now.base.layer = "base"
    BY <1>1, <2>2, <2>3, <2>4 DEF BaseWins, ReadIsCurrent
  <2>5. CASE now.base = NoView /\ now.base.layer # "base"
    <3>1. now.er.layer = "er" /\ shown'.data = now.er
      BY <2>3, <2>5 DEF BaseWins
    <3> QED
      BY <1>1, <2>2, <2>5, <3>1 DEF ReadIsCurrent
  <2> QED
    BY <1>1, <2>2, <2>4, <2>5 DEF ReadIsCurrent
<1> QED
  BY <1>3, <1>7, <1>8, <1>9, <1>10, <1>11, <1>12 DEF ReadStep

\* Neither the copy that Solana keeps of a delegated market nor the one that the
\* rollup keeps of a market that went home is ever taken for the live one by a
\* read whose calls are all answered, however many reads overlap.
THEOREM ReadsStayFresh == FeedSpec => ReadsAreFresh
<1>1. FeedInvariant /\ [FeedNext]_feedVars =>
        [\A r \in Reads :
           /\ read[r].at # "idle" /\ read'[r].at = "idle"
           /\ mounted /\ ~read[r].lost /\ faults' = faults /\ shown'.data # NoView
           => shown'.data.version >= read[r].began]_feedVars
  BY FreshStep
<1> QED
  BY <1>1, FeedInvariantHolds, PTL DEF FeedSpec, ReadsAreFresh

----------------------------------------------------------------------------
(* Where a market has lived: module History.                               *)

\* What readLayer holds of a layer.
LayerReading ==
  [at : {"first", "list", "fetch", "done"}, known : BOOLEAN,
   kind : {"none", "error", "pruned", "read"}, left : Seq(Nat),
   steps : Seq([n : Nat, trade : BOOLEAN]), written : Nat, gone : Nat, blind : BOOLEAN]

\* What is left to look at and what has been looked at are the newest transactions there
\* were, one after the other, all that were kept or as many as were asked for.
TellsRows(left, steps, written, passed, blind, ledger) ==
  LET before == written - Len(left) - Len(steps) IN
  /\ written <= Len(ledger) /\ before >= 0
  /\ \A i \in 1..Len(left) : left[i] = written - Len(left) + i
  /\ \A i \in 1..Len(steps) :
       /\ steps[i].n = before + i
       /\ steps[i].trade => ledger[before + i]
       /\ ~steps[i].trade /\ ledger[before + i] => blind
  /\ before > 0 => passed > 0 \/ Len(left) + Len(steps) = Limit

\* What each stage of a reading has, and that nothing is read of nothing.
TellsStage(r) ==
  /\ r.at \in {"first", "list"} => r.kind = "none" /\ r.left = <<>> /\ Len(r.steps) = 0
  /\ r.at = "fetch" => r.kind = "none" /\ r.left # <<>>
  /\ r.kind = "read" => r.at = "done" /\ r.left = <<>> /\ (r.known => Len(r.steps) > 0)

Tells(r, ledger) ==
  TellsRows(r.left, r.steps, r.written, r.gone, r.blind, ledger) /\ TellsStage(r)

HistoryInvariant ==
  /\ trades \in [Layers -> Seq(BOOLEAN)]
  /\ gone \in [Layers -> Nat] /\ \A l \in Layers : gone[l] <= Len(trades[l])
  /\ reading \in [Layers -> LayerReading]
  /\ \A l \in Layers : Tells(reading[l], trades[l])

\* A ledger that grows is told no less.
LEMMA LongerLedger ==
  ASSUME NEW ledger \in Seq(BOOLEAN), NEW trade \in BOOLEAN,
         NEW left \in Seq(Nat), NEW steps \in Seq([n : Nat, trade : BOOLEAN]),
         NEW written \in Nat, NEW passed, NEW blind,
         TellsRows(left, steps, written, passed, blind, ledger)
  PROVE  TellsRows(left, steps, written, passed, blind, Append(ledger, trade))
<1> DEFINE before == written - Len(left) - Len(steps)
<1>1. /\ Len(Append(ledger, trade)) = Len(ledger) + 1
      /\ \A n \in 1..Len(ledger) : Append(ledger, trade)[n] = ledger[n]
      /\ Len(ledger) \in Nat /\ Len(left) \in Nat /\ Len(steps) \in Nat
  OBVIOUS
<1>2. written <= Len(ledger) /\ before >= 0 /\ before \in Int
  BY <1>1 DEF TellsRows
<1>3. ASSUME NEW i \in 1..Len(steps)
      PROVE  Append(ledger, trade)[before + i] = ledger[before + i]
  <2>1. before + i \in 1..Len(ledger)
    BY <1>1, <1>2
  <2> QED
    BY <1>1, <2>1
<1>4. written <= Len(Append(ledger, trade))
  BY <1>1, <1>2
<1> QED
  BY <1>2, <1>3, <1>4 DEF TellsRows

\* The list of signatures is the newest that are kept, up to the limit.
LEMMA NewestTell ==
  ASSUME NEW ledger \in Seq(BOOLEAN), NEW passed \in Nat, passed <= Len(ledger),
         NEW newest, newest = IF Len(ledger) - passed > Limit THEN Len(ledger) - Limit ELSE passed,
         NEW list, list = [n \in 1..(Len(ledger) - newest) |-> newest + n], NEW blind,
         NEW steps \in Seq([n : Nat, trade : BOOLEAN]), Len(steps) = 0
  PROVE  /\ list \in Seq(Nat) /\ TellsRows(list, steps, Len(ledger), passed, blind, ledger)
<1>1. Len(ledger) \in Nat /\ Limit \in Nat /\ Limit > 0
  BY HistoryAssumption
<1>2. /\ newest \in Nat /\ newest <= Len(ledger)
      /\ newest > 0 => passed > 0 \/ Len(ledger) - newest = Limit
  BY <1>1
<1>3. Len(ledger) - newest \in Nat
  BY <1>1, <1>2
<1>4. \A n \in 1..(Len(ledger) - newest) : newest + n \in Nat
  BY <1>2
<1>5. /\ list \in Seq(Nat) /\ Len(list) = Len(ledger) - newest
      /\ \A i \in 1..Len(list) : list[i] = newest + i
  BY <1>3, <1>4
<1>6. /\ Len(ledger) - Len(list) - Len(steps) = newest /\ Len(ledger) - Len(list) = newest
      /\ Len(list) + Len(steps) = Len(ledger) - newest
      /\ Len(ledger) - Len(list) - Len(steps) >= 0 /\ Len(ledger) <= Len(ledger)
  <2> DEFINE size == Len(list)
             whole == Len(ledger)
  <2>1. size = whole - newest /\ whole \in Nat /\ newest \in Nat /\ newest <= whole
    BY <1>1, <1>2, <1>5
  <2> HIDE DEF size, whole
  <2>2. /\ whole - size - 0 = newest /\ whole - size = newest /\ size + 0 = whole - newest
        /\ whole - size - 0 >= 0 /\ whole <= whole
    BY <2>1
  <2> QED
    BY <2>2 DEF size, whole
<1>7. \A i \in 1..Len(list) : list[i] = Len(ledger) - Len(list) + i
  BY <1>5, <1>6
<1>8. Len(ledger) - Len(list) - Len(steps) > 0 => passed > 0 \/ Len(list) + Len(steps) = Limit
  BY <1>2, <1>6
<1>9. \A i \in 1..Len(steps) :
         /\ steps[i].n = Len(ledger) - Len(list) - Len(steps) + i
         /\ steps[i].trade => ledger[Len(ledger) - Len(list) - Len(steps) + i]
         /\ ~steps[i].trade /\ ledger[Len(ledger) - Len(list) - Len(steps) + i] => blind
  OBVIOUS
<1>10. TellsRows(list, steps, Len(ledger), passed, blind, ledger)
  BY <1>6, <1>7, <1>8, <1>9, Zenon DEF TellsRows
<1> QED
  BY <1>5, <1>10

\* The next transaction of the list becomes a row, with its name if it is still kept.
LEMMA RowTells ==
  ASSUME NEW ledger \in Seq(BOOLEAN), NEW left \in Seq(Nat), left # <<>>,
         NEW steps \in Seq([n : Nat, trade : BOOLEAN]), NEW written \in Nat, NEW passed,
         NEW blind \in BOOLEAN, NEW kept \in BOOLEAN,
         TellsRows(left, steps, written, passed, blind, ledger),
         NEW row, row = [n |-> Head(left), trade |-> kept /\ ledger[Head(left)]],
         NEW unseen, unseen = (blind \/ ~kept)
  PROVE  /\ Tail(left) \in Seq(Nat)
         /\ Append(steps, row) \in Seq([n : Nat, trade : BOOLEAN]) /\ Len(Append(steps, row)) > 0
         /\ TellsRows(Tail(left), Append(steps, row), written, passed, unseen, ledger)
<1> DEFINE before == written - Len(left) - Len(steps)
           n == Head(left)
           more == Append(steps, row)
<1>1. /\ Tail(left) \in Seq(Nat) /\ Len(Tail(left)) = Len(left) - 1 /\ Len(left) \in Nat
      /\ Len(left) >= 1 /\ n = left[1] /\ Len(steps) \in Nat /\ Len(ledger) \in Nat
      /\ \A i \in 1..(Len(left) - 1) : Tail(left)[i] = left[i + 1]
  OBVIOUS
<1>2. /\ written <= Len(ledger) /\ before >= 0 /\ before \in Int
      /\ \A i \in 1..Len(left) : left[i] = written - Len(left) + i
      /\ \A i \in 1..Len(steps) : /\ steps[i].n = before + i
                                  /\ steps[i].trade => ledger[before + i]
                                  /\ ~steps[i].trade /\ ledger[before + i] => blind
      /\ before > 0 => passed > 0 \/ Len(left) + Len(steps) = Limit
  BY <1>1 DEF TellsRows
<1>3. n = before + Len(steps) + 1 /\ n \in 1..Len(ledger)
  <2>1. 1 \in 1..Len(left)
    BY <1>1
  <2>2. n = written - Len(left) + 1
    BY <1>1, <1>2, <2>1
  <2> QED
    BY <1>1, <1>2, <2>2
<1>4. ledger[n] \in BOOLEAN /\ n \in Nat
  BY <1>3
<1> HIDE DEF n
<1>5. /\ row \in [n : Nat, trade : BOOLEAN] /\ row.n = n /\ row.trade = (kept /\ ledger[n])
  BY <1>4 DEF n
<1>6. /\ more \in Seq([n : Nat, trade : BOOLEAN]) /\ Len(more) = Len(steps) + 1
      /\ more[Len(steps) + 1] = row /\ \A i \in 1..Len(steps) : more[i] = steps[i]
      /\ Len(more) > 0
  <2> DEFINE Row == [n : Nat, trade : BOOLEAN]
  <2>1. steps \in Seq(Row) /\ row \in Row
    BY <1>5
  <2> HIDE DEF Row
  <2>2. more \in Seq(Row) /\ Len(more) = Len(steps) + 1
    BY <2>1
  <2>3. more[Len(steps) + 1] = row /\ \A i \in 1..Len(steps) : more[i] = steps[i]
    BY <2>1
  <2>4. Len(more) > 0
    BY <1>1, <2>2
  <2> QED
    BY <2>2, <2>3, <2>4 DEF Row
<1> HIDE DEF more
<1>7. /\ written - Len(Tail(left)) - Len(more) = before
      /\ Len(Tail(left)) + Len(more) = Len(left) + Len(steps)
  BY <1>1, <1>6
<1>8. \A i \in 1..Len(Tail(left)) : Tail(left)[i] = written - Len(Tail(left)) + i
  <2> SUFFICES ASSUME NEW i \in 1..(Len(left) - 1)
               PROVE  Tail(left)[i] = written - (Len(left) - 1) + i
    BY <1>1
  <2>1. i + 1 \in 1..Len(left) /\ i \in Nat
    BY <1>1
  <2>2. left[i + 1] = written - Len(left) + (i + 1)
    BY <1>2, <2>1
  <2> QED
    BY <1>1, <2>1, <2>2
<1>9. ASSUME NEW i \in 1..Len(more)
      PROVE  /\ more[i].n = before + i
             /\ more[i].trade => ledger[before + i]
             /\ ~more[i].trade /\ ledger[before + i] => unseen
  <2>1. CASE i = Len(steps) + 1
    <3>1. before + i = n
      BY <1>1, <1>2, <1>3, <2>1
    <3>2. more[i].n = n /\ more[i].trade = (kept /\ ledger[n])
      BY <1>5, <1>6, <2>1
    <3> HIDE DEF before
    <3> QED
      BY <1>4, <3>1, <3>2
  <2>2. CASE i # Len(steps) + 1
    <3>1. i \in 1..Len(steps)
      BY <1>1, <1>6, <2>2
    <3>2. more[i] = steps[i]
      BY <1>6, <3>1
    <3> HIDE DEF before
    <3> QED
      BY <1>2, <3>1, <3>2
  <2> QED
    BY <2>1, <2>2
<1>10. before > 0 => passed > 0 \/ Len(Tail(left)) + Len(more) = Limit
  BY <1>2, <1>7
<1>11. TellsRows(Tail(left), more, written, passed, unseen, ledger)
  BY <1>2, <1>7, <1>8, <1>9, <1>10 DEF TellsRows
<1> QED
  BY <1>1, <1>6, <1>11 DEF more

\* A layer that has not been asked has told nothing.
LEMMA UnaskedTells ==
  ASSUME NEW ledger \in Seq(BOOLEAN)
  PROVE  Unasked \in LayerReading /\ Tells(Unasked, ledger)
<1>1. Unasked \in LayerReading /\ TellsStage(Unasked)
  BY DEF Unasked, LayerReading, TellsStage
<1>2. Len(ledger) \in Nat /\ Len(<<>>) = 0
  OBVIOUS
<1>3. TellsRows(<<>>, <<>>, 0, 0, FALSE, ledger)
  BY <1>2 DEF TellsRows
<1> QED
  BY <1>1, <1>3 DEF Tells, Unasked

\* What the call for the first block comes to, answered or not.
LEMMA FirstTells ==
  ASSUME NEW ledger \in Seq(BOOLEAN), NEW r \in LayerReading, Tells(r, ledger),
         r.at = "first", NEW known \in BOOLEAN
  PROVE  /\ [r EXCEPT !.at = "list", !.known = known] \in LayerReading
         /\ Tells([r EXCEPT !.at = "list", !.known = known], ledger)
<1> DEFINE next == [r EXCEPT !.at = "list", !.known = known]
<1>1. next \in LayerReading
  BY DEF LayerReading
<1>2. /\ next.at = "list" /\ next.kind = r.kind /\ next.left = r.left /\ next.steps = r.steps
      /\ next.written = r.written /\ next.gone = r.gone /\ next.blind = r.blind
  BY DEF LayerReading
<1> HIDE DEF next
<1>3. TellsStage(next)
  BY <1>2 DEF Tells, TellsStage
<1>4. Tells(next, ledger)
  BY <1>2, <1>3 DEF Tells
<1> QED
  BY <1>1, <1>4 DEF next

\* A call that fails ends the reading.
LEMMA BrokenTells ==
  ASSUME NEW ledger \in Seq(BOOLEAN), NEW r \in LayerReading, Tells(r, ledger)
  PROVE  /\ [r EXCEPT !.at = "done", !.kind = "error"] \in LayerReading
         /\ Tells([r EXCEPT !.at = "done", !.kind = "error"], ledger)
<1> DEFINE next == [r EXCEPT !.at = "done", !.kind = "error"]
<1>1. next \in LayerReading
  BY DEF LayerReading
<1>2. /\ next.at = "done" /\ next.kind = "error" /\ next.left = r.left /\ next.steps = r.steps
      /\ next.written = r.written /\ next.gone = r.gone /\ next.blind = r.blind
  BY DEF LayerReading
<1> HIDE DEF next
<1>3. TellsStage(next)
  BY <1>2 DEF Tells, TellsStage
<1>4. Tells(next, ledger)
  BY <1>2, <1>3 DEF Tells
<1> QED
  BY <1>1, <1>4 DEF next

\* The call for the signatures.
LEMMA ListedTells ==
  ASSUME HistoryInvariant, NEW l \in Layers, reading[l].at = "list",
         NEW list, list = [reading[l] EXCEPT !.left = Listed(l), !.written = Written(l),
                                             !.gone = gone[l]],
         NEW next, next = IF Listed(l) = <<>>
                          THEN [list EXCEPT !.at = "done", !.kind = EmptyIs(reading[l].known)]
                          ELSE [list EXCEPT !.at = "fetch"]
  PROVE  next \in LayerReading /\ Tells(next, trades[l])
<1> DEFINE r == reading[l]
<1>1. /\ r \in LayerReading /\ TellsStage(r) /\ trades[l] \in Seq(BOOLEAN)
      /\ gone[l] \in Nat /\ gone[l] <= Len(trades[l]) /\ Written(l) = Len(trades[l])
      /\ Len(trades[l]) \in Nat /\ r.steps \in Seq([n : Nat, trade : BOOLEAN])
  BY DEF HistoryInvariant, Written, Tells, LayerReading
<1>2. r.kind = "none" /\ Len(r.steps) = 0
  BY <1>1 DEF TellsStage
<1>3. /\ Listed(l) \in Seq(Nat)
      /\ TellsRows(Listed(l), r.steps, Written(l), gone[l], r.blind, trades[l])
  BY <1>1, <1>2, NewestTell DEF Listed
<1>4. EmptyIs(r.known) \in {"pruned", "read"} /\ (EmptyIs(r.known) = "read" => ~r.known)
  BY DEF EmptyIs
<1>5. /\ list \in LayerReading /\ list.left = Listed(l) /\ list.written = Written(l)
      /\ list.gone = gone[l] /\ list.steps = r.steps /\ list.kind = "none" /\ list.known = r.known
      /\ list.blind = r.blind
  BY <1>1, <1>3, <1>2 DEF LayerReading
<1>6. /\ next \in LayerReading /\ next.left = Listed(l) /\ next.written = Written(l)
      /\ next.gone = gone[l] /\ next.steps = r.steps /\ next.known = r.known /\ next.blind = r.blind
      /\ \/ next.at = "fetch" /\ next.kind = "none" /\ next.left # <<>>
         \/ next.at = "done" /\ next.left = <<>> /\ next.kind = EmptyIs(r.known)
  <2>1. CASE Listed(l) = <<>>
    BY <1>4, <1>5, <2>1 DEF LayerReading
  <2>2. CASE Listed(l) # <<>>
    BY <1>5, <2>2 DEF LayerReading
  <2> QED
    BY <2>1, <2>2
<1>7. TellsStage(next)
  BY <1>4, <1>6 DEF TellsStage
<1> QED
  BY <1>3, <1>6, <1>7 DEF Tells

\* The call for a transaction.
LEMMA FetchedTells ==
  ASSUME HistoryInvariant, NEW l \in Layers, reading[l].at = "fetch", NEW kept \in BOOLEAN,
         NEW row, row = [n |-> Head(reading[l].left),
                         trade |-> kept /\ trades[l][Head(reading[l].left)]],
         NEW more, more = [reading[l] EXCEPT !.left = Tail(reading[l].left),
                             !.blind = reading[l].blind \/ ~kept,
                             !.steps = Append(reading[l].steps, row)],
         NEW next, next = IF more.left = <<>> THEN [more EXCEPT !.at = "done", !.kind = "read"]
                          ELSE more
  PROVE  next \in LayerReading /\ Tells(next, trades[l])
<1> DEFINE r == reading[l]
           steps == Append(r.steps, row)
           blind == r.blind \/ ~kept
<1>1. /\ r \in LayerReading /\ TellsStage(r) /\ trades[l] \in Seq(BOOLEAN)
      /\ TellsRows(r.left, r.steps, r.written, r.gone, r.blind, trades[l])
      /\ r.left \in Seq(Nat) /\ r.steps \in Seq([n : Nat, trade : BOOLEAN])
      /\ r.written \in Nat /\ r.blind \in BOOLEAN
  BY DEF HistoryInvariant, LayerReading, Tells
<1>2. r.left # <<>> /\ r.kind = "none"
  BY <1>1 DEF TellsStage
<1>3. blind \in BOOLEAN /\ blind = (r.blind \/ ~kept)
  OBVIOUS
<1>4. more = [r EXCEPT !.left = Tail(r.left), !.blind = blind, !.steps = steps]
  OBVIOUS
<1> HIDE DEF blind
<1>5. row = [n |-> Head(r.left), trade |-> kept /\ trades[l][Head(r.left)]]
  OBVIOUS
<1>6. Tail(r.left) \in Seq(Nat)
  BY <1>1, <1>2, <1>3, <1>5, RowTells
<1>7. steps \in Seq([n : Nat, trade : BOOLEAN]) /\ Len(steps) > 0
  BY <1>1, <1>2, <1>3, <1>5, RowTells
<1>8. TellsRows(Tail(r.left), steps, r.written, r.gone, blind, trades[l])
  BY <1>1, <1>2, <1>3, <1>5, RowTells
<1>9. /\ Tail(r.left) \in Seq(Nat) /\ steps \in Seq([n : Nat, trade : BOOLEAN]) /\ Len(steps) > 0
      /\ TellsRows(Tail(r.left), steps, r.written, r.gone, blind, trades[l])
  BY <1>6, <1>7, <1>8
<1> HIDE DEF steps
<1>10. /\ more \in LayerReading /\ more.left = Tail(r.left) /\ more.blind = blind
      /\ more.steps = steps /\ more.written = r.written /\ more.gone = r.gone
      /\ more.at = "fetch" /\ more.kind = "none"
  BY <1>1, <1>2, <1>9, <1>3, <1>4 DEF LayerReading
<1>11. /\ next \in LayerReading /\ next.left = Tail(r.left) /\ next.blind = blind
      /\ next.steps = steps /\ next.written = r.written /\ next.gone = r.gone
      /\ \/ next.at = "fetch" /\ next.kind = "none" /\ next.left # <<>>
         \/ next.at = "done" /\ next.kind = "read" /\ next.left = <<>>
  <2>1. CASE more.left = <<>>
    <3>1. next = [more EXCEPT !.at = "done", !.kind = "read"]
      BY <2>1
    <3> QED
      BY <1>10, <2>1, <3>1 DEF LayerReading
  <2>2. CASE more.left # <<>>
    BY <1>10, <2>2
  <2> QED
    BY <2>1, <2>2
<1>12. TellsStage(next)
  BY <1>9, <1>11 DEF TellsStage
<1> QED
  BY <1>9, <1>11, <1>12 DEF Tells

\* A step of one layer's reading is no other's.
LEMMA ReadingStep ==
  ASSUME HistoryInvariant, UNCHANGED <<trades, gone>>, NEW l \in Layers,
         NEW next \in LayerReading, Tells(next, trades[l]), reading' = [reading EXCEPT ![l] = next]
  PROVE  HistoryInvariant'
BY DEF HistoryInvariant

\* Every step.
LEMMA HistoryStep == HistoryInvariant /\ [HistoryNext]_historyVars => HistoryInvariant'
<1> SUFFICES ASSUME HistoryInvariant, [HistoryNext]_historyVars PROVE HistoryInvariant'
  OBVIOUS
<1>1. CASE UNCHANGED historyVars
  BY <1>1 DEF historyVars, HistoryInvariant
<1>2. CASE Shown
  BY <1>2 DEF Shown, HistoryInvariant
<1>3. CASE Rereads
  BY <1>3, UnaskedTells DEF Rereads, HistoryInvariant
<1>4. ASSUME NEW l \in Layers, Writes(l) PROVE HistoryInvariant'
  <2>1. PICK trade \in BOOLEAN : trades' = [trades EXCEPT ![l] = Append(@, trade)]
    BY <1>4 DEF Writes
  <2>2. /\ trades \in [Layers -> Seq(BOOLEAN)] /\ Append(trades[l], trade) \in Seq(BOOLEAN)
        /\ Len(Append(trades[l], trade)) = Len(trades[l]) + 1
        /\ Len(trades[l]) \in Nat
    BY DEF HistoryInvariant
  <2>3. Tells(reading[l], Append(trades[l], trade))
    BY <2>2, LongerLedger DEF HistoryInvariant, Tells, LayerReading
  <2>4. /\ trades' \in [Layers -> Seq(BOOLEAN)] /\ trades'[l] = Append(trades[l], trade)
        /\ \A k \in Layers \ {l} : trades'[k] = trades[k]
        /\ gone' = gone /\ reading' = reading
    BY <1>4, <2>1, <2>2 DEF Writes
  <2>5. \A k \in Layers : gone'[k] <= Len(trades'[k])
    <3>1. gone[l] \in Nat /\ gone[l] <= Len(trades[l])
      BY DEF HistoryInvariant
    <3>2. gone[l] <= Len(Append(trades[l], trade))
      BY <2>2, <3>1
    <3> QED
      BY <2>4, <3>2 DEF HistoryInvariant
  <2> QED
    BY <2>2, <2>4, <2>5, <2>3 DEF HistoryInvariant
<1>5. ASSUME NEW l \in Layers, Prunes(l) PROVE HistoryInvariant'
  BY <1>5 DEF Prunes, Written, HistoryInvariant
<1>6. ASSUME NEW l \in Layers, AsksFirst(l) PROVE HistoryInvariant'
  <2>1. /\ reading[l] \in LayerReading /\ Tells(reading[l], trades[l]) /\ reading[l].at = "first"
        /\ trades[l] \in Seq(BOOLEAN) /\ UNCHANGED <<trades, gone>>
    BY <1>6 DEF AsksFirst, Asks, HistoryInvariant
  <2>2. PICK known \in BOOLEAN :
          reading' = [reading EXCEPT ![l] = [reading[l] EXCEPT !.at = "list", !.known = known]]
    <3>1. CASE reading' = [reading EXCEPT ![l].at = "list", ![l].known = TRUE]
      BY <3>1
    <3>2. CASE reading' = [reading EXCEPT ![l].at = "list"]
      <4>1. [reading[l] EXCEPT !.at = "list"] = [reading[l] EXCEPT !.at = "list", !.known = reading[l].known]
        BY <2>1 DEF LayerReading
      <4> QED
        BY <2>1, <3>2, <4>1 DEF LayerReading
    <3> QED
      BY <1>6, <3>1, <3>2 DEF AsksFirst
  <2> QED
    BY <2>1, <2>2, FirstTells, ReadingStep
<1>7. ASSUME NEW l \in Layers, Breaks(l), UNCHANGED <<trades, gone>> PROVE HistoryInvariant'
  <2>1. reading[l] \in LayerReading /\ Tells(reading[l], trades[l]) /\ trades[l] \in Seq(BOOLEAN)
    BY DEF HistoryInvariant
  <2>2. reading' = [reading EXCEPT ![l] = [reading[l] EXCEPT !.at = "done", !.kind = "error"]]
    BY <1>7 DEF Breaks, Gives
  <2> QED
    BY <1>7, <2>1, <2>2, BrokenTells, ReadingStep
<1>8. ASSUME NEW l \in Layers, AsksList(l) PROVE HistoryInvariant'
  <2> DEFINE list == [reading[l] EXCEPT !.left = Listed(l), !.written = Written(l), !.gone = gone[l]]
             next == IF Listed(l) = <<>>
                     THEN [list EXCEPT !.at = "done", !.kind = EmptyIs(reading[l].known)]
                     ELSE [list EXCEPT !.at = "fetch"]
  <2>1. reading[l].at = "list" /\ UNCHANGED <<trades, gone>>
    BY <1>8 DEF AsksList, Asks
  <2>2. next \in LayerReading /\ Tells(next, trades[l])
    BY <2>1, ListedTells
  <2>3. reading' = [reading EXCEPT ![l] = next] \/ Breaks(l)
    BY <1>8 DEF AsksList
  <2> HIDE DEF next
  <2> QED
    BY <1>7, <2>1, <2>2, <2>3, ReadingStep
<1>9. ASSUME NEW l \in Layers, AsksTransaction(l) PROVE HistoryInvariant'
  <2> DEFINE n == Head(reading[l].left)
             kept == n > gone[l]
             row == [n |-> Head(reading[l].left), trade |-> kept /\ trades[l][Head(reading[l].left)]]
             more == [reading[l] EXCEPT !.left = Tail(reading[l].left), !.blind = reading[l].blind \/ ~kept,
                                        !.steps = Append(reading[l].steps, row)]
             next == IF more.left = <<>> THEN [more EXCEPT !.at = "done", !.kind = "read"] ELSE more
  <2>1. reading[l].at = "fetch" /\ UNCHANGED <<trades, gone>>
    BY <1>9 DEF AsksTransaction, Asks
  <2>2. reading' = [reading EXCEPT ![l] = next] \/ Breaks(l)
    BY <1>9 DEF AsksTransaction
  <2>3. kept \in BOOLEAN
    OBVIOUS
  <2> HIDE DEF kept
  <2>4. next \in LayerReading /\ Tells(next, trades[l])
    BY <2>1, <2>3, FetchedTells
  <2> HIDE DEF next
  <2> QED
    BY <1>7, <2>1, <2>2, <2>4, ReadingStep
<1> QED
  BY <1>1, <1>2, <1>3, <1>4, <1>5, <1>6, <1>8, <1>9 DEF HistoryNext

\* What a reading holds is what the ledger had, however far the ledger and the window
\* have moved on between its calls (lifecycle.ts:102-174).
THEOREM HistoryInvariantHolds == HistorySpec => []HistoryInvariant
<1>1. HistoryInit => HistoryInvariant
  <2>1. /\ <<>> \in Seq(BOOLEAN) /\ Len(<<>>) = 0 /\ 0 \in Nat
    OBVIOUS
  <2>2. Unasked \in LayerReading /\ Tells(Unasked, <<>>)
    BY <2>1, UnaskedTells
  <2> QED
    BY <2>1, <2>2 DEF HistoryInit, HistoryInvariant
<1>2. HistoryInvariant /\ [HistoryNext]_historyVars => HistoryInvariant'
  BY HistoryStep
<1> QED
  BY <1>1, <1>2, PTL DEF HistorySpec

\* The strip leaves out only what was gone, past the limit or unreadable, tells nothing
\* that did not happen, and makes no claim of a layer whose window has passed the market
\* (lifecycle.ts:14-24, 137-144, 155-158).
THEOREM TheStripIsHonest == HistorySpec => []AbsenceIsNotAValue
<1>1. HistoryInvariant => AbsenceIsNotAValue
  <2> SUFFICES ASSUME HistoryInvariant PROVE AbsenceIsNotAValue
    OBVIOUS
  <2>1. ASSUME NEW l \in Layers, IsRead(l)
        PROVE  /\ \A i \in DOMAIN reading[l].steps :
                    /\ reading[l].steps[i].n = reading[l].written - Len(reading[l].steps) + i
                    /\ reading[l].steps[i].trade => trades[l][reading[l].steps[i].n]
                    /\ ~reading[l].steps[i].trade /\ trades[l][reading[l].steps[i].n] => reading[l].blind
               /\ Count(l) < reading[l].written => reading[l].gone > 0 \/ Count(l) = Limit
               /\ reading[l].known => Count(l) # 0
    <3> DEFINE r == reading[l]
               before == r.written - Len(r.left) - Len(r.steps)
    <3>1. /\ TellsRows(r.left, r.steps, r.written, r.gone, r.blind, trades[l])
          /\ TellsStage(r) /\ r.kind = "read"
          /\ r.steps \in Seq([n : Nat, trade : BOOLEAN]) /\ r.written \in Nat
      BY <2>1 DEF HistoryInvariant, LayerReading, IsRead, Tells
    <3>2. r.left = <<>> /\ (r.known => Len(r.steps) > 0)
      BY <3>1 DEF TellsStage
    <3>3. /\ Len(r.left) = 0 /\ Len(r.steps) \in Nat /\ DOMAIN r.steps = 1..Len(r.steps)
          /\ before = r.written - Len(r.steps) /\ Count(l) = Len(r.steps)
      BY <2>1, <3>1, <3>2 DEF Count
    <3>4. \A i \in 1..Len(r.steps) : /\ r.steps[i].n = before + i
                                     /\ r.steps[i].trade => trades[l][before + i]
                                     /\ ~r.steps[i].trade /\ trades[l][before + i] => r.blind
      BY <3>1 DEF TellsRows
    <3>5. before > 0 => r.gone > 0 \/ Len(r.left) + Len(r.steps) = Limit
      BY <3>1 DEF TellsRows
    <3> HIDE DEF r
    <3>6. Count(l) < r.written => r.gone > 0 \/ Count(l) = Limit
      BY <3>1, <3>3, <3>5
    <3> QED
      BY <3>1, <3>2, <3>3, <3>4, <3>6 DEF r
  <2>2. ASSUME NEW l \in Layers, reading[l].known, Count(l) = 0
        PROVE  ~Compression.ratio /\ ~Compression.tradingNeverTouchedL1
    <3>1. ~IsRead(l)
      BY <2>1, <2>2
    <3>2. ~(IsRead("er") /\ IsRead("base"))
      BY <3>1 DEF Layers
    <3>3. Compression.ratio = (IsRead("er") /\ IsRead("base") /\ Count("base") # 0)
      BY DEF Compression
    <3>4. Compression.tradingNeverTouchedL1 =
            (IsRead("er") /\ IsRead("base") /\ Trades("base") = 0)
      BY DEF Compression
    <3> QED
      BY <3>2, <3>3, <3>4
  <2> QED
    BY <2>1, <2>2 DEF AbsenceIsNotAValue
<1> QED
  BY <1>1, HistoryInvariantHolds, PTL
=============================================================================
