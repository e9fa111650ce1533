-------------------------------- MODULE Feed --------------------------------
(***************************************************************************)
(* What a page shows of a market that lives on two layers: the polled and  *)
(* the pushed reads of app/src/hooks/useMarkets.ts, over fetchMarket (one  *)
(* market's page) or fetchMarkets (the village) of app/src/lib/markets.ts. *)
(*                                                                         *)
(* The market is a version number and a place.  While it is delegated      *)
(* Solana keeps the copy it left with; once it is home the rollup may keep *)
(* a copy for a while.  A read is several calls, and the market moves and  *)
(* changes between any two of them.  Calls fail a bounded number of times. *)
(***************************************************************************)
EXTENDS Naturals, FiniteSets

CONSTANTS
  Reads,        \* reads that may be in flight at once, the poll's included
  Poll,         \* the one of them that is the poll's
  MaxVersion,   \* bound: versions of the market
  MaxFaults     \* bound: calls that fail

ASSUME FeedAssumption ==
  /\ Poll \in Reads
  /\ IsFiniteSet(Reads)
  /\ MaxVersion \in Nat \ {0} /\ MaxFaults \in Nat

VARIABLES
  place,        \* where the market is: "L1", "ER" or "returning"
  version,      \* how often it has changed
  snapshot,     \* the version of Solana's copy
  clone,        \* the version of the rollup's copy, 0 if it has none
  delegated,    \* it has been delegated
  page,         \* what this page loads: "market" or "village"
  others,       \* the village has other markets, one on each layer
  read,         \* the reads in flight
  shown,        \* data, loading and error of the feed
  pushed,       \* a change was pushed and its reload is due
  mounted,      \* the page is on screen
  faults

worldVars == <<place, version, snapshot, clone, delegated>>
pageVars == <<page, others, read, shown, pushed, mounted>>
feedVars == <<worldVars, pageVars, faults>>

\* Layer badges, and "none" for a market that is not shown.
View == [layer : {"none", "base", "er"}, version : 0..MaxVersion]
NoView == [layer |-> "none", version |-> 0]

\* `at` is the call a read is about to make; `er` and `base` what marketsOn
\* returned: "null" is an endpoint that did not answer.
Rows == View \cup {[layer |-> "null", version |-> 0], [layer |-> "unread", version |-> 0]}
Unread == [layer |-> "unread", version |-> 0]
Null == [layer |-> "null", version |-> 0]

Steps == {"idle", "rows", "owner", "base", "er", "last"}

ReadRecord ==
  [at : Steps, onBase : BOOLEAN, er : Rows, base : Rows, began : 0..MaxVersion, lost : BOOLEAN]

Idle == [at |-> "idle", onBase |-> FALSE, er |-> Unread, base |-> Unread, began |-> 0,
         lost |-> FALSE]

\* usePolled's initial state.
FeedInit ==
  /\ place = "L1" /\ version = 1 /\ snapshot = 1 /\ clone = 0 /\ delegated = FALSE
  /\ page \in {"market", "village"}
  /\ others \in BOOLEAN
  /\ read = [r \in Reads |-> Idle]
  /\ shown = [data |-> NoView, loading |-> TRUE, error |-> FALSE]
  /\ pushed = FALSE
  /\ mounted \in BOOLEAN
  /\ faults = 0

----------------------------------------------------------------------------
(* The market.                                                             *)

\* Any instruction that writes the market, where it can be written.
Change ==
  /\ version < MaxVersion
  /\ place # "returning"
  /\ version' = version + 1
  /\ IF place = "ER" THEN clone' = version + 1 /\ UNCHANGED snapshot
     ELSE snapshot' = version + 1 /\ UNCHANGED clone
  /\ UNCHANGED <<place, delegated>>

\* Clients delegate a market once, when they make it.  The rollup fetches its copy
\* when it is first asked, not here.
Delegate ==
  /\ place = "L1" /\ ~delegated
  /\ place' = "ER" /\ delegated' = TRUE
  /\ UNCHANGED <<version, snapshot, clone>>

Clones ==
  /\ place = "ER" /\ clone = 0
  /\ clone' = version
  /\ UNCHANGED <<place, version, snapshot, delegated>>

Undelegate ==
  /\ place = "ER" /\ clone # 0
  /\ place' = "returning"
  /\ UNCHANGED <<version, snapshot, clone, delegated>>

Returns ==
  /\ place = "returning"
  /\ place' = "L1" /\ snapshot' = version
  /\ UNCHANGED <<version, clone, delegated>>

\* A copy of a market that is home is dropped, sooner or later or never.
Evicts ==
  /\ place = "L1" /\ clone # 0
  /\ clone' = 0
  /\ UNCHANGED <<place, version, snapshot, delegated>>

\* What the rollup pushes: changes of its accounts.
Pushes == clone' # clone /\ clone' # 0

Subscribed == mounted /\ ~shown.error /\ ~shown.loading

\* useLive: a change arms the trailing timer, or re-arms it; a push may be lost.
World ==
  /\ Change \/ Delegate \/ Clones \/ Undelegate \/ Returns \/ Evicts
  /\ pushed' \in IF Pushes /\ Subscribed THEN {TRUE, pushed} ELSE {pushed}
  /\ UNCHANGED <<page, others, read, shown, mounted, faults>>

----------------------------------------------------------------------------
(* A read.  Each step is one call, answered or failed.                     *)

Begins(r) ==
  read' = [read EXCEPT ![r] = [Idle EXCEPT !.at = IF page = "market" THEN "owner" ELSE "rows",
                                           !.began = version]]

\* cycle: the next poll is set when the last is done; it waits longer after a
\* failure.  How long is not modelled.
PollBegins ==
  /\ mounted
  /\ read[Poll].at = "idle"
  /\ Begins(Poll)
  /\ UNCHANGED <<worldVars, page, others, shown, pushed, mounted, faults>>

\* 120 ms after the last of a burst of changes.  Nothing stops it from running
\* beside a poll or an earlier reload.
PushBegins(r) ==
  /\ pushed /\ Subscribed
  /\ r # Poll /\ read[r].at = "idle"
  /\ Begins(r)
  /\ pushed' = FALSE
  /\ UNCHANGED <<worldVars, page, others, shown, mounted, faults>>

Answers == UNCHANGED faults
Fails == faults < MaxFaults /\ faults' = faults + 1

Goes(r, record) ==
  /\ read' = [read EXCEPT ![r] = record]
  /\ UNCHANGED <<worldVars, page, others, shown, pushed, mounted>>

\* reload's end: nothing is set once the page is gone, and a load that threw
\* leaves the data alone.  An error ends the subscription and its timer.
Lands(r, view, threw) ==
  /\ read' = [read EXCEPT ![r] = Idle]
  /\ shown' = IF ~mounted THEN shown
              ELSE [data |-> IF threw THEN shown.data ELSE view, loading |-> FALSE, error |-> threw]
  /\ pushed' = (pushed /\ ~threw)
  /\ UNCHANGED <<worldVars, page, others, mounted>>

\* What each endpoint has of the market: Solana decodes a delegated market's
\* snapshot as happily as a market that is home.
BaseView(label) == [layer |-> label, version |-> snapshot]
ErView == [layer |-> "er", version |-> clone]

\* Mutant: the owner is not looked at.
HomedIfThere == TRUE

\* The account's owner on Solana is this program.
Homed == place = "L1"

Owner(r) ==
  /\ read[r].at = "owner"
  /\ \/ Answers /\ Goes(r, [read[r] EXCEPT !.at = IF Homed THEN "base" ELSE "er",
                                          !.onBase = TRUE])
     \/ Fails /\ Goes(r, [read[r] EXCEPT !.at = "er", !.lost = TRUE])

Base(r) ==
  /\ read[r].at = "base"
  /\ \/ Answers /\ Lands(r, BaseView("base"), FALSE)
     \/ Fails /\ Goes(r, [read[r] EXCEPT !.at = "er", !.lost = TRUE])

\* A market that the rollup does not have is an error like any other.
Er(r) ==
  /\ read[r].at = "er"
  /\ \/ clone # 0 /\ Answers /\ Lands(r, ErView, FALSE)
     \/ clone = 0 /\ Answers /\ IF read[r].onBase
                                THEN Goes(r, [read[r] EXCEPT !.at = "last"])
                                ELSE Lands(r, NoView, FALSE)
     \/ Fails /\ IF read[r].onBase
                 THEN Goes(r, [read[r] EXCEPT !.at = "last", !.lost = TRUE])
                 ELSE Lands(r, NoView, FALSE)

\* The last resort, labelled as delegated.
Last(r) ==
  /\ read[r].at = "last"
  /\ \/ Answers /\ Lands(r, BaseView("er"), FALSE)
     \/ Fails /\ Lands(r, NoView, FALSE)

\* marketsOn, once for each layer and in either order; on Solana the listing
\* finds only what this program owns.
RowsOn(r, layer) ==
  LET there == IF layer = "er" THEN clone # 0 ELSE place = "L1"
      rows  == IF ~there THEN NoView ELSE IF layer = "er" THEN ErView ELSE BaseView("base")
  IN  /\ read[r].at = "rows"
      /\ IF layer = "er" THEN read[r].er = Unread ELSE read[r].base = Unread
      /\ \E got \in {rows, Null} :
           /\ IF got = Null THEN Fails ELSE Answers
           /\ Goes(r, IF layer = "er"
                      THEN [read[r] EXCEPT !.er = got, !.lost = @ \/ got = Null]
                      ELSE [read[r] EXCEPT !.base = got, !.lost = @ \/ got = Null])

\* Mutant: the rollup's rows are put over Solana's.
ErWins(er, base) == IF er.layer = "er" THEN er ELSE IF base.layer = "base" THEN base ELSE NoView

\* The union; what Solana lists is home, and wins.
BaseWins(er, base) == IF base.layer = "base" THEN base ELSE IF er.layer = "er" THEN er ELSE NoView

\* fetchMarkets, when both have answered or failed.  An empty village falls back
\* on the markets this browser remembers, one fetchMarket each.
Union(r) ==
  LET view == BaseWins(read[r].er, read[r].base) IN
  /\ read[r].at = "rows"
  /\ read[r].er # Unread /\ read[r].base # Unread
  /\ UNCHANGED faults
  /\ IF read[r].er = Null /\ read[r].base = Null THEN Lands(r, NoView, TRUE)
     ELSE IF view = NoView /\ ~others THEN Goes(r, [read[r] EXCEPT !.at = "owner"])
     ELSE Lands(r, view, FALSE)

ReadStep(r) ==
  \/ Owner(r) \/ Base(r) \/ Er(r) \/ Last(r)
  \/ RowsOn(r, "er") \/ RowsOn(r, "base") \/ Union(r)

\* The page is left; what is in flight lands on nothing.
Unmounts ==
  /\ mounted
  /\ mounted' = FALSE /\ pushed' = FALSE
  /\ UNCHANGED <<worldVars, page, others, read, shown, faults>>

FeedNext ==
  \/ World
  \/ PollBegins
  \/ \E r \in Reads : PushBegins(r) \/ ReadStep(r)
  \/ Unmounts

\* The poll goes on and calls come back.  No fairness on pushes: a hosted RPC may
\* refuse subscriptions, and a burst of changes re-arms the timer each time.
FeedFairness ==
  /\ WF_feedVars(PollBegins)
  /\ \A r \in Reads : WF_feedVars(ReadStep(r))
  /\ WF_feedVars(World /\ (Clones \/ Returns))

FeedSpec == FeedInit /\ [][FeedNext]_feedVars /\ FeedFairness

----------------------------------------------------------------------------
(* Properties.                                                             *)

FeedTypeOK ==
  /\ place \in {"L1", "ER", "returning"}
  /\ version \in 1..MaxVersion /\ snapshot \in 1..MaxVersion /\ clone \in 0..MaxVersion
  /\ delegated \in BOOLEAN /\ faults \in 0..MaxFaults
  /\ page \in {"market", "village"} /\ others \in BOOLEAN
  /\ read \in [Reads -> ReadRecord]
  /\ shown \in [data : View, loading : BOOLEAN, error : BOOLEAN]
  /\ pushed \in BOOLEAN /\ mounted \in BOOLEAN

\* A read whose calls were all answered shows nothing older than the market was
\* when it began, wherever the market went between its calls: the copy that
\* Solana keeps of a delegated market, and the one the rollup keeps of a market
\* that went home, are never taken for the live one (markets.ts:128-139, 182-184).
ReadsAreFresh ==
  [][\A r \in Reads :
       /\ read[r].at # "idle" /\ read'[r].at = "idle"
       /\ mounted /\ ~read[r].lost /\ faults' = faults /\ shown'.data # NoView
       => shown'.data.version >= read[r].began]_feedVars

\* Whatever was pushed, lost, or landed out of order, a page left open comes to
\* show the market as it is, on the layer it is on, and goes on showing it once
\* the market rests: the slow poll repairs every overtaken or missing reload.
ShowsTheTruth ==
  <>[](~mounted \/ (/\ shown.data = [layer |-> IF place = "L1" THEN "base" ELSE "er",
                                     version |-> version]
                    /\ ~shown.error))
=============================================================================
