------------------------------ MODULE History ------------------------------
(***************************************************************************)
(* Where a market has lived: the strip on the market's page                *)
(* (app/src/components/Lifecycle.tsx) that tells the market's transactions *)
(* from what the two validators still keep of them, read call by call      *)
(* (app/src/lib/lifecycle.ts), while the market goes on and the windows    *)
(* move.                                                                   *)
(*                                                                         *)
(* A transaction is its place in the layer's ledger and whether it is a    *)
(* trade, which its logs say.                                              *)
(***************************************************************************)
EXTENDS Naturals, Sequences, FiniteSets

CONSTANTS
  Limit,         \* signatures asked for: 60 in the code
  MaxWrites,     \* bound: transactions of the market on each layer
  MaxSilences    \* bound: calls that fail

ASSUME HistoryAssumption == Limit \in Nat \ {0} /\ MaxWrites \in Nat /\ MaxSilences \in Nat

Layers == {"base", "er"}

VARIABLES
  trades,     \* each layer's transactions of the market: is it a trade?
  gone,       \* how many of them the layer no longer keeps
  reading,    \* readLayer under way on each layer, and what it returned
  strip,      \* what the page shows: "loading", "ready", or "hidden"
  silences

historyVars == <<trades, gone, reading, strip, silences>>

Written(l) == Len(trades[l])

\* The last three fields are history: what was there when the list was read.
Unasked == [at |-> "first", known |-> FALSE, kind |-> "none", left |-> <<>>, steps |-> <<>>,
           written |-> 0, gone |-> 0, blind |-> FALSE]

HistoryInit ==
  /\ trades = [l \in Layers |-> <<>>]
  /\ gone = [l \in Layers |-> 0]
  /\ reading = [l \in Layers |-> Unasked]
  /\ strip \in {"loading", "hidden"}
  /\ silences = 0

Answered == UNCHANGED silences
Silent == silences < MaxSilences /\ silences' = silences + 1

----------------------------------------------------------------------------
(* The validators.                                                         *)

Writes(l) ==
  /\ Written(l) < MaxWrites
  /\ \E trade \in BOOLEAN : trades' = [trades EXCEPT ![l] = Append(@, trade)]
  /\ UNCHANGED <<gone, reading, strip, silences>>

\* The window moves past a transaction of the market.
Prunes(l) ==
  /\ gone[l] < Written(l)
  /\ gone' = [gone EXCEPT ![l] = @ + 1]
  /\ UNCHANGED <<trades, reading, strip, silences>>

----------------------------------------------------------------------------
(* readLayer.                                                              *)

Asks(l, at) == strip = "loading" /\ reading[l].at = at /\ UNCHANGED <<trades, gone, strip>>

\* getFirstAvailableBlock; it may fail.
AsksFirst(l) ==
  /\ Asks(l, "first")
  /\ \/ Answered /\ reading' = [reading EXCEPT ![l].at = "list", ![l].known = TRUE]
     \/ Silent /\ reading' = [reading EXCEPT ![l].at = "list"]

Gives(l, kind) == reading' = [reading EXCEPT ![l].at = "done", ![l].kind = kind]
Breaks(l) == Silent /\ Gives(l, "error")

\* The newest signatures the layer keeps, oldest first.
Listed(l) ==
  LET newest == IF Written(l) - gone[l] > Limit THEN Written(l) - Limit ELSE gone[l]
  IN  [n \in 1..(Written(l) - newest) |-> newest + n]

\* Mutant: an empty list is a history.
EmptyIsRead(known) == "read"

\* No signatures: the window has passed, if one knows that there is a window.
EmptyIs(known) == IF known THEN "pruned" ELSE "read"

\* getSignaturesForAddress.
AsksList(l) ==
  LET r == reading[l]
      list == [r EXCEPT !.left = Listed(l), !.written = Written(l), !.gone = gone[l]]
  IN
  /\ Asks(l, "list")
  /\ \/ /\ Answered
        /\ reading' = [reading EXCEPT ![l] =
             IF Listed(l) = <<>> THEN [list EXCEPT !.at = "done", !.kind = EmptyIs(r.known)]
             ELSE [list EXCEPT !.at = "fetch"]]
     \/ Breaks(l)

\* getTransaction, one by one.  What has been pruned since has no logs and so no
\* name, but it is a row.
AsksTransaction(l) ==
  LET r == reading[l]
      n == Head(r.left)
      kept == n > gone[l]
      next == [r EXCEPT !.left = Tail(r.left), !.blind = @ \/ ~kept,
                        !.steps = Append(r.steps, [n |-> n, trade |-> kept /\ trades[l][n]])]
  IN
  /\ Asks(l, "fetch")
  /\ \/ /\ Answered
        /\ reading' = [reading EXCEPT ![l] =
             IF next.left = <<>> THEN [next EXCEPT !.at = "done", !.kind = "read"] ELSE next]
     \/ Breaks(l)

\* fetchLifecycle: when both layers have returned.
Shown ==
  /\ strip = "loading" /\ \A l \in Layers : reading[l].at = "done"
  /\ strip' = "ready"
  /\ UNCHANGED <<trades, gone, reading, silences>>

\* The button.
Rereads ==
  /\ strip = "ready"
  /\ strip' = "loading" /\ reading' = [l \in Layers |-> Unasked]
  /\ UNCHANGED <<trades, gone, silences>>

HistoryNext ==
  \/ Shown \/ Rereads
  \/ \E l \in Layers : Writes(l) \/ Prunes(l) \/ AsksFirst(l) \/ AsksList(l) \/ AsksTransaction(l)

HistorySpec == HistoryInit /\ [][HistoryNext]_historyVars

----------------------------------------------------------------------------
(* compressionOf.                                                          *)

IsRead(l) == reading[l].kind = "read"
Count(l) == IF IsRead(l) THEN Len(reading[l].steps) ELSE 0
Trades(l) == IF IsRead(l)
             THEN Cardinality({i \in DOMAIN reading[l].steps : reading[l].steps[i].trade}) ELSE 0

\* What is shown; `ratio` is whether there is one.
Compression ==
  [rollupWrites |-> Count("er"), baseWrites |-> Count("base"),
   rollupTrades |-> Trades("er"), baseTrades |-> Trades("base"),
   ratio |-> IsRead("er") /\ IsRead("base") /\ Count("base") # 0,
   tradingNeverTouchedL1 |-> IsRead("er") /\ IsRead("base") /\ Trades("base") = 0]

----------------------------------------------------------------------------
(* Properties.                                                             *)

\* What the strip says is less than what happened only for a reason, and is never
\* something that did not happen: its rows are the market's transactions, one
\* after the other; one is missing only if it was gone, or past the limit, when
\* the list was read, and a trade goes uncounted only if it was gone by the time
\* it was looked at; and a layer whose window has passed the whole market is not
\* counted as zero, unless it did not say that it has a window
\* (lifecycle.ts:14-24, 137-144, 155-158).
AbsenceIsNotAValue ==
  strip = "ready" =>
    /\ \A l \in Layers :
         LET r == reading[l] IN
         IsRead(l) =>
           /\ \A i \in DOMAIN r.steps :
                /\ r.steps[i].n = r.written - Len(r.steps) + i
                /\ r.steps[i].trade => trades[l][r.steps[i].n]
                /\ ~r.steps[i].trade /\ trades[l][r.steps[i].n] => r.blind
           /\ Count(l) < r.written => r.gone > 0 \/ Count(l) = Limit
    /\ \A l \in Layers :
         reading[l].known /\ Count(l) = 0 =>
           ~Compression.ratio /\ ~Compression.tradingNeverTouchedL1
=============================================================================
