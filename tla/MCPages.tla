------------------------------ MODULE MCPages ------------------------------
(***************************************************************************)
(* The pages on a small instance: a feed of one market (Feed), or a key    *)
(* and its readouts (Wallet).  The two share nothing, so that a behaviour  *)
(* has one of them on screen.                                              *)
(***************************************************************************)
EXTENDS Feed, Wallet

\* One thing less on the market's page, where there is more to show.
TurnsOn == [market |-> 1, other |-> 2]

\* What is not on screen does not matter.
PagesInit ==
  /\ FeedInit /\ WalletInit
  /\ mounted <=> ~Open
  /\ ~mounted => page = "market" /\ ~others
  /\ mounted => lamports = [k \in Keys |-> "low"]

PagesNext ==
  \/ FeedNext /\ ~Open /\ UNCHANGED walletVars
  \/ WalletNext /\ UNCHANGED feedVars

PagesSpec ==
  /\ PagesInit
  /\ [][PagesNext]_<<feedVars, walletVars>>
  /\ FeedFairness /\ WalletFairness
=============================================================================
