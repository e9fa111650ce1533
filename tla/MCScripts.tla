----------------------------- MODULE MCScripts -----------------------------
(***************************************************************************)
(* Scripts on a small instance: every script, alone and beside the keeper. *)
(***************************************************************************)
EXTENDS Scripts

CONSTANTS b1, b2

TwoVillagers == <<b1, b2>>

\* A ransom that one seal bid meets.
OneRansom == {[floor |-> 1, slope |-> 0]}
============================================================================
