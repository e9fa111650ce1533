------------------------------ MODULE MCCrank -------------------------------
(***************************************************************************)
(* Crank on a small instance.                                              *)
(***************************************************************************)
EXTENDS Crank

\* A ransom that one seal bid meets.
OneRansom == {[floor |-> 1, slope |-> 0]}
=============================================================================
