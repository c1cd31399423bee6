---------------------------- MODULE MCFillLedger ----------------------------
(***************************************************************************)
(* FillLedger for TLC: the fills that the user trades by hand.             *)
(***************************************************************************)
EXTENDS FillLedger

\* Enough to open, to add, to close and to reverse.
ManualFills == {[side |-> "buy", qty |-> 1], [side |-> "sell", qty |-> 2]}
=============================================================================
