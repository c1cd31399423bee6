-------------------------- MODULE MCOrderExecution --------------------------
(***************************************************************************)
(* OrderExecution for TLC.                                                 *)
(***************************************************************************)
EXTENDS OrderExecution

\* at the lower one two lots are too small an order, at the higher one a lot will do
MCPrices == {1, 3}
=============================================================================
