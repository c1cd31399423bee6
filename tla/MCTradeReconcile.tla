-------------------------- MODULE MCTradeReconcile --------------------------
(***************************************************************************)
(* TradeReconcile and its cycles for TLC, and a statement of the           *)
(* documentation that the code does not keep (reconcile_two_tasks).        *)
(***************************************************************************)
EXTENDS TradeCycles, FiniteSets

\* Flat, short or long, by one or two lots.
MCPositions == -2..2

MCKinds == {[owner |-> "engine", reduce |-> TRUE],
            [owner |-> "external", reduce |-> FALSE]}

\* docs/ops/2026-06-23-async-binance-reconcile.md:44: "only one active task" is
\* allowed at a time, which the unique active_slot guarantees; active are, as
\* for create_or_reuse_reconcile_task, the tasks queued or running.
OneActiveTask == Cardinality(ActiveTasks) <= 1
=============================================================================
