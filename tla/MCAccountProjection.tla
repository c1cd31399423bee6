------------------------- MODULE MCAccountProjection -------------------------
(***************************************************************************)
(* AccountProjection for TLC: one position and one order.                  *)
(***************************************************************************)
EXTENDS AccountProjection

CONSTANTS p, o   \* the entities

MCPositions == {p}
MCOrders    == {o}
=============================================================================
