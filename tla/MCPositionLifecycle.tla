------------------------ MODULE MCPositionLifecycle ------------------------
(***************************************************************************)
(* PositionLifecycle for TLC: the faults of the two runs.                  *)
(***************************************************************************)
EXTENDS PositionLifecycle

\* what can fail in the steps that book a sale or reset an exit
BookFaults    == {"cancel", "partial"}
\* what can keep a position from being seen, stopped, targeted or closed
ProtectFaults == {"fetch", "place", "cancel", "reject", "lost", "orphan"}
=============================================================================
