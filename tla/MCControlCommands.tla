-------------------------- MODULE MCControlCommands --------------------------
(***************************************************************************)
(* ControlCommands for TLC.                                                *)
(***************************************************************************)
EXTENDS ControlCommands

\* risk goes on to the circuit breaker, the other two kinds are alike
MCKinds == {"risk", "execution"}
=============================================================================
