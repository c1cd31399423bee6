---------------------------- MODULE OrderContract ----------------------------
(***************************************************************************)
(* What a call of Executor.open_position or close_position promises its    *)
(* caller, whatever route it takes (post-only attempts, re-quotes, a       *)
(* market fallback, retries): the exchange trades on the orders the call   *)
(* placed, during the call and after it; the call ends once, with a result *)
(* that claims a quantity for each order or with an exception that claims  *)
(* nothing; and what it claims for an order that can be claimed exactly    *)
(* has really traded.  A claim is never taken back.                        *)
(*                                                                         *)
(*   phase    "working", then "returned" or "raised"                       *)
(*   traded   lots the exchange has traded on each order                   *)
(*   claimed  lots of each order in the result given to the caller         *)
(***************************************************************************)
EXTENDS Integers

CONSTANTS Orders,     \* the orders one call may place
          Exact,      \* those of them whose fill the call has to know
          Lots        \* the largest quantity of one order

VARIABLES phase, traded, claimed

vars == <<phase, traded, claimed>>

Nothing == [i \in Orders |-> 0]

Init == /\ phase = "working"
        /\ traded = Nothing
        /\ claimed = Nothing

\* The exchange trades: before the call ends or after it.
Trade == /\ traded' \in [Orders -> 0..Lots]
         /\ \A i \in Orders : traded[i] <= traded'[i]
         /\ UNCHANGED <<phase, claimed>>

\* The call returns a result.  Nothing trades in this step.
Return == /\ phase = "working"
          /\ phase' = "returned"
          /\ claimed' \in [Orders -> 0..Lots]
          /\ \A i \in Exact : claimed'[i] <= traded[i]
          /\ UNCHANGED traded

Raise == /\ phase = "working"
         /\ phase' = "raised"
         /\ UNCHANGED <<traded, claimed>>

Next == Trade \/ Return \/ Raise

Spec == Init /\ [][Next]_vars
=============================================================================
