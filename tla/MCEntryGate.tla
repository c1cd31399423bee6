----------------------------- MODULE MCEntryGate -----------------------------
(***************************************************************************)
(* EntryGate for TLC: the REST readings of the runs, and a statement of    *)
(* the documentation that the code does not keep (gate_resync_lifts_pause).*)
(***************************************************************************)
EXTENDS EntryGate

\* nothing to report: the ledger is complete and no limit is near
Calm == [ledger |-> "CONFIRMED", valid |-> TRUE, crossing |-> FALSE,
         loss |-> FALSE]

CalmReadings  == {Calm}
\* now and then an incomplete ledger with a balance that does not parse
RoughReadings == {Calm, [Calm EXCEPT !.ledger = "OPEN", !.valid = FALSE]}
\* the balance parses: any ledger, any drawdown, a realized loss by itself
ValidReadings == {r \in Reading :
                    r.valid /\ (r.loss => ~r.crossing /\ r.ledger = "CONFIRMED")}

\* the step by which a resync lifts a pause
ResyncLifts == /\ armed /\ ~armed' /\ halted /\ ~halted'
               /\ \E p \in Syncing : pc[p] = "replay" /\ pc'[p] = "release"

\* contributing.md:115-116: after the reconnect the resync restores "the technical
\* pause caused by the stream fault", hence no other pause.
ResyncLiftsOnlyStreamPause == [][ResyncLifts => reason = "stream"]_vars
=============================================================================
