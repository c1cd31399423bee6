--------------------------- MODULE ControlCommands ---------------------------
(***************************************************************************)
(* The command queue between the web process and the trading process, and  *)
(* the versioned runtime settings (risk, engine, execution) that it        *)
(* changes.  The web process only inserts rows; the engine fetches those   *)
(* still pending and carries them out one by one, in the order of their    *)
(* ids, writing the answer of each into its row.  Either write may fail,   *)
(* the process may stop between any two steps, and the service manager     *)
(* starts it again.                                                        *)
(*                                                                         *)
(* A row is its place in the queue.  The settings it asks for have its     *)
(* name; 0 names those the engine was first started with.                  *)
(*                                                                         *)
(*   queue   control_commands: what is asked, the version that the form    *)
(*           of the operator showed, the status                            *)
(*   stored  the <kind>.effective and <kind>.version rows of the store     *)
(*   mem     the settings and versions in the engine's memory              *)
(*   halted  mainnet restart guard: no new entries until a RESUME          *)
(*   at      the next step of _process_commands, or "idle", or "down"      *)
(*   batch   the rows fetched and not yet answered                         *)
(*   row     the row at work                                               *)
(*   verdict what will be written into it                                  *)
(*   faults  calls that may still fail                                     *)
(*   crashes times that the process may still stop                         *)
(***************************************************************************)
EXTENDS Integers, Sequences

CONSTANTS Kinds,        \* settings kinds, of "risk", "engine", "execution"
          MaxCommands, MaxFaults, MaxCrashes

ASSUME CommandsAssumption ==
  /\ Kinds \subseteq {"risk", "engine", "execution"}
  /\ MaxCommands \in Nat /\ MaxFaults \in Nat /\ MaxCrashes \in Nat

VARIABLES queue, stored, mem, halted, at, batch, row, verdict, faults, crashes

settings == <<stored, mem, halted>>
engine   == <<at, batch, row, verdict>>
budget   == <<faults, crashes>>
vars     == <<queue, settings, engine, budget>>

Asks     == Kinds \union {"RESUME"}
Verdicts == {"done", "failed"}
Rows     == 1 .. Len(queue)
Pending  == {r \in Rows : queue[r].status = "pending"}

Fails   == faults > 0 /\ faults' = faults - 1 /\ UNCHANGED crashes
Answers == UNCHANGED budget

Init ==
  /\ queue = <<>>
  /\ stored = [k \in Kinds |-> [version |-> 0, row |-> 0]]
  /\ mem = stored
  /\ halted = TRUE
  /\ at = "idle" /\ batch = {} /\ row = 0 /\ verdict = "failed"
  /\ faults = MaxFaults /\ crashes = MaxCrashes

(***************************************************************************)
(* The web process.  A form stays open while others change the settings,   *)
(* so any version that the store has had may come back with it; the        *)
(* comparison of the preview says nothing of the time of the apply.        *)
(***************************************************************************)

Enqueue(ask, expected) ==
  /\ Len(queue) < MaxCommands
  /\ queue' = Append(queue, [ask |-> ask, expected |-> expected,
                             status |-> "pending"])
  /\ UNCHANGED <<settings, engine, budget>>

\* One of the settings forms is applied.
ApplyForm(k) == \E seen \in 0 .. stored[k].version : Enqueue(k, seen)

\* The resume button; a RESUME carries no version.
PressResume == Enqueue("RESUME", 0)

(***************************************************************************)
(* The trading process: _process_commands.                                 *)
(***************************************************************************)

\* Mutant: all rows are fetched, answered or not.
FetchAll ==
  /\ at = "idle" /\ Pending # {}
  /\ batch' = Rows
  /\ at' = "exec"
  /\ UNCHANGED <<queue, settings, row, verdict, budget>>

\* fetch_pending_commands.  One that fails fetches nothing.
Fetch ==
  /\ at = "idle" /\ Pending # {}
  /\ batch' = Pending
  /\ at' = "exec"
  /\ UNCHANGED <<queue, settings, row, verdict, budget>>

\* The loop takes the rows in the order of their ids.
Takes(r) ==
  /\ at = "exec"
  /\ r \in batch
  /\ \A other \in batch : r <= other
  /\ row' = r

\* Mutant: versions are not compared.
CurrentAlways(r) == TRUE

\* The version that the form showed is the one of the engine.
Current(r) == queue[r].expected = mem[queue[r].ask].version

\* A row whose settings are of the engine's version and pass validation: the
\* memory of the engine changes before the store is asked.
Adopt(r) ==
  /\ Takes(r)
  /\ queue[r].ask \in Kinds /\ Current(r)
  /\ LET k == queue[r].ask IN
     mem' = [mem EXCEPT ![k] = [version |-> mem[k].version + 1, row |-> r]]
  /\ at' = "save"
  /\ UNCHANGED <<queue, stored, halted, batch, verdict, budget>>

\* Settings of another version.
Conflict(r) ==
  /\ Takes(r)
  /\ queue[r].ask \in Kinds /\ ~Current(r)
  /\ at' = "mark" /\ verdict' = "failed"
  /\ UNCHANGED <<queue, settings, batch, budget>>

\* Settings that do not pass validation; a RESUME while the private stream is
\* not live, or whose reading of the store fails.
Refuse(r) ==
  /\ Takes(r)
  /\ queue[r].ask \in Kinds => Current(r)
  /\ at' = "mark" /\ verdict' = "failed"
  /\ UNCHANGED <<queue, settings, batch, budget>>

\* RESUME lifts the halt, then writes it.
Resume(r) ==
  /\ Takes(r)
  /\ queue[r].ask = "RESUME"
  /\ halted' = FALSE
  /\ at' = "save"
  /\ UNCHANGED <<queue, stored, mem, batch, verdict, budget>>

\* set_runtime_settings, one transaction.  New risk limits go on to the
\* circuit breaker.
Save ==
  /\ at = "save"
  /\ IF queue[row].ask \in Kinds
     THEN LET k == queue[row].ask IN stored' = [stored EXCEPT ![k] = mem[k]]
     ELSE UNCHANGED stored
  /\ at' = IF queue[row].ask = "risk" THEN "breaker" ELSE "mark"
  /\ verdict' = "done"
  /\ Answers
  /\ UNCHANGED <<queue, mem, halted, batch, row>>

\* Mutant: a write that fails is only logged.
SaveFailureLogged ==
  /\ at = "save"
  /\ Fails
  /\ at' = "mark" /\ verdict' = "done"
  /\ UNCHANGED <<queue, settings, batch, row>>

\* The transaction does not commit: the row will be answered "failed", and the
\* memory stays as it is.
SaveFails ==
  /\ at = "save"
  /\ Fails
  /\ at' = "mark" /\ verdict' = "failed"
  /\ UNCHANGED <<queue, settings, batch, row>>

\* _check_circuit_breaker under the new limits; a flatten that fails raises.
Breaker ==
  /\ at = "breaker"
  /\ \/ Answers /\ verdict' = "done"
     \/ Fails /\ verdict' = "failed"
  /\ at' = "mark"
  /\ UNCHANGED <<queue, settings, batch, row>>

\* Mutant: only "done" is written.
MarkOnlyDone ==
  /\ at = "mark"
  /\ queue' = [queue EXCEPT ![row].status =
                 IF verdict = "done" THEN "done" ELSE "pending"]
  /\ batch' = batch \ {row}
  /\ at' = IF batch' = {} THEN "idle" ELSE "exec"
  /\ Answers
  /\ UNCHANGED <<settings, row, verdict>>

\* mark_command: the answer is written, the next row is due.
Mark ==
  /\ at = "mark"
  /\ queue' = [queue EXCEPT ![row].status = verdict]
  /\ batch' = batch \ {row}
  /\ at' = IF batch' = {} THEN "idle" ELSE "exec"
  /\ Answers
  /\ UNCHANGED <<settings, row, verdict>>

\* The answer "done" is not written: the same handler now writes "failed".
MarkDoneFails ==
  /\ at = "mark" /\ verdict = "done"
  /\ Fails
  /\ verdict' = "failed"
  /\ UNCHANGED <<queue, settings, at, batch, row>>

\* Mutant: an answer that cannot be written is only logged.
MarkFailureLogged ==
  /\ at = "mark" /\ verdict = "failed"
  /\ Fails
  /\ batch' = batch \ {row}
  /\ at' = IF batch' = {} THEN "idle" ELSE "exec"
  /\ UNCHANGED <<queue, settings, row, verdict>>

\* Nor is "failed": the exception leaves the loop with the rows that remain.
\* _run_cycle is caught by run and the rows are fetched again; between two
\* cycles nothing catches it and the process ends.
MarkFailedFails ==
  /\ at = "mark" /\ verdict = "failed"
  /\ Fails
  /\ batch' = {}
  /\ at' \in {"idle", "down"}
  /\ UNCHANGED <<queue, settings, row, verdict>>

\* The process is killed.
Crash ==
  /\ at # "down" /\ crashes > 0
  /\ crashes' = crashes - 1
  /\ at' = "down" /\ batch' = {}
  /\ UNCHANGED <<queue, settings, row, verdict, faults>>

\* _apply_runtime_settings: the memory is what the store has, and mainnet
\* starts halted.
Boot ==
  /\ at = "down"
  /\ mem' = stored /\ halted' = TRUE
  /\ at' = "idle"
  /\ UNCHANGED <<queue, stored, batch, row, verdict, budget>>

Executes == \E r \in Rows : Adopt(r) \/ Conflict(r) \/ Refuse(r) \/ Resume(r)

EngineStep == Fetch \/ Executes \/ Save \/ SaveFails \/ Breaker \/ Mark
              \/ MarkDoneFails \/ MarkFailedFails \/ Boot

Next == \/ \E k \in Kinds : ApplyForm(k)
        \/ PressResume
        \/ EngineStep
        \/ Crash

\* The engine polls its queue and the service manager restarts it.
Spec == Init /\ [][Next]_vars /\ WF_vars(EngineStep)

-----------------------------------------------------------------------------
(***************************************************************************)
(* Properties.                                                             *)
(***************************************************************************)

Setting == [version : Nat, row : Nat]
Command == [ask : Asks, expected : Nat, status : Verdicts \union {"pending"}]

Tables ==
  /\ queue \in Seq(Command)
  /\ stored \in [Kinds -> Setting] /\ mem \in [Kinds -> Setting]
  /\ halted \in BOOLEAN

Loop ==
  /\ at \in {"down", "idle", "exec", "save", "breaker", "mark"}
  /\ batch \subseteq Pending
  /\ at \in {"save", "breaker", "mark"} => row \in batch
  /\ at = "exec" => batch # {}
  /\ at \in {"down", "idle"} => batch = {}
  /\ row \in Nat /\ verdict \in Verdicts

\* The row at work is one of the batch, and the batch of the rows that wait for
\* an answer (_process_commands, mark_command).
TypeOK == Tables /\ Loop /\ faults \in Nat /\ crashes \in Nat

\* However stale the forms, and whatever write fails or restart comes between:
\* an update is built on settings that are stored, so none builds on what the
\* engine holds only in memory after a failed write; and what is stored
\* changes by one version, to the settings of a later row than before, so
\* no row replaces what a later one asked for and none is stored twice.
UpdatesStack ==
  [][\A k \in Kinds :
       /\ at # "down" /\ mem'[k] # mem[k] => mem[k] = stored[k]
       /\ stored'[k] # stored[k] =>
            /\ stored'[k].version = stored[k].version + 1
            /\ stored'[k].row > stored[k].row]_vars

\* Settings answered "done" were stored, and only settings of later rows have
\* replaced them: a restart does not lose what the operator was told is done.
DoneIsStored ==
  \A r \in Rows : queue[r].ask \in Kinds /\ queue[r].status = "done"
                    => stored[queue[r].ask].row >= r

\* Rows are answered in the order of the queue, also when an answer cannot be
\* written and the rest of its batch is fetched a second time.
AnsweredInOrder ==
  \A r, s \in Rows : r < s /\ s \notin Pending => r \notin Pending

\* Every command is answered in the end.
EveryCommandAnswered ==
  \A r \in 1 .. MaxCommands :
    r \in Pending ~> (r \in Rows /\ r \notin Pending)

=============================================================================
