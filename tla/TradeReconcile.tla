--------------------------- MODULE TradeReconcile ---------------------------
(***************************************************************************)
(* The trade reconciliation of the web process: BinanceTradeReconciler     *)
(* rebuilds the cycles of a position from the fills of a scope, keeps what *)
(* it found as a run that the operator looks at, and makes a run the       *)
(* active one if a second look finds the same.  Previews are background    *)
(* tasks; one lock keeps reconciliations apart; the exchange trades and    *)
(* the engine writes its ledger all the while; the process may restart.    *)
(*                                                                         *)
(* One symbol, positions signed.  A fill is named by its place in the      *)
(* exchange's history, a scope by its first fill.                          *)
(*                                                                         *)
(*   fills    the exchange's fills: position after it, creator, reduce-only*)
(*   local    fills that the ledger of the engine has (exchange_fills)     *)
(*   tasks    exchange_reconcile_tasks: status, the run it led to, and     *)
(*            whether it holds the unique active_slot                      *)
(*   late     failed tasks of which a query of an order still runs         *)
(*   waiting  tasks whose coroutine waits for the lock                     *)
(*   runs     exchange_reconcile_runs: what a preview found, and status    *)
(*   active   the run named by the setting binance.trade_cycles.active_run *)
(*   job      the reconciliation that holds the lock                       *)
(*   faults   exchange or database calls that may still fail               *)
(*   restarts restarts of the web process that are still to come           *)
(***************************************************************************)
EXTENDS Integers, Sequences

CONSTANTS Positions,   \* positions the account can have; it begins flat
          Kinds,       \* fills that happen: creator, reduce-only or not
          MaxFills, MaxTasks, MaxRuns,
          MaxFaults, MaxRestarts

ASSUME ReconcileAssumption ==
  /\ Positions \subseteq Int /\ 0 \in Positions
  /\ Kinds \subseteq [owner : {"engine", "external"}, reduce : BOOLEAN]
  /\ MaxFills \in Nat /\ MaxTasks \in Nat /\ MaxRuns \in Nat
  /\ MaxFaults \in Nat /\ MaxRestarts \in Nat

Fills == {[after |-> p, owner |-> k.owner, reduce |-> k.reduce] :
            p \in Positions, k \in Kinds}
Active == {"queued", "running"}

VARIABLES fills, local, tasks, late, waiting, runs, active, job, faults,
          restarts

vars == <<fills, local, tasks, late, waiting, runs, active, job, faults,
          restarts>>

NoJob == [kind |-> "none", pc |-> "idle", task |-> 0, run |-> 0, from |-> 1,
          upto |-> 0, pos |-> 0]

Init ==
  /\ fills = <<>> /\ local = {}
  /\ tasks = <<>> /\ late = {} /\ waiting = {}
  /\ runs = <<>> /\ active = 0
  /\ job = NoJob
  /\ faults = MaxFaults /\ restarts = MaxRestarts

Fails == faults > 0 /\ faults' = faults - 1
Answers == UNCHANGED faults

\* The position after the first n fills.
Pos(n) == IF n = 0 THEN 0 ELSE fills[n].after

Abs(p) == IF p < 0 THEN -p ELSE p

(***************************************************************************)
(* Replaying a scope: replay_trade_cycles.                                 *)
(***************************************************************************)

\* _derive_initial_positions: what the account must have held before the
\* scope for its fills to lead to position pos.
Initial(from, upto, pos) == pos - (Pos(upto) - Pos(from - 1))

\* The position the replay has after fill i.
Replayed(from, upto, pos, i) ==
  Initial(from, upto, pos) + (Pos(i) - Pos(from - 1))

SameSide(p, q) == (p > 0 /\ q > 0) \/ (p < 0 /\ q < 0)

\* The replay reports no error: no reduce-only fill opens, adds or reverses,
\* and without fills there is no position (_validate_final_positions).
Accepted(from, upto, pos) ==
  /\ from > upto => pos = 0
  /\ \A i \in from..upto :
       fills[i].reduce =>
         LET p == Replayed(from, upto, pos, i - 1)
             q == Replayed(from, upto, pos, i)
         IN Abs(q) < Abs(p) /\ (q = 0 \/ SameSide(p, q))

(***************************************************************************)
(* The exchange and the engine's ledger.                                   *)
(***************************************************************************)

Trade ==
  /\ Len(fills) < MaxFills
  /\ \E f \in Fills :
       /\ f.after # Pos(Len(fills))
       \* The exchange itself keeps reduce-only orders from reversing.
       /\ f.reduce => /\ Abs(f.after) < Abs(Pos(Len(fills)))
                      /\ (f.after = 0) \/ SameSide(f.after, Pos(Len(fills)))
       /\ fills' = Append(fills, f)
  /\ UNCHANGED <<local, tasks, late, waiting, runs, active, job, faults,
                 restarts>>

\* The engine ingests a fill, in whatever order.
Ingest ==
  /\ \E i \in (DOMAIN fills) \ local : local' = local \cup {i}
  /\ UNCHANGED <<fills, tasks, late, waiting, runs, active, job, faults,
                 restarts>>

(***************************************************************************)
(* Preview tasks: create_or_reuse_reconcile_task and the coroutine behind  *)
(* a task.  The unique active_slot decides between two requests that found *)
(* no active task.                                                         *)
(***************************************************************************)

ActiveTasks == {t \in DOMAIN tasks : tasks[t].status \in Active}

\* A request starts a task unless one is active; it may also be answered
\* with a task that succeeded lately, which changes nothing.
RequestPreview ==
  /\ ActiveTasks = {} /\ Len(tasks) < MaxTasks
  /\ tasks' = Append(tasks, [status |-> "queued", run |-> 0, slot |-> TRUE])
  /\ waiting' = waiting \cup {Len(tasks) + 1}
  /\ UNCHANGED <<fills, local, late, runs, active, job, faults, restarts>>

\* The task gets the lock; its scope begins at some fill, and ends with the
\* time the exchange's clock has now.
BeginPreview(t, from) ==
  /\ t \in waiting /\ job.kind = "none"
  /\ waiting' = waiting \ {t}
  /\ tasks' = [tasks EXCEPT ![t].status = "running"]
  /\ job' = [NoJob EXCEPT !.kind = "preview", !.pc = "fills", !.task = t,
                          !.from = from, !.upto = Len(fills)]
  /\ UNCHANGED <<fills, local, late, runs, active, faults, restarts>>

\* Mutant: a run is activated on the strength of its first look.
ApplyTrusts(r) ==
  /\ job.kind = "none" /\ runs[r].status # "applied"
  /\ job' = [NoJob EXCEPT !.kind = "apply", !.pc = "activate", !.run = r,
                          !.from = runs[r].from, !.upto = runs[r].upto,
                          !.pos = runs[r].pos]
  /\ UNCHANGED <<fills, local, tasks, late, waiting, runs, active, faults,
                 restarts>>

\* The operator applies a run; the request is refused while the lock is held,
\* and an applied run is left as it is.
BeginApply(r) ==
  /\ job.kind = "none" /\ runs[r].status # "applied"
  /\ job' = [NoJob EXCEPT !.kind = "apply", !.pc = "fills", !.run = r,
                          !.from = runs[r].from, !.upto = Len(fills)]
  /\ UNCHANGED <<fills, local, tasks, late, waiting, runs, active, faults,
                 restarts>>

(***************************************************************************)
(* preview(): the steps both kinds of job share.                           *)
(***************************************************************************)

Unsaved == <<fills, local, tasks, late, waiting, runs, active, restarts>>

\* The fills of the scope that the ledger has, then those that the exchange
\* has: _local_fills, _remote_fills and _verify_remote_local.  A fill of the
\* scope is on the exchange when the job begins, so only the ledger's reading
\* can miss one.
LedgerComplete == job.from..job.upto \subseteq local

ReadFills ==
  /\ job.pc = "fills" /\ LedgerComplete
  /\ Answers
  /\ job' = [job EXCEPT !.pc = "positions"]
  /\ UNCHANGED Unsaved

\* The exchange is asked for the position as it is now.  The creator of each
\* fill has been read from the exchange's orders before.
ReadPosition ==
  /\ job.pc = "positions"
  /\ Accepted(job.from, job.upto, Pos(Len(fills)))
  /\ Answers
  /\ job' = [job EXCEPT !.pos = Pos(Len(fills)),
                        !.pc = IF job.kind = "preview" THEN "persist"
                               ELSE "compare"]
  /\ UNCHANGED Unsaved

\* The ledger lacks a fill, the replay reports an error, or a call fails: a
\* ReconcileError ends the job, and a task ends as failed.
Refused == \/ job.pc = "fills" /\ ~LedgerComplete
           \/ /\ job.pc = "positions"
              /\ ~Accepted(job.from, job.upto, Pos(Len(fills)))

Ended(status, run) ==
  tasks' = IF job.kind = "preview"
           THEN [tasks EXCEPT ![job.task] =
                   [status |-> status, run |-> run, slot |-> FALSE]]
           ELSE tasks

\* The exchange is being asked for the orders of several fills, each by a
\* coroutine of its own, and each answer moves the progress of the task.
OrdersAsked == /\ job.kind = "preview" /\ job.pc = "fills"
               /\ LedgerComplete /\ job.from < job.upto

\* asyncio.gather leaves the other queries running when one of them fails.
JobFails ==
  /\ \/ Refused /\ Answers /\ UNCHANGED late
     \/ job.pc # "idle" /\ Fails /\ UNCHANGED late
     \/ OrdersAsked /\ Fails /\ late' = late \cup {job.task}
  /\ Ended("failed", 0)
  /\ job' = NoJob
  /\ UNCHANGED <<fills, local, waiting, runs, active, restarts>>

\* One of them is answered: _progress writes "running" into the row of the
\* task, whatever it says by now.  The slot stays free.
LateProgress ==
  /\ \E t \in late :
       /\ tasks' = [tasks EXCEPT ![t].status = "running"]
       /\ late' = late \ {t}
  /\ UNCHANGED <<fills, local, waiting, runs, active, job, faults, restarts>>

(***************************************************************************)
(* The end of a preview.                                                   *)
(***************************************************************************)

Found(status) == [from |-> job.from, upto |-> job.upto, pos |-> job.pos,
                  status |-> status]

SameHash(r) == /\ runs[r].from = job.from /\ runs[r].upto = job.upto
               /\ runs[r].pos = job.pos

\* _persist_preview: a run with the same hash is used again.  The hash also has
\* the time the scope begins at, so equal findings may still be two runs.
Persist ==
  /\ job.pc = "persist"
  /\ Answers
  /\ \/ /\ Len(runs) < MaxRuns
        /\ runs' = Append(runs, Found("previewed"))
        /\ job' = [job EXCEPT !.run = Len(runs) + 1, !.pc = "succeed"]
     \/ \E r \in DOMAIN runs :
          /\ SameHash(r)
          /\ job' = [job EXCEPT !.run = r, !.pc = "succeed"]
          /\ UNCHANGED runs
  /\ UNCHANGED <<fills, local, tasks, late, waiting, active, restarts>>

Succeed ==
  /\ job.pc = "succeed"
  /\ Ended("succeeded", job.run)
  /\ job' = NoJob
  /\ UNCHANGED <<fills, local, late, waiting, runs, active, faults, restarts>>

(***************************************************************************)
(* The end of an apply.                                                    *)
(***************************************************************************)

\* Mutant: the error leaves the lock held by nobody.
CompareKeepsLock ==
  /\ job.pc = "compare"
  /\ Answers
  /\ job' = [job EXCEPT !.pc = IF SameHash(job.run) THEN "activate" ELSE "idle"]
  /\ UNCHANGED Unsaved

\* The second look must have found what the run says; then the database is
\* backed up.
Compare ==
  /\ job.pc = "compare"
  /\ Answers
  /\ job' = IF SameHash(job.run) THEN [job EXCEPT !.pc = "activate"] ELSE NoJob
  /\ UNCHANGED Unsaved

\* Mutant: the run that was active stays applied.
ActivateBeside(r) == [runs EXCEPT ![r].status = "applied"]

\* The runs once r is applied.
Activated(r) ==
  [s \in DOMAIN runs |->
     [runs[s] EXCEPT !.status = IF s = r THEN "applied"
                                ELSE IF @ = "applied" THEN "superseded" ELSE @]]

\* _activate_run: one transaction.
Activate ==
  /\ job.pc = "activate"
  /\ Answers
  /\ runs' = Activated(job.run)
  /\ active' = job.run
  /\ job' = NoJob
  /\ UNCHANGED <<fills, local, tasks, late, waiting, restarts>>

(***************************************************************************)
(* A restart of the web process.                                           *)
(***************************************************************************)

\* A row failed by the startup.
Closed(task) == [task EXCEPT !.status = "failed", !.slot = FALSE]

\* Mutant: only running tasks are failed.
InterruptedRunning ==
  [t \in DOMAIN tasks |->
     IF tasks[t].status = "running" THEN Closed(tasks[t]) ELSE tasks[t]]

\* fail_interrupted_reconcile_tasks.
Interrupted ==
  [t \in DOMAIN tasks |->
     IF tasks[t].status \in Active THEN Closed(tasks[t]) ELSE tasks[t]]

Restart ==
  /\ restarts > 0 /\ restarts' = restarts - 1
  /\ tasks' = Interrupted
  /\ late' = {} /\ waiting' = {} /\ job' = NoJob
  /\ UNCHANGED <<fills, local, runs, active, faults>>

JobStep == \/ ReadFills \/ ReadPosition \/ JobFails
           \/ Persist \/ Succeed \/ Compare \/ Activate

Next == \/ Trade \/ Ingest \/ RequestPreview
        \/ \E t \in waiting : \E from \in 1..Len(fills) + 1 :
             BeginPreview(t, from)
        \/ \E r \in DOMAIN runs : BeginApply(r)
        \/ JobStep
        \/ LateProgress
        \/ Restart

\* A coroutine goes on, and the lock goes to those who wait for it in turn: an
\* apply may be ahead of a task that has not come to the lock yet, not for
\* ever.
Fairness ==
  /\ WF_vars(JobStep)
  /\ SF_vars(\E t \in waiting : \E from \in 1..Len(fills) + 1 :
               BeginPreview(t, from))

Spec == Init /\ [][Next]_vars /\ Fairness

(***************************************************************************)
(* Properties.                                                             *)
(***************************************************************************)

Statuses == Active \cup {"succeeded", "failed"}
Tasks == [status : Statuses, run : 0..MaxRuns, slot : BOOLEAN]
Results == [from : 1..MaxFills + 1, upto : 0..MaxFills, pos : Positions,
            status : {"previewed", "applied", "superseded"}]
Steps == {"idle", "fills", "positions", "persist", "succeed", "compare",
          "activate"}

TablesOK ==
  /\ fills \in Seq(Fills) /\ Len(fills) <= MaxFills
  /\ local \subseteq DOMAIN fills
  /\ tasks \in Seq(Tasks)
  /\ Len(tasks) <= MaxTasks
  /\ late \subseteq DOMAIN tasks /\ waiting \subseteq DOMAIN tasks
  /\ runs \in Seq(Results) /\ Len(runs) <= MaxRuns
  /\ active \in 0..Len(runs)
  /\ faults \in 0..MaxFaults /\ restarts \in 0..MaxRestarts

JobOK ==
  /\ job \in [kind : {"none", "preview", "apply"}, pc : Steps,
              task : 0..MaxTasks, run : 0..MaxRuns,
              from : 1..MaxFills + 1, upto : 0..MaxFills, pos : Positions]
  /\ job.kind = "none" <=> job.pc = "idle"
  /\ job.task \in 0..Len(tasks) /\ job.run \in 0..Len(runs)
  /\ job.from \in 1..Len(fills) + 1 /\ job.upto \in 0..Len(fills)

\* Every task, run and job is well formed; no job holds the lock without a
\* next step, and none is without the lock (_reconcile_trade_lock).
TypeOK == TablesOK /\ JobOK

\* What the account page shows is true: the active run is the one applied run,
\* and the position it starts from is the one the account really had.  A fill
\* between the end of a preview's scope and its reading of the position makes
\* that preview wrong; no such run is ever applied.
ActiveRunIsTrue ==
  /\ \A r \in DOMAIN runs : runs[r].status = "applied" <=> r = active
  /\ active # 0 =>
       Initial(runs[active].from, runs[active].upto, runs[active].pos)
         = Pos(runs[active].from - 1)

\* A preview task gives up the one active slot in the end, whatever fails and
\* whenever the process restarts.  Its row may say "running" again after that
\* (LateProgress) and is then what later requests are answered with, until the
\* process restarts: nothing here says that it does not.
SlotFreed == []<>(\A t \in DOMAIN tasks : ~tasks[t].slot)
=============================================================================
