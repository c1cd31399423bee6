------------------------ MODULE TradeReconcileProofs ------------------------
(***************************************************************************)
(* What TLAPS proves of TradeReconcile and TradeCycles, for any number of  *)
(* fills, tasks, runs, failures and restarts: every table and job is well  *)
(* formed, the run on the account page is true, and the cycles of every    *)
(* run are the stretches of the position it assumes.                       *)
(*                                                                         *)
(* The second needs an invariant about what a look saw: a position read    *)
(* when no fill had come after the scope's last one is the position after  *)
(* that fill, so a run that was wrong stays distinguishable from what the  *)
(* apply job finds.  The third is about a fold: Tells says what its books  *)
(* are after each fill, in terms of the reference Life over the fills seen *)
(* so far, and the least fill after which they are not would be a          *)
(* counterexample.                                                         *)
(***************************************************************************)
EXTENDS TradeCycles, SequenceTheorems, FiniteSetTheorems, WellFoundedInduction, TLAPS

\* Which job takes which step, and what it is about.
JobKind ==
  /\ job.kind = "preview" => job.task \in 1..Len(tasks)
  /\ job.kind = "apply" => job.run \in 1..Len(runs)
  /\ job.pc \in {"compare", "activate"} => job.kind = "apply"
  /\ job.pc \in {"persist", "succeed"} => job.kind = "preview"

\* A run can be wrong only if a fill came after its scope.
RunSeen ==
  \A r \in 1..Len(runs) :
    /\ runs[r].from <= Len(fills) + 1 /\ runs[r].upto <= Len(fills)
    /\ runs[r].upto = Len(fills) => runs[r].pos = Pos(runs[r].upto)

\* So can what the job has seen; and the scope of an apply, whose end is later,
\* differs from that of a wrong run.
JobSeen ==
  /\ job.pc \in {"persist", "compare", "activate"} =>
       (job.upto = Len(fills) => job.pos = Pos(job.upto))
  /\ job.kind = "apply" =>
       (job.upto = runs[job.run].upto =>
          runs[job.run].pos = Pos(runs[job.run].upto))
  /\ job.pc = "activate" => SameHash(job.run)

IInv == /\ TablesOK /\ JobOK
        /\ JobKind /\ RunSeen /\ JobSeen
        /\ ActiveRunIsTrue

(***************************************************************************)
(* Positions.                                                              *)
(***************************************************************************)

\* What the constants are.
LEMMA Ranges ==
  /\ Positions \subseteq Int /\ 0 \in Positions
  /\ MaxFills \in Nat /\ MaxTasks \in Nat /\ MaxRuns \in Nat
  /\ MaxFaults \in Nat /\ MaxRestarts \in Nat
  /\ \A f \in Fills : f.after \in Positions
  BY ReconcileAssumption DEF ReconcileAssumption, Fills

\* The position after any fill is one the account can have.
LEMMA PosType == ASSUME TablesOK, NEW n \in 0..Len(fills)
                 PROVE  Pos(n) \in Positions /\ Pos(n) \in Int
  <1>1. CASE n = 0
    BY <1>1, Ranges DEF Pos
  <1>2. CASE n # 0
    <2>1. fills[n] \in Fills
      BY <1>2 DEF TablesOK
    <2> QED BY <2>1, <1>2, Ranges DEF Pos
  <1> QED BY <1>1, <1>2

\* As long as there are no new fills, positions are what they were.
LEMMA PosSame == ASSUME fills' = fills, NEW n PROVE Pos(n)' = Pos(n)
  BY DEF Pos

(***************************************************************************)
(* Steps of the job that leave fills, runs and the active run alone.       *)
(***************************************************************************)

\* What is said of runs is not disturbed by a step that leaves them alone.
LEMMA RunsKept == ASSUME IInv, UNCHANGED <<fills, runs, active>>
                  PROVE  RunSeen' /\ ActiveRunIsTrue'
  <1>1. \A n : Pos(n)' = Pos(n)
    BY PosSame DEF IInv
  <1>2. RunSeen'
    BY <1>1 DEF IInv, RunSeen
  <1>3. ActiveRunIsTrue'
    BY <1>1 DEF IInv, ActiveRunIsTrue, Initial
  <1> QED BY <1>2, <1>3

\* An idle job says nothing.
LEMMA JobDone == ASSUME TablesOK', job' = NoJob
                 PROVE  JobOK' /\ JobKind' /\ JobSeen'
  BY Ranges DEF TablesOK, JobOK, JobKind, JobSeen, NoJob, Steps

(***************************************************************************)
(* The environment: the exchange, the engine, and restarts.                *)
(***************************************************************************)

LEMMA TradeKeeps == ASSUME IInv, Trade PROVE IInv'
  <1> PICK f \in Fills : fills' = Append(fills, f)
    BY DEF Trade
  <1>0. /\ TablesOK /\ JobOK /\ Len(fills) < MaxFills
        /\ UNCHANGED <<local, tasks, late, waiting, runs, active, job, faults,
                       restarts>>
    BY DEF IInv, Trade
  <1>1. fills' \in Seq(Fills) /\ Len(fills') = Len(fills) + 1
    BY <1>0 DEF TablesOK
  <1>2. \A n \in 1..Len(fills) : fills'[n] = fills[n]
    BY <1>0 DEF TablesOK
  <1>3. TablesOK'
    BY <1>0, <1>1, Ranges DEF TablesOK
  <1>4. JobOK'
    BY <1>0, <1>1 DEF JobOK, TablesOK
  <1>5. JobKind'
    BY <1>0 DEF IInv, JobKind
  <1>6. RunSeen'
    <2> SUFFICES ASSUME NEW r \in 1..Len(runs)
                 PROVE  /\ runs[r].from <= Len(fills') + 1
                        /\ runs[r].upto <= Len(fills')
                        /\ runs[r].upto # Len(fills')
      BY <1>0 DEF RunSeen
    <2>1. runs[r] \in Results
      BY <1>0 DEF TablesOK
    <2>2. /\ runs[r].from \in Nat /\ runs[r].upto \in Nat
          /\ runs[r].from <= Len(fills) + 1 /\ runs[r].upto <= Len(fills)
          /\ Len(fills) \in Nat
      BY <1>0, <2>1, Ranges DEF IInv, RunSeen, Results, TablesOK
    <2> QED BY <2>2, <1>1
  <1>7. JobSeen'
    <2>1. job.upto \in 0..Len(fills) /\ Len(fills) \in Nat
      BY <1>0 DEF JobOK, TablesOK
    <2>2. job.kind = "apply" => runs[job.run].upto \in 0..Len(fills)
      <3> SUFFICES ASSUME job.kind = "apply"
                   PROVE  runs[job.run].upto \in 0..Len(fills)
        OBVIOUS
      <3>1. job.run \in 1..Len(runs) /\ runs[job.run] \in Results
        BY <1>0 DEF IInv, JobKind, TablesOK
      <3> QED BY <3>1, <2>1, Ranges DEF IInv, RunSeen, Results
    <2>3. job.upto # Len(fills')
      BY <1>1, <2>1
    <2>4. JobSeen
      BY DEF IInv
    <2>5. job' = job /\ runs' = runs
      BY <1>0
    <2>6. job.pc = "activate" => SameHash(job.run)'
      BY <2>4, <2>5 DEF JobSeen, SameHash
    <2>7. job.kind = "apply" =>
            (job.upto = runs[job.run].upto =>
               runs[job.run].pos
                 = IF runs[job.run].upto = 0 THEN 0
                   ELSE fills'[runs[job.run].upto].after)
      BY <1>2, <2>2, <2>4 DEF JobSeen, Pos
    <2> QED BY <2>3, <2>5, <2>6, <2>7 DEF JobSeen, Pos
  <1>8. ActiveRunIsTrue'
    <2>1. ActiveRunIsTrue /\ runs' = runs /\ active' = active
      BY <1>0 DEF IInv
    <2>2. CASE active = 0
      BY <2>1, <2>2 DEF ActiveRunIsTrue
    <2>3. CASE active # 0
      <3>1. active \in 1..Len(runs) /\ runs[active] \in Results
        BY <2>3, <1>0 DEF TablesOK
      <3>2. /\ runs[active].upto \in 0..Len(fills)
            /\ runs[active].from - 1 \in 0..Len(fills)
        <4>1. /\ runs[active].upto \in Nat /\ runs[active].from \in Nat
              /\ runs[active].from >= 1 /\ Len(fills) \in Nat
          <5>1. Len(fills) \in Nat
            BY <1>0 DEF TablesOK
          <5>2. runs[active].from \in 1..MaxFills + 1
            BY <3>1 DEF Results
          <5>3. runs[active].upto \in 0..MaxFills
            BY <3>1 DEF Results
          <5> QED BY <5>1, <5>2, <5>3, Ranges
        <4>2. /\ runs[active].from <= Len(fills) + 1
              /\ runs[active].upto <= Len(fills)
          BY <3>1 DEF IInv, RunSeen
        <4> QED BY <4>1, <4>2
      <3>3. \A n \in {runs[active].upto, runs[active].from - 1} :
              n # 0 => fills'[n] = fills[n]
        BY <1>2, <3>2
      <3> QED BY <2>1, <3>3 DEF ActiveRunIsTrue, Initial, Pos
    <2> QED BY <2>2, <2>3
  <1> QED BY <1>3, <1>4, <1>5, <1>6, <1>7, <1>8 DEF IInv

\* The job, and what is said of it, are not disturbed either while it and the
\* tables it reads stay.
LEMMA JobKept == ASSUME IInv, UNCHANGED <<fills, runs, job>>, Len(tasks') \in Nat,
                        Len(tasks') >= Len(tasks)
                 PROVE  JobOK' /\ JobKind' /\ JobSeen'
  <1>1. \A n : Pos(n)' = Pos(n)
    BY PosSame
  <1>2. Len(tasks) \in Nat
    BY DEF IInv, TablesOK
  <1>3. JobOK'
    BY <1>2 DEF IInv, JobOK
  <1>4. JobKind'
    BY <1>2 DEF IInv, JobKind
  <1>5. JobSeen'
    BY <1>1 DEF IInv, JobSeen, SameHash
  <1> QED BY <1>3, <1>4, <1>5

LEMMA IngestKeeps == ASSUME IInv, Ingest PROVE IInv'
  <1>1. UNCHANGED <<fills, tasks, late, waiting, runs, active, job, faults, restarts>>
    BY DEF Ingest
  <1>2. TablesOK'
    BY <1>1 DEF Ingest, IInv, TablesOK
  <1>3. Len(tasks) \in Nat
    BY DEF IInv, TablesOK
  <1> QED BY <1>1, <1>2, <1>3, JobKept, RunsKept DEF IInv

LEMMA RequestKeeps == ASSUME IInv, RequestPreview PROVE IInv'
  <1>1. UNCHANGED <<fills, local, late, runs, active, job, faults, restarts>>
    BY DEF RequestPreview
  <1>2. /\ tasks \in Seq(Tasks)
        /\ Len(tasks) < MaxTasks
        /\ tasks' = Append(tasks, [status |-> "queued", run |-> 0,
                                   slot |-> TRUE])
        /\ waiting' = waiting \cup {Len(tasks) + 1}
    BY DEF RequestPreview, IInv, TablesOK
  <1>3. [status |-> "queued", run |-> 0, slot |-> TRUE] \in Tasks
    BY Ranges DEF Tasks, Statuses, Active
  <1>4. /\ tasks' \in Seq(Tasks)
        /\ Len(tasks') = Len(tasks) + 1 /\ Len(tasks) \in Nat
    BY <1>2, <1>3
  <1>5. waiting' \subseteq 1..Len(tasks')
    BY <1>2, <1>4 DEF IInv, TablesOK
  <1>6. TablesOK'
    BY <1>1, <1>2, <1>4, <1>5, Ranges DEF IInv, TablesOK
  <1> QED BY <1>1, <1>4, <1>6, JobKept, RunsKept DEF IInv

\* Changing a status of tasks keeps the table's type and length.
LEMMA TaskTable ==
  ASSUME TablesOK, NEW t \in 1..Len(tasks), NEW s \in Statuses,
         NEW r \in 0..MaxRuns
  PROVE  /\ [tasks EXCEPT ![t] = [status |-> s, run |-> r, slot |-> FALSE]]
                \in Seq(Tasks)
         /\ Len([tasks EXCEPT ![t] = [status |-> s, run |-> r, slot |-> FALSE]])
              = Len(tasks)
         /\ [tasks EXCEPT ![t].status = s]
                \in Seq(Tasks)
         /\ Len([tasks EXCEPT ![t].status = s]) = Len(tasks)
  <1>1. tasks \in Seq(Tasks) /\ tasks[t] \in Tasks
    BY DEF TablesOK
  <1>2. [status |-> s, run |-> r, slot |-> FALSE] \in Tasks
    BY DEF Tasks
  <1>3. [tasks[t] EXCEPT !.status = s] \in Tasks
    BY <1>1 DEF Tasks
  <1> HIDE DEF Tasks
  <1> QED BY <1>1, <1>2, <1>3

LEMMA RestartKeeps == ASSUME IInv, Restart PROVE IInv'
  <1>1. /\ UNCHANGED <<fills, local, runs, active, faults>>
        /\ job' = NoJob /\ late' = {} /\ waiting' = {} /\ tasks' = Interrupted
        /\ restarts \in Nat /\ restarts > 0 /\ restarts' = restarts - 1
    BY Ranges DEF Restart, IInv, TablesOK
  <1>2. /\ tasks \in Seq(Tasks)
        /\ Len(tasks) <= MaxTasks
    BY DEF IInv, TablesOK
  <1>3. \A t \in 1..Len(tasks) :
          Interrupted[t] \in Tasks
    <2> SUFFICES ASSUME NEW t \in 1..Len(tasks)
                 PROVE  Interrupted[t] \in Tasks
      OBVIOUS
    <2>1. tasks[t] \in Tasks
      BY <1>2
    <2>2. Closed(tasks[t]) \in Tasks
      BY <2>1 DEF Closed, Tasks, Statuses
    <2>3. Interrupted[t] \in {tasks[t], Closed(tasks[t])}
      BY <1>2 DEF Interrupted
    <2> QED BY <2>1, <2>2, <2>3
  <1>4. /\ Interrupted \in Seq(Tasks)
        /\ Len(Interrupted) = Len(tasks)
    <2>1. Len(tasks) \in Nat /\ DOMAIN tasks = 1..Len(tasks)
      BY <1>2
    <2>2. Interrupted \in [1..Len(tasks) -> Tasks]
      BY <2>1, <1>3 DEF Interrupted
    <2> QED BY <2>1, <2>2
  <1>5. TablesOK'
    BY <1>1, <1>2, <1>4, Ranges DEF IInv, TablesOK
  <1> QED BY <1>1, <1>5, JobDone, RunsKept DEF IInv

(***************************************************************************)
(* The job.                                                                *)
(***************************************************************************)

\* The job as a record, with the ranges of its fields.
Jobs == [kind : {"none", "preview", "apply"}, pc : Steps,
         task : 0..MaxTasks, run : 0..MaxRuns,
         from : 1..MaxFills + 1, upto : 0..MaxFills, pos : Positions]

LEMMA BeginPreviewKeeps ==
  ASSUME IInv, NEW t \in waiting, NEW from \in 1..Len(fills) + 1,
         BeginPreview(t, from)
  PROVE  IInv'
  <1>1. /\ waiting' = waiting \ {t}
        /\ tasks' = [tasks EXCEPT ![t].status = "running"]
        /\ job' = [NoJob EXCEPT !.kind = "preview", !.pc = "fills", !.task = t,
                                !.from = from, !.upto = Len(fills)]
        /\ UNCHANGED <<fills, local, late, runs, active, faults, restarts>>
    BY DEF BeginPreview
  <1>2. /\ t \in 1..Len(tasks) /\ Len(tasks) \in Nat /\ Len(tasks) <= MaxTasks
        /\ Len(fills) \in Nat /\ Len(fills) <= MaxFills /\ Len(runs) \in Nat
        /\ DOMAIN tasks = 1..Len(tasks)
    BY DEF IInv, TablesOK
  <1>3. tasks' \in Seq(Tasks) /\ Len(tasks') = Len(tasks)
    <2>1. "running" \in Statuses /\ 0 \in 0..MaxRuns /\ TablesOK
      BY Ranges DEF Statuses, Active, IInv
    <2> QED BY <1>1, <1>2, <2>1, TaskTable
  <1>4. TablesOK'
    BY <1>1, <1>2, <1>3 DEF IInv, TablesOK
  <1>5. /\ job'.kind = "preview" /\ job'.pc = "fills" /\ job'.task = t
        /\ job'.run = 0 /\ job'.from = from /\ job'.upto = Len(fills)
    BY <1>1 DEF NoJob
  <1>6. job' \in Jobs
    <2>1. job' = [kind |-> "preview", pc |-> "fills", task |-> t, run |-> 0,
                  from |-> from, upto |-> Len(fills), pos |-> 0]
      BY <1>1 DEF NoJob
    <2>2. /\ t \in 0..MaxTasks /\ 0 \in 0..MaxRuns /\ 0 \in Positions
          /\ from \in 1..MaxFills + 1 /\ Len(fills) \in 0..MaxFills
      BY <1>2, Ranges
    <2> QED BY <2>1, <2>2 DEF Jobs, Steps
  <1>7. JobOK'
    BY <1>1, <1>2, <1>3, <1>5, <1>6 DEF JobOK, Jobs
  <1>8. JobKind' /\ JobSeen'
    BY <1>2, <1>3, <1>5 DEF JobKind, JobSeen
  <1> QED BY <1>1, <1>4, <1>7, <1>8, RunsKept DEF IInv

LEMMA BeginApplyKeeps ==
  ASSUME IInv, NEW r \in 1..Len(runs), BeginApply(r)
  PROVE  IInv'
  <1>1. /\ job' = [NoJob EXCEPT !.kind = "apply", !.pc = "fills", !.run = r,
                                !.from = runs[r].from, !.upto = Len(fills)]
        /\ UNCHANGED <<fills, local, tasks, late, waiting, runs, active, faults,
                       restarts>>
    BY DEF BeginApply
  <1>2. /\ Len(tasks) \in Nat /\ Len(runs) \in Nat /\ Len(runs) <= MaxRuns
        /\ Len(fills) \in Nat /\ Len(fills) <= MaxFills
        /\ runs[r] \in Results
    BY DEF IInv, TablesOK
  <1>3. /\ runs[r].from \in 1..Len(fills) + 1 /\ runs[r].upto \in 0..Len(fills)
        /\ runs[r].upto = Len(fills) => runs[r].pos = Pos(runs[r].upto)
    <2>1. runs[r].from \in Nat /\ runs[r].from >= 1 /\ runs[r].upto \in Nat
      BY <1>2, Ranges DEF Results
    <2>2. /\ runs[r].from <= Len(fills) + 1 /\ runs[r].upto <= Len(fills)
          /\ runs[r].upto = Len(fills) => runs[r].pos = Pos(runs[r].upto)
      BY DEF IInv, RunSeen
    <2> QED BY <1>2, <2>1, <2>2
  <1>4. TablesOK'
    BY <1>1 DEF IInv, TablesOK
  <1>5. /\ job'.kind = "apply" /\ job'.pc = "fills" /\ job'.task = 0
        /\ job'.run = r /\ job'.from = runs[r].from /\ job'.upto = Len(fills)
    BY <1>1 DEF NoJob
  <1>6. job' \in Jobs
    <2>1. job' = [kind |-> "apply", pc |-> "fills", task |-> 0, run |-> r,
                  from |-> runs[r].from, upto |-> Len(fills), pos |-> 0]
      BY <1>1 DEF NoJob
    <2>2. /\ 0 \in 0..MaxTasks /\ r \in 0..MaxRuns /\ 0 \in Positions
          /\ runs[r].from \in 1..MaxFills + 1 /\ Len(fills) \in 0..MaxFills
      BY <1>2, <1>3, Ranges
    <2> QED BY <2>1, <2>2 DEF Jobs, Steps
  <1>7. JobOK'
    BY <1>1, <1>2, <1>3, <1>5, <1>6 DEF JobOK, Jobs
  <1>8. JobKind'
    BY <1>1, <1>5 DEF JobKind
  <1>9. JobSeen'
    BY <1>1, <1>3, <1>5 DEF JobSeen, Pos
  <1> QED BY <1>1, <1>4, <1>7, <1>8, <1>9, RunsKept DEF IInv

\* A step that leaves the job its kind, task and scope, and the tables alone.
SameJob == /\ job'.kind = job.kind /\ job'.task = job.task
           /\ job'.from = job.from /\ job'.upto = job.upto

LEMMA JobMoves ==
  ASSUME IInv, job' \in Jobs, SameJob, job.pc # "idle", job'.pc # "idle",
         job'.run \in 0..Len(runs),
         UNCHANGED <<fills, local, tasks, late, waiting, runs, active, restarts>>,
         faults' \in 0..MaxFaults
  PROVE  TablesOK' /\ JobOK' /\ RunSeen' /\ ActiveRunIsTrue'
  <1>1. TablesOK'
    BY DEF IInv, TablesOK
  <1>2. /\ (job.kind = "none" <=> job.pc = "idle")
        /\ job.task \in 0..Len(tasks)
        /\ job.from \in 1..Len(fills) + 1 /\ job.upto \in 0..Len(fills)
    BY DEF IInv, JobOK
  <1>3. JobOK'
    BY <1>2 DEF JobOK, Jobs, SameJob
  <1> QED BY <1>1, <1>3, RunsKept

\* What the tables say while a step may fail.
LEMMA Budget == ASSUME IInv, Answers \/ Fails PROVE faults' \in 0..MaxFaults
  BY Ranges DEF IInv, TablesOK, Answers, Fails

LEMMA ReadFillsKeeps == ASSUME IInv, ReadFills PROVE IInv'
  <1>1. /\ job.pc = "fills" /\ job' = [job EXCEPT !.pc = "positions"]
        /\ UNCHANGED <<fills, local, tasks, late, waiting, runs, active, restarts>>
        /\ faults' \in 0..MaxFaults
    BY Budget DEF ReadFills, Unsaved
  <1>2. job \in Jobs /\ job.run \in 0..Len(runs) /\ "positions" \in Steps \ {"idle"}
    BY DEF IInv, JobOK, Jobs, Steps
  <1>3. job' \in Jobs /\ job'.pc = "positions" /\ job'.run = job.run /\ SameJob
    BY <1>1, <1>2 DEF Jobs, SameJob
  <1>4. TablesOK' /\ JobOK' /\ RunSeen' /\ ActiveRunIsTrue'
    BY <1>1, <1>2, <1>3, JobMoves
  <1>5. JobKind'
    BY <1>1, <1>3 DEF IInv, JobKind, SameJob
  <1>6. JobSeen'
    BY <1>1, <1>3 DEF IInv, JobSeen, SameJob, Pos
  <1> QED BY <1>4, <1>5, <1>6 DEF IInv

LEMMA ReadPositionKeeps == ASSUME IInv, ReadPosition PROVE IInv'
  <1> DEFINE pc == IF job.kind = "preview" THEN "persist" ELSE "compare"
             pos == Pos(Len(fills))
  <1>1. /\ job.pc = "positions" /\ job' = [job EXCEPT !.pos = pos, !.pc = pc]
        /\ UNCHANGED <<fills, local, tasks, late, waiting, runs, active, restarts>>
        /\ faults' \in 0..MaxFaults
    BY Budget DEF ReadPosition, Unsaved
  <1>2. /\ job \in Jobs /\ job.run \in 0..Len(runs) /\ pc \in Steps \ {"idle"}
        /\ job.kind \in {"preview", "apply"}
    BY <1>1 DEF IInv, JobOK, Jobs, Steps
  <1>3. pos \in Positions
    <2>1. Len(fills) \in 0..Len(fills) /\ TablesOK
      BY DEF IInv, TablesOK
    <2> QED BY <2>1, PosType
  <1>5. pos = Pos(Len(fills)) /\ (pc = "persist" \/ pc = "compare")
        /\ (job.kind = "preview" <=> pc = "persist")
    OBVIOUS
  <1> HIDE DEF pc, pos
  <1>4. /\ job' \in Jobs /\ job'.pc = pc /\ job'.pos = pos
        /\ job'.run = job.run /\ SameJob
    BY <1>1, <1>2, <1>3 DEF Jobs, SameJob
  <1>6. TablesOK' /\ JobOK' /\ RunSeen' /\ ActiveRunIsTrue'
    BY <1>1, <1>2, <1>4, JobMoves
  <1>7. JobKind'
    BY <1>1, <1>2, <1>4, <1>5 DEF IInv, JobKind, SameJob
  <1>8. JobSeen'
    BY <1>1, <1>4, <1>5 DEF IInv, JobSeen, SameJob, Pos
  <1> QED BY <1>6, <1>7, <1>8 DEF IInv

LEMMA CompareKeeps == ASSUME IInv, Compare PROVE IInv'
  <1>1. /\ job.pc = "compare"
        /\ UNCHANGED <<fills, local, tasks, late, waiting, runs, active, restarts>>
        /\ faults' \in 0..MaxFaults
    BY Budget DEF Compare, Unsaved
  <1>2. CASE ~SameHash(job.run)
    <2>1. job' = NoJob
      BY <1>2 DEF Compare
    <2>2. TablesOK'
      BY <1>1 DEF IInv, TablesOK
    <2> QED BY <1>1, <2>1, <2>2, JobDone, RunsKept DEF IInv
  <1>3. CASE SameHash(job.run)
    <2>1. job' = [job EXCEPT !.pc = "activate"]
      BY <1>3 DEF Compare
    <2>2. job \in Jobs /\ job.run \in 0..Len(runs) /\ "activate" \in Steps \ {"idle"}
      BY DEF IInv, JobOK, Jobs, Steps
    <2>3. /\ job' \in Jobs /\ job'.pc = "activate" /\ job'.pos = job.pos
          /\ job'.run = job.run /\ SameJob
      BY <2>1, <2>2 DEF Jobs, SameJob
    <2>4. TablesOK' /\ JobOK' /\ RunSeen' /\ ActiveRunIsTrue'
      BY <1>1, <2>2, <2>3, JobMoves
    <2>5. JobKind'
      BY <1>1, <2>3 DEF IInv, JobKind, SameJob
    <2>6. JobSeen'
      BY <1>1, <1>3, <2>3 DEF IInv, JobSeen, SameJob, SameHash, Pos
    <2> QED BY <2>4, <2>5, <2>6 DEF IInv
  <1> QED BY <1>2, <1>3

\* A job that ends writes its task, if it has one.
LEMMA EndKeeps ==
  ASSUME IInv, NEW s \in Statuses, NEW r \in 0..MaxRuns, job.pc # "idle",
         Ended(s, r), job' = NoJob,
         UNCHANGED <<fills, local, waiting, runs, active, restarts>>,
         late' \subseteq DOMAIN tasks, faults' \in 0..MaxFaults
  PROVE  IInv'
  <1>1. TablesOK /\ DOMAIN tasks = 1..Len(tasks)
    BY DEF IInv, TablesOK
  <1>2. tasks' \in Seq(Tasks) /\ Len(tasks') = Len(tasks)
    <2>1. CASE job.kind = "preview"
      <3>1. /\ job.task \in 1..Len(tasks)
            /\ tasks' = [tasks EXCEPT ![job.task] =
                            [status |-> s, run |-> r, slot |-> FALSE]]
        BY <2>1 DEF IInv, JobKind, Ended
      <3> QED BY <3>1, <1>1, TaskTable
    <2>2. CASE job.kind # "preview"
      BY <2>2, <1>1 DEF Ended, TablesOK
    <2> QED BY <2>1, <2>2
  <1>3. DOMAIN tasks' = DOMAIN tasks
    BY <1>1, <1>2
  <1>4. TablesOK'
    BY <1>1, <1>2, <1>3 DEF TablesOK
  <1> QED BY <1>4, JobDone, RunsKept DEF IInv

LEMMA JobFailsKeeps == ASSUME IInv, JobFails PROVE IInv'
  <1>1. "failed" \in Statuses /\ 0 \in 0..MaxRuns
    BY Ranges DEF Statuses
  <1>2. job.pc # "idle" /\ faults' \in 0..MaxFaults
    BY Budget DEF JobFails, Refused, OrdersAsked
  <1>3. late' \subseteq DOMAIN tasks
    <2>1. late \subseteq DOMAIN tasks
      BY DEF IInv, TablesOK
    <2>2. OrdersAsked => job.task \in DOMAIN tasks
      BY DEF OrdersAsked, IInv, JobKind, TablesOK
    <2> QED BY <2>1, <2>2 DEF JobFails
  <1> QED BY <1>1, <1>2, <1>3, EndKeeps DEF JobFails

\* The row of a task that has ended is written once more.
LEMMA LateProgressKeeps == ASSUME IInv, LateProgress PROVE IInv'
  <1> PICK t \in late : /\ tasks' = [tasks EXCEPT ![t].status = "running"]
                        /\ late' = late \ {t}
    BY DEF LateProgress
  <1>1. UNCHANGED <<fills, local, waiting, runs, active, job, faults, restarts>>
    BY DEF LateProgress
  <1>2. /\ TablesOK /\ t \in 1..Len(tasks) /\ DOMAIN tasks = 1..Len(tasks)
        /\ Len(tasks) \in Nat
    BY DEF IInv, TablesOK
  <1>3. tasks' \in Seq(Tasks) /\ Len(tasks') = Len(tasks)
    <2>1. "running" \in Statuses /\ 0 \in 0..MaxRuns
      BY Ranges DEF Statuses, Active
    <2> QED BY <1>2, <2>1, TaskTable
  <1>4. DOMAIN tasks' = DOMAIN tasks
    BY <1>2, <1>3
  <1>5. TablesOK'
    BY <1>1, <1>2, <1>3, <1>4 DEF TablesOK
  <1> QED BY <1>1, <1>2, <1>3, <1>5, JobKept, RunsKept DEF IInv

LEMMA SucceedKeeps == ASSUME IInv, Succeed PROVE IInv'
  <1>1. "succeeded" \in Statuses /\ job.run \in 0..MaxRuns /\ job.pc # "idle"
        /\ faults' \in 0..MaxFaults /\ late' \subseteq DOMAIN tasks
    BY Budget DEF Statuses, Succeed, IInv, JobOK, TablesOK
  <1> QED BY <1>1, EndKeeps DEF Succeed

LEMMA PersistKeeps == ASSUME IInv, Persist PROVE IInv'
  <1>1. /\ job.pc = "persist" /\ job.kind = "preview"
        /\ UNCHANGED <<fills, local, tasks, late, waiting, active, restarts>>
        /\ faults' \in 0..MaxFaults
    BY Budget DEF Persist, IInv, JobKind
  <1>2. job \in Jobs /\ "succeed" \in Steps \ {"idle"} /\ job.pos \in Positions
    BY DEF IInv, JobOK, Jobs, Steps
  <1>3. CASE \E r \in DOMAIN runs : /\ SameHash(r) /\ UNCHANGED runs
                                   /\ job' = [job EXCEPT !.run = r, !.pc = "succeed"]
    <2> PICK r \in DOMAIN runs : UNCHANGED runs /\ job' = [job EXCEPT !.run = r,
                                                                  !.pc = "succeed"]
      BY <1>3
    <2>1. r \in 0..Len(runs) /\ r \in 0..MaxRuns
      BY Ranges DEF IInv, TablesOK
    <2>2. job' \in Jobs /\ job'.pc = "succeed" /\ job'.run = r /\ SameJob
      BY <1>2, <2>1 DEF Jobs, SameJob
    <2>3. TablesOK' /\ JobOK' /\ RunSeen' /\ ActiveRunIsTrue'
      BY <1>1, <1>2, <2>1, <2>2, JobMoves
    <2> QED BY <1>1, <2>2, <2>3 DEF IInv, JobKind, JobSeen, SameJob
  <1>4. CASE /\ Len(runs) < MaxRuns /\ runs' = Append(runs, Found("previewed"))
             /\ job' = [job EXCEPT !.run = Len(runs) + 1, !.pc = "succeed"]
    <2>1. /\ runs \in Seq(Results) /\ Len(runs) \in Nat /\ active \in 0..Len(runs)
          /\ Found("previewed") \in Results
          /\ Found("previewed").from = job.from /\ Found("previewed").upto = job.upto
          /\ Found("previewed").pos = job.pos
          /\ Found("previewed").status = "previewed"
      BY <1>2 DEF IInv, TablesOK, Found, Results, Jobs
    <2>2. /\ runs' \in Seq(Results) /\ Len(runs') = Len(runs) + 1
          /\ \A r \in 1..Len(runs) : runs'[r] = runs[r]
          /\ runs'[Len(runs) + 1] = Found("previewed")
      BY <1>4, <2>1
    <2>3. TablesOK'
      BY <1>1, <1>4, <2>1, <2>2, Ranges DEF IInv, TablesOK
    <2>4. /\ job'.pc = "succeed" /\ job'.pos = job.pos /\ job'.run = Len(runs) + 1
          /\ job'.kind = job.kind /\ job'.task = job.task
          /\ job'.from = job.from /\ job'.upto = job.upto
      BY <1>2, <1>4 DEF Jobs
    <2>5. Len(runs) + 1 \in 0..MaxRuns
      BY <1>4, <2>1, Ranges
    <2>6. job' \in Jobs
      BY <1>2, <1>4, <2>5 DEF Jobs
    <2>7. /\ (job.kind = "none" <=> job.pc = "idle") /\ job.task \in 0..Len(tasks)
          /\ job.from \in 1..Len(fills) + 1 /\ job.upto \in 0..Len(fills)
      BY DEF IInv, JobOK
    <2>8. JobOK'
      BY <1>1, <2>1, <2>2, <2>4, <2>6, <2>7 DEF JobOK, Jobs
    <2>9. JobKind' /\ JobSeen'
      BY <1>1, <2>4 DEF IInv, JobKind, JobSeen
    <2>10. RunSeen'
      <3> SUFFICES ASSUME NEW r \in 1..Len(runs')
                   PROVE  /\ runs'[r].from <= Len(fills) + 1
                          /\ runs'[r].upto <= Len(fills)
                          /\ runs'[r].upto = Len(fills) =>
                               runs'[r].pos = IF runs'[r].upto = 0 THEN 0
                                              ELSE fills[runs'[r].upto].after
        BY <1>1 DEF RunSeen, Pos
      <3>1. CASE r \in 1..Len(runs)
        BY <3>1, <2>2 DEF IInv, RunSeen, Pos
      <3>2. CASE r = Len(runs) + 1
        <4>1. runs'[r].from = job.from /\ runs'[r].upto = job.upto
              /\ runs'[r].pos = job.pos
          BY <3>2, <2>1, <2>2
        <4>2. job.upto = Len(fills) => job.pos = Pos(job.upto)
          BY <1>1 DEF IInv, JobSeen
        <4>3. Len(fills) \in Nat /\ job.from <= Len(fills) + 1
              /\ job.upto <= Len(fills)
          BY <2>7 DEF IInv, TablesOK
        <4> QED BY <4>1, <4>2, <4>3 DEF Pos
      <3> QED BY <3>1, <3>2, <2>1, <2>2
    <2>11. ActiveRunIsTrue'
      <3>1. \A r \in DOMAIN runs' : runs'[r].status = "applied" <=> r = active
        <4> SUFFICES ASSUME NEW r \in 1..Len(runs) + 1
                     PROVE  runs'[r].status = "applied" <=> r = active
          BY <2>2
        <4>1. CASE r \in 1..Len(runs)
          BY <4>1, <2>1, <2>2 DEF IInv, ActiveRunIsTrue
        <4>2. CASE r = Len(runs) + 1
          BY <4>2, <2>1, <2>2
        <4> QED BY <4>1, <4>2, <2>1
      <3>2. active # 0 => runs'[active] = runs[active]
        BY <2>1, <2>2
      <3>3. active' = active /\ fills' = fills
        BY <1>1
      <3> QED BY <3>1, <3>2, <3>3 DEF IInv, ActiveRunIsTrue, Initial, Pos
    <2> QED BY <2>3, <2>8, <2>9, <2>10, <2>11 DEF IInv
  <1> QED BY <1>3, <1>4 DEF Persist

\* The run that is activated is one whose position was true: the apply job
\* found the same with a scope at whose end it had begun.
LEMMA ActivateKeeps == ASSUME IInv, Activate PROVE IInv'
  <1>1. /\ job.pc = "activate" /\ job.kind = "apply"
        /\ runs' = Activated(job.run) /\ active' = job.run /\ job' = NoJob
        /\ UNCHANGED <<fills, local, tasks, late, waiting, restarts>>
        /\ faults' \in 0..MaxFaults
    BY Budget DEF Activate, IInv, JobKind
  <1>2. /\ job.run \in 1..Len(runs) /\ runs \in Seq(Results) /\ Len(runs) \in Nat
        /\ DOMAIN runs = 1..Len(runs)
    BY <1>1 DEF IInv, JobKind, TablesOK
  <1>3. \A r \in 1..Len(runs) :
          /\ runs'[r] \in Results
          /\ runs'[r].from = runs[r].from /\ runs'[r].upto = runs[r].upto
          /\ runs'[r].pos = runs[r].pos
          /\ runs'[r].status = "applied" <=> r = job.run
    <2> SUFFICES ASSUME NEW r \in 1..Len(runs)
                 PROVE  /\ runs'[r] \in Results
                        /\ runs'[r].from = runs[r].from
                        /\ runs'[r].upto = runs[r].upto
                        /\ runs'[r].pos = runs[r].pos
                        /\ runs'[r].status = "applied" <=> r = job.run
      OBVIOUS
    <2> DEFINE old == runs[r].status
               new == IF r = job.run THEN "applied"
                      ELSE IF old = "applied" THEN "superseded" ELSE old
    <2>1. runs[r] \in Results
      BY <1>2
    <2>2. runs'[r] = [runs[r] EXCEPT !.status = new]
      BY <1>1, <1>2 DEF Activated
    <2>3. old \in {"previewed", "applied", "superseded"}
      BY <2>1 DEF Results
    <2>4. /\ new \in {"previewed", "applied", "superseded"}
          /\ new = "applied" <=> r = job.run
      BY <2>3
    <2> HIDE DEF old, new
    <2> QED BY <2>1, <2>2, <2>4 DEF Results
  <1>4. runs' \in Seq(Results) /\ Len(runs') = Len(runs)
    <2>1. runs' \in [1..Len(runs) -> Results]
      BY <1>1, <1>2, <1>3 DEF Activated
    <2> QED BY <2>1, <1>2
  <1>5. TablesOK'
    BY <1>1, <1>2, <1>4 DEF IInv, TablesOK
  <1>6. RunSeen'
    BY <1>1, <1>3, <1>4 DEF IInv, RunSeen, Pos
  <1>7. ActiveRunIsTrue'
    <2>1. /\ runs'[job.run].from = job.from /\ runs'[job.run].upto = job.upto
          /\ runs'[job.run].pos = Pos(job.upto)
      BY <1>1, <1>2, <1>3 DEF IInv, JobSeen, SameHash
    <2>2. job.upto \in 0..Len(fills) /\ job.from - 1 \in 0..Len(fills)
      BY DEF IInv, JobOK, TablesOK
    <2>3. Pos(job.upto) \in Int /\ Pos(job.from - 1) \in Int
      BY <2>2, PosType DEF IInv
    <2>4. Pos(job.upto) - (Pos(job.upto) - Pos(job.from - 1)) = Pos(job.from - 1)
      BY <2>3
    <2>5. active' = job.run /\ fills' = fills
      BY <1>1
    <2>6. \A r \in DOMAIN runs' : runs'[r].status = "applied" <=> r = active'
      BY <1>3, <1>4, <2>5
    <2> QED BY <2>1, <2>4, <2>5, <2>6 DEF ActiveRunIsTrue, Initial, Pos
  <1> QED BY <1>1, <1>5, <1>6, <1>7, JobDone DEF IInv

(***************************************************************************)
(* The theorems.                                                           *)
(***************************************************************************)

LEMMA Start == Init => IInv
  <1> SUFFICES ASSUME Init PROVE IInv
    OBVIOUS
  <1>1. TablesOK
    BY Ranges DEF Init, TablesOK
  <1>2. JobOK /\ JobKind /\ JobSeen
    BY Ranges DEF Init, JobOK, JobKind, JobSeen, NoJob, Steps
  <1>3. RunSeen /\ ActiveRunIsTrue
    BY DEF Init, RunSeen, ActiveRunIsTrue
  <1> QED BY <1>1, <1>2, <1>3 DEF IInv

LEMMA Stutter == ASSUME IInv, UNCHANGED vars PROVE IInv'
  <1>1. UNCHANGED <<fills, local, tasks, late, waiting, runs, active, job, faults,
                   restarts>>
    BY DEF vars
  <1>2. TablesOK' /\ Len(tasks) \in Nat
    BY <1>1 DEF IInv, TablesOK
  <1> QED BY <1>1, <1>2, JobKept, RunsKept DEF IInv

LEMMA Step == IInv /\ [Next]_vars => IInv'
  <1> SUFFICES ASSUME IInv, [Next]_vars PROVE IInv'
    OBVIOUS
  <1>1. CASE Trade
    BY <1>1, TradeKeeps
  <1>2. CASE Ingest
    BY <1>2, IngestKeeps
  <1>3. CASE RequestPreview
    BY <1>3, RequestKeeps
  <1>4. CASE \E t \in waiting : \E from \in 1..Len(fills) + 1 :
               BeginPreview(t, from)
    BY <1>4, BeginPreviewKeeps
  <1>5. CASE \E r \in DOMAIN runs : BeginApply(r)
    <2>1. DOMAIN runs = 1..Len(runs)
      BY DEF IInv, TablesOK
    <2> QED BY <1>5, <2>1, BeginApplyKeeps
  <1>6. CASE JobStep
    BY <1>6, ReadFillsKeeps, ReadPositionKeeps, JobFailsKeeps, PersistKeeps,
       SucceedKeeps, CompareKeeps, ActivateKeeps DEF JobStep
  <1>7. CASE Restart
    BY <1>7, RestartKeeps
  <1>8. CASE LateProgress
    BY <1>8, LateProgressKeeps
  <1>9. CASE UNCHANGED vars
    BY <1>9, Stutter
  <1> QED BY <1>1, <1>2, <1>3, <1>4, <1>5, <1>6, <1>7, <1>8, <1>9 DEF Next

\* Every task, run and job is well formed: the web process never loses the
\* lock, and never starts a job for a task or a run that is not there.
THEOREM TypeCorrect == Spec => []TypeOK
  <1>1. IInv => TypeOK
    BY DEF IInv, TypeOK
  <1> QED BY Start, Step, <1>1, PTL DEF Spec

\* Whatever trades and fails meanwhile, the run that apply() activates is the
\* only applied one, and the position it starts from is the true one, though
\* the position was read after the fills and may be wrong in any preview.
THEOREM ActiveRunTrue == Spec => []ActiveRunIsTrue
  <1>1. IInv => ActiveRunIsTrue
    BY DEF IInv
  <1> QED BY Start, Step, <1>1, PTL DEF Spec

(***************************************************************************)
(* Least numbers, smallest sets and sums over finite sets.                 *)
(***************************************************************************)

\* a set of numbers that is not empty has a least one
LEMMA LeastNumber ==
  ASSUME NEW S \in SUBSET Nat, S # {}
  PROVE  \E n \in S : \A m \in S : n <= m
  <1> DEFINE R == OpToRel(<, Nat)
  <1>1. IsWellFoundedOn(R, Nat)
    BY NatLessThanWellFounded
  <1>2. \A m, n \in Nat : m < n => <<m, n>> \in R
    BY DEF OpToRel
  <1> HIDE DEF R
  <1>3. PICK n \in S : \A m \in S : ~(<<m, n>> \in R)
    BY <1>1, WFMin
  <1>4. \A m \in S : ~(m < n) /\ m \in Nat /\ n \in Nat
    BY <1>2, <1>3
  <1> QED BY <1>3, <1>4

\* finite sets that g gives a number for each member of
FiniteParts(g) == {S \in SUBSET DOMAIN g : IsFiniteSet(S)}
Weighs(g) == \A x \in DOMAIN g : g[x] \in Int

Some(S) == CHOOSE a \in S : TRUE
SumOf(g, S) == SumFunctionOnSet(g, S)

\* f sums g over every part of S
Sums(f, g, S) == f = [T \in SUBSET S |-> IF T = {} THEN 0
                                         ELSE g[Some(T)] + f[T \ {Some(T)}]]

\* The community module's sum of a weighted set is this one.
LEMMA SumIsFold ==
  ASSUME NEW g, NEW S
  PROVE  SumOf(g, S) = (CHOOSE f : Sums(f, g, S))[S]
  BY DEF SumOf, SumFunctionOnSet, FoldFunctionOnSet, MapThenFoldSet, Sums, Some

\* a part is finite too, and without one of its members it is smaller
LEMMA PartOf ==
  ASSUME NEW g, NEW S \in FiniteParts(g)
  PROVE  /\ Cardinality(S) \in Nat
         /\ S # {} => Some(S) \in S /\ Some(S) \in DOMAIN g
         /\ \A T \in SUBSET S : T \in FiniteParts(g)
         /\ \A a \in S : /\ S \ {a} \in FiniteParts(g) /\ a \in DOMAIN g
                         /\ Cardinality(S \ {a}) = Cardinality(S) - 1
  <1>1. IsFiniteSet(S) /\ S \subseteq DOMAIN g
    BY DEF FiniteParts
  <1>2. \A T \in SUBSET S : T \in FiniteParts(g)
    BY <1>1, FS_Subset DEF FiniteParts
  <1>3. \A a \in S : Cardinality(S \ {a}) = Cardinality(S) - 1
    BY <1>1, FS_RemoveElement
  <1> QED BY <1>1, <1>2, <1>3, FS_CardinalityType DEF Some

\* of sets that have a property one is smallest
LEMMA SmallestSet ==
  ASSUME NEW g, NEW Bad \in SUBSET FiniteParts(g), Bad # {}
  PROVE  \E S \in Bad : \A T \in FiniteParts(g) : Cardinality(T) < Cardinality(S) => T \notin Bad
  <1>1. PICK n \in {Cardinality(S) : S \in Bad} : \A m \in {Cardinality(S) : S \in Bad} : n <= m
    <2>1. \A S \in Bad : Cardinality(S) \in Nat
      BY PartOf
    <2>2. {Cardinality(S) : S \in Bad} \in SUBSET Nat /\ {Cardinality(S) : S \in Bad} # {}
      BY <2>1
    <2> QED BY <2>2, LeastNumber
  <1>2. PICK S \in Bad : n = Cardinality(S)
    BY <1>1
  <1>3. ASSUME NEW T \in Bad, Cardinality(T) < Cardinality(S)
        PROVE  FALSE
    <2>1. Cardinality(T) \in Nat /\ Cardinality(S) \in Nat
      BY PartOf
    <2>2. Cardinality(S) <= Cardinality(T)
      BY <1>1, <1>2
    <2> QED BY <1>3, <2>1, <2>2
  <1> QED BY <1>3

\* two functions that sum g agree where both are defined
LEMMA SumsUnique ==
  ASSUME NEW g, NEW A, NEW B, NEW f, NEW h, Sums(f, g, A), Sums(h, g, B)
  PROVE  \A S \in FiniteParts(g) : S \subseteq A /\ S \subseteq B => f[S] = h[S]
  <1> DEFINE Bad == {S \in FiniteParts(g) : S \subseteq A /\ S \subseteq B /\ f[S] # h[S]}
  <1>1. SUFFICES ASSUME Bad # {} PROVE FALSE
    OBVIOUS
  <1>2. PICK S \in Bad : \A T \in FiniteParts(g) : Cardinality(T) < Cardinality(S) => T \notin Bad
    BY <1>1, SmallestSet
  <1>3. /\ f[S] = IF S = {} THEN 0 ELSE g[Some(S)] + f[S \ {Some(S)}]
        /\ h[S] = IF S = {} THEN 0 ELSE g[Some(S)] + h[S \ {Some(S)}]
    <2>1. S \in SUBSET A /\ S \in SUBSET B
      BY <1>2
    <2> QED BY <2>1, Zenon DEF Sums
  <1>4. S # {}
    BY <1>2, <1>3
  <1>5. S \ {Some(S)} \in FiniteParts(g) /\ Cardinality(S \ {Some(S)}) < Cardinality(S)
    <2>1. Some(S) \in S /\ S \ {Some(S)} \in FiniteParts(g)
          /\ Cardinality(S \ {Some(S)}) = Cardinality(S) - 1 /\ Cardinality(S) \in Nat
      BY <1>2, <1>4, PartOf
    <2> QED BY <2>1
  <1>6. f[S \ {Some(S)}] = h[S \ {Some(S)}]
    BY <1>2, <1>5
  <1> QED BY <1>2, <1>3, <1>4, <1>6

\* there is one for every finite set
LEMMA SumsExists ==
  ASSUME NEW g, Weighs(g)
  PROVE  \A S \in FiniteParts(g) : \E f \in [SUBSET S -> Int] : Sums(f, g, S)
  <1> DEFINE Bad == {S \in FiniteParts(g) : ~\E f \in [SUBSET S -> Int] : Sums(f, g, S)}
  <1>1. SUFFICES ASSUME Bad # {} PROVE FALSE
    OBVIOUS
  <1>2. PICK S \in Bad : \A T \in FiniteParts(g) : Cardinality(T) < Cardinality(S) => T \notin Bad
    BY <1>1, SmallestSet
  <1> DEFINE G(T) == CHOOSE f \in [SUBSET T -> Int] : Sums(f, g, T)
             F(T) == IF T = {} THEN 0 ELSE g[Some(T)] + G(T \ {Some(T)})[T \ {Some(T)}]
             h == [T \in SUBSET S |-> F(T)]
  <1>3. ASSUME NEW T \in FiniteParts(g), Cardinality(T) < Cardinality(S)
        PROVE  G(T) \in [SUBSET T -> Int] /\ Sums(G(T), g, T)
    BY <1>2, <1>3
  <1> HIDE DEF G
  <1>4. ASSUME NEW T \in SUBSET S, T # {}
        PROVE  /\ Some(T) \in T /\ g[Some(T)] \in Int
               /\ T \ {Some(T)} \in FiniteParts(g) /\ T \in FiniteParts(g)
               /\ Cardinality(T \ {Some(T)}) < Cardinality(S)
    <2>1. T \in FiniteParts(g) /\ S \in FiniteParts(g)
      BY <1>2, PartOf
    <2>2. Some(T) \in T /\ g[Some(T)] \in Int /\ T \ {Some(T)} \in FiniteParts(g)
      BY <2>1, <1>4, PartOf DEF Weighs
    <2>3. T \ {Some(T)} \in SUBSET (S \ {Some(T)})
      OBVIOUS
    <2>4. Cardinality(S \ {Some(T)}) = Cardinality(S) - 1 /\ S \ {Some(T)} \in FiniteParts(g)
          /\ Cardinality(S) \in Nat
      BY <2>1, <2>2, PartOf
    <2>5. Cardinality(T \ {Some(T)}) <= Cardinality(S \ {Some(T)})
      BY <2>3, <2>4, FS_Subset DEF FiniteParts
    <2>6. Cardinality(T \ {Some(T)}) \in Nat
      BY <2>2, PartOf
    <2> QED BY <2>1, <2>2, <2>4, <2>5, <2>6
  <1>5. h \in [SUBSET S -> Int]
    <2>1. ASSUME NEW T \in SUBSET S PROVE F(T) \in Int
      <3>1. CASE T = {}
        BY <3>1
      <3>2. CASE T # {}
        <4> PICK U : U = T \ {Some(T)}
          OBVIOUS
        <4>1. U \in FiniteParts(g) /\ Cardinality(U) < Cardinality(S)
          BY <3>2, <1>4
        <4>2. G(U) \in [SUBSET U -> Int] /\ U \in SUBSET U
          BY <4>1, <1>3
        <4>3. G(U)[U] \in Int
          BY <4>2
        <4>4. G(T \ {Some(T)})[T \ {Some(T)}] \in Int
          BY <4>3
        <4> QED BY <3>2, <4>4, <1>4
      <3> QED BY <3>1, <3>2
    <2> QED BY <2>1
  <1>6. \A T \in FiniteParts(g) : T \subseteq S /\ Cardinality(T) < Cardinality(S) => F(T) = G(T)[T]
    <2> SUFFICES ASSUME NEW T \in FiniteParts(g), T \subseteq S, Cardinality(T) < Cardinality(S)
                 PROVE  F(T) = G(T)[T]
      OBVIOUS
    <2>1. Sums(G(T), g, T)
      BY <1>3
    <2>2. G(T)[T] = IF T = {} THEN 0 ELSE g[Some(T)] + G(T)[T \ {Some(T)}]
      <3>1. T \in SUBSET T
        OBVIOUS
      <3> QED BY <2>1, <3>1, Zenon DEF Sums
    <2>3. CASE T # {}
      <3>1. T \ {Some(T)} \in FiniteParts(g) /\ Cardinality(T \ {Some(T)}) < Cardinality(S)
        BY <2>3, <1>4
      <3>2. G(T)[T \ {Some(T)}] = G(T \ {Some(T)})[T \ {Some(T)}]
        <4> PICK U : U = T \ {Some(T)}
          OBVIOUS
        <4>1. U \in FiniteParts(g) /\ U \subseteq T /\ U \subseteq U /\ Sums(G(U), g, U)
          BY <3>1, <1>3
        <4>2. G(T)[U] = G(U)[U]
          BY <2>1, <4>1, SumsUnique
        <4> QED BY <4>2
      <3> QED BY <2>2, <2>3, <3>2
    <2> QED BY <2>2, <2>3
  <1>7. Sums(h, g, S)
    <2>1. ASSUME NEW T \in SUBSET S
          PROVE  F(T) = IF T = {} THEN 0 ELSE g[Some(T)] + h[T \ {Some(T)}]
      <3>1. CASE T # {}
        <4>1. h[T \ {Some(T)}] = F(T \ {Some(T)})
          OBVIOUS
        <4>2. F(T \ {Some(T)}) = G(T \ {Some(T)})[T \ {Some(T)}]
          BY <1>4, <1>6, <3>1
        <4> HIDE DEF h
        <4> QED BY <3>1, <4>1, <4>2
      <3> QED BY <3>1
    <2> HIDE DEF F
    <2>2. h = [T \in SUBSET S |-> IF T = {} THEN 0 ELSE g[Some(T)] + h[T \ {Some(T)}]]
      BY <2>1, Zenon
    <2> QED BY <2>2 DEF Sums
  <1> HIDE DEF h
  <1> QED BY <1>2, <1>5, <1>7

\* the sum by the members, as they are chosen
LEMMA SumByChoice ==
  ASSUME NEW g, Weighs(g), NEW S \in FiniteParts(g)
  PROVE  /\ SumOf(g, S) \in Int
         /\ S = {} => SumOf(g, S) = 0
         /\ S # {} => SumOf(g, S) = g[Some(S)] + SumOf(g, S \ {Some(S)})
  <1> DEFINE G(T) == CHOOSE f : Sums(f, g, T)
  <1>1. \A T \in FiniteParts(g) : \E f : Sums(f, g, T) /\ f \in [SUBSET T -> Int]
    BY SumsExists
  <1>2. \A T \in FiniteParts(g) : Sums(G(T), g, T) /\ SumOf(g, T) = G(T)[T]
    BY <1>1, SumIsFold
  <1> HIDE DEF G
  <1>3. \A T \in FiniteParts(g) : G(T)[T] \in Int
    <2> SUFFICES ASSUME NEW T \in FiniteParts(g) PROVE G(T)[T] \in Int
      OBVIOUS
    <2>1. PICK f \in [SUBSET T -> Int] : Sums(f, g, T)
      BY SumsExists
    <2>2. f[T] = G(T)[T]
      BY <1>2, <2>1, SumsUnique
    <2> QED BY <2>1, <2>2
  <1>4. G(S)[S] = IF S = {} THEN 0 ELSE g[Some(S)] + G(S)[S \ {Some(S)}]
    <2>1. S \in SUBSET S /\ Sums(G(S), g, S)
      BY <1>2
    <2> QED BY <2>1, Zenon DEF Sums
  <1>5. CASE S # {}
    <2>1. S \ {Some(S)} \in FiniteParts(g)
      BY <1>5, PartOf
    <2>2. G(S)[S \ {Some(S)}] = G(S \ {Some(S)})[S \ {Some(S)}]
      BY <1>2, <2>1, SumsUnique
    <2> QED BY <1>2, <1>3, <1>4, <1>5, <2>1, <2>2
  <1> QED BY <1>2, <1>3, <1>4, <1>5

\* the sum by any of the members
LEMMA SumByMember ==
  ASSUME NEW g, Weighs(g)
  PROVE  \A S \in FiniteParts(g) : \A a \in S : SumOf(g, S) = g[a] + SumOf(g, S \ {a})
  <1> DEFINE Bad == {S \in FiniteParts(g) : \E a \in S : SumOf(g, S) # g[a] + SumOf(g, S \ {a})}
  <1>1. SUFFICES ASSUME Bad # {} PROVE FALSE
    OBVIOUS
  <1>2. PICK S \in Bad : \A T \in FiniteParts(g) : Cardinality(T) < Cardinality(S) => T \notin Bad
    BY <1>1, SmallestSet
  <1>3. PICK a \in S : SumOf(g, S) # g[a] + SumOf(g, S \ {a})
    BY <1>2
  <1> DEFINE c == Some(S)
  <1>4. c \in S /\ SumOf(g, S) = g[c] + SumOf(g, S \ {c})
    BY <1>2, <1>3, SumByChoice, PartOf
  <1> HIDE DEF c
  <1>5. a # c
    BY <1>3, <1>4
  <1>6. /\ S \ {a} \in FiniteParts(g) /\ S \ {c} \in FiniteParts(g)
        /\ Cardinality(S \ {a}) = Cardinality(S) - 1 /\ Cardinality(S \ {c}) = Cardinality(S) - 1
        /\ Cardinality(S) \in Nat /\ g[a] \in Int /\ g[c] \in Int
    BY <1>2, <1>3, <1>4, PartOf DEF Weighs
  <1>7. S \ {a} \notin Bad /\ S \ {c} \notin Bad
    <2>1. Cardinality(S \ {a}) < Cardinality(S) /\ Cardinality(S \ {c}) < Cardinality(S)
      BY <1>6
    <2> QED BY <1>2, <1>6, <2>1
  <1>8. /\ SumOf(g, S \ {c}) = g[a] + SumOf(g, (S \ {c}) \ {a})
        /\ SumOf(g, S \ {a}) = g[c] + SumOf(g, (S \ {a}) \ {c})
    BY <1>3, <1>4, <1>5, <1>6, <1>7
  <1>9. (S \ {c}) \ {a} = (S \ {a}) \ {c} /\ (S \ {a}) \ {c} \in FiniteParts(g)
    <2>1. (S \ {a}) \ {c} \in FiniteParts(g)
      BY <1>6, PartOf
    <2> QED BY <2>1
  <1>10. SumOf(g, (S \ {a}) \ {c}) \in Int
    BY <1>9, SumByChoice
  <1>11. PICK n \in Int, i \in Int, j \in Int :
            n = SumOf(g, (S \ {a}) \ {c}) /\ i = g[a] /\ j = g[c]
    BY <1>6, <1>10
  <1>12. SumOf(g, S \ {c}) = i + n /\ SumOf(g, S \ {a}) = j + n
    BY <1>8, <1>9, <1>11, Zenon
  <1>13. SumOf(g, S) = j + (i + n) /\ SumOf(g, S) # i + (j + n)
    BY <1>3, <1>4, <1>11, <1>12, Zenon
  <1> QED BY <1>13

\* a new member adds its number
LEMMA SumAdd ==
  ASSUME NEW g, Weighs(g), NEW S \in FiniteParts(g), NEW a \in DOMAIN g, a \notin S
  PROVE  /\ S \cup {a} \in FiniteParts(g) /\ SumOf(g, S) \in Int
         /\ SumOf(g, S \cup {a}) = SumOf(g, S) + g[a]
  <1>1. S \cup {a} \in FiniteParts(g)
    BY FS_AddElement DEF FiniteParts
  <1>2. (S \cup {a}) \ {a} = S
    OBVIOUS
  <1>3. SumOf(g, S \cup {a}) = g[a] + SumOf(g, S)
    <2>1. a \in S \cup {a}
      OBVIOUS
    <2>2. SumOf(g, S \cup {a}) = g[a] + SumOf(g, (S \cup {a}) \ {a})
      BY <1>1, <2>1, SumByMember
    <2> QED BY <1>2, <2>2, Zenon
  <1>4. SumOf(g, S) \in Int /\ g[a] \in Int
    BY SumByChoice DEF Weighs
  <1>5. g[a] + SumOf(g, S) = SumOf(g, S) + g[a]
    BY <1>4
  <1> QED BY <1>1, <1>3, <1>4, <1>5

\* Nothing sums to nothing.
LEMMA SumOfNone ==
  ASSUME NEW g, Weighs(g)
  PROVE  {} \in FiniteParts(g) /\ SumOf(g, {}) = 0
  <1>1. {} \in FiniteParts(g)
    BY FS_EmptySet DEF FiniteParts
  <1> QED BY <1>1, SumByChoice

\* a sequence as a function, and one with a member more
LEMMA FunctionIsSeq ==
  ASSUME NEW n \in Nat, NEW S, NEW s \in [1..n -> S]
  PROVE  s \in Seq(S) /\ Len(s) = n /\ DOMAIN s = 1..n
  <1>1. s \in Seq(S)
    BY SeqDef
  <1>2. Len(s) \in Nat /\ DOMAIN s = 1..Len(s) /\ DOMAIN s = 1..n
    BY <1>1, LenProperties
  <1>3. Len(s) = n
    BY <1>2
  <1> QED BY <1>1, <1>2, <1>3

\* Appending, place by place.
LEMMA AppendIs ==
  ASSUME NEW S, NEW s \in Seq(S), NEW n, n = Len(s), NEW x
  PROVE  Append(s, x) = [k \in 1..(n + 1) |-> IF k \in 1..n THEN s[k] ELSE x]
  <1>0. n \in Nat /\ s \in [1..n -> S]
    BY LenProperties
  <1> DEFINE T == S \cup {x}
             t == [k \in 1..(n + 1) |-> IF k \in 1..n THEN s[k] ELSE x]
  <1>1. s \in [1..n -> T] /\ x \in T /\ t \in [1..(n + 1) -> T]
    BY <1>0
  <1>2. /\ \A k \in 1..n : t[k] = s[k] /\ k \in 1..(n + 1)
        /\ t[n + 1] = x
    BY <1>0
  <1> HIDE DEF T, t
  <1>3. s \in Seq(T) /\ Len(s) = n
    BY <1>0, <1>1, FunctionIsSeq
  <1>4. n + 1 \in Nat
    BY <1>0
  <1>5. t \in Seq(T) /\ Len(t) = n + 1
    BY <1>1, <1>4, FunctionIsSeq
  <1>6. /\ Append(s, x) \in Seq(T) /\ Len(Append(s, x)) = n + 1
        /\ \A k \in 1..n : Append(s, x)[k] = s[k]
        /\ Append(s, x)[n + 1] = x
    BY <1>1, <1>3, AppendProperties
  <1>7. \A k \in 1..(n + 1) : Append(s, x)[k] = t[k]
    <2>1. \A k \in 1..(n + 1) : k \in 1..n \/ k = n + 1
      BY <1>0
    <2> QED BY <1>2, <1>6, <2>1
  <1>8. Append(s, x) = t
    BY <1>5, <1>6, <1>7, SeqEqual
  <1> QED BY <1>8 DEF t

(***************************************************************************)
(* Sets in ascending order.                                                *)
(***************************************************************************)

Ascends(s, S) ==
  /\ S \in SUBSET Nat /\ IsFiniteSet(S) /\ Cardinality(S) \in Nat
  /\ s \in [1..Cardinality(S) -> S]
  /\ \A j, k \in 1..Cardinality(S) : j < k => s[j] < s[k]

\* such a sequence leaves no member out
LEMMA AscendsOnto ==
  ASSUME NEW S, NEW s, Ascends(s, S)
  PROVE  \A x \in S : \E k \in 1..Cardinality(S) : s[k] = x
  <1> PICK n \in Nat : n = Cardinality(S)
    BY DEF Ascends
  <1>1. s \in [1..n -> S] /\ IsFiniteSet(S) /\ \A j \in 1..n : s[j] \in Nat
    BY DEF Ascends
  <1>2. \A j, k \in 1..n : s[j] = s[k] => j = k
    BY <1>1 DEF Ascends
  <1>3. s \in Injection(1..n, S)
    BY <1>1, <1>2 DEF Injection, IsInjective
  <1>4. Cardinality(1..n) = n
    BY FS_Interval
  <1>5. s \in Surjection(1..n, S)
    BY <1>1, <1>3, <1>4, FS_Injection
  <1> QED BY <1>5 DEF Surjection

\* and there is one only
LEMMA AscendsUnique ==
  ASSUME NEW S, NEW s, NEW t, Ascends(s, S), Ascends(t, S)
  PROVE  s = t
  <1> PICK n \in Nat : n = Cardinality(S)
    BY DEF Ascends
  <1>1. /\ s \in [1..n -> S] /\ \A j \in 1..n : s[j] \in Nat
        /\ t \in [1..n -> S] /\ \A j \in 1..n : t[j] \in Nat
        /\ \A j, k \in 1..n : j < k => s[j] < s[k] /\ t[j] < t[k]
    BY DEF Ascends
  <1>9. \A x \in S : (\E i \in 1..n : s[i] = x) /\ (\E i \in 1..n : t[i] = x)
    BY AscendsOnto
  <1> DEFINE Bad == {k \in 1..n : s[k] # t[k]}
  <1>2. SUFFICES ASSUME Bad # {} PROVE FALSE
    BY <1>1
  <1>3. PICK k \in Bad : \A m \in Bad : k <= m
    <2>1. Bad \in SUBSET Nat
      OBVIOUS
    <2> HIDE DEF Bad
    <2> QED BY <1>2, <2>1, LeastNumber
  <1>4. k \in 1..n /\ s[k] # t[k] /\ \A m \in 1..n : m < k => s[m] = t[m]
    BY <1>3
  <1>5. PICK i \in 1..n : t[i] = s[k]
    BY <1>1, <1>4, <1>9
  <1>6. PICK j \in 1..n : s[j] = t[k]
    BY <1>1, <1>4, <1>9
  <1>7. i > k /\ j > k
    BY <1>1, <1>4, <1>5, <1>6
  <1>8. t[k] < t[i] /\ s[k] < s[j]
    BY <1>1, <1>4, <1>7
  <1> QED BY <1>1, <1>4, <1>5, <1>6, <1>8

\* The order is what InOrder chooses.
LEMMA InOrderIs ==
  ASSUME NEW S, NEW s, Ascends(s, S)
  PROVE  InOrder(S) = s
  <1>1. \E t \in [1..Cardinality(S) -> S] : \A j, k \in DOMAIN t : j < k => t[j] < t[k]
    BY DEF Ascends
  <1>2. /\ InOrder(S) \in [1..Cardinality(S) -> S]
        /\ \A j, k \in DOMAIN InOrder(S) : j < k => InOrder(S)[j] < InOrder(S)[k]
    BY <1>1 DEF InOrder
  <1>3. Ascends(InOrder(S), S)
    BY <1>2 DEF Ascends
  <1> QED BY <1>3, AscendsUnique

\* a member greater than all comes last
LEMMA AscendsNext ==
  ASSUME NEW S, NEW s, Ascends(s, S), NEW x \in Nat, \A y \in S : y < x
  PROVE  /\ Ascends(Append(s, x), S \cup {x})
         /\ Len(s) = Cardinality(S) /\ Len(s) \in Nat
         /\ Append(s, x) = [k \in 1..(Len(s) + 1) |-> IF k \in 1..Len(s) THEN s[k] ELSE x]
  <1> PICK n \in Nat : n = Cardinality(S)
    BY DEF Ascends
  <1>1. /\ s \in [1..n -> S] /\ IsFiniteSet(S) /\ S \in SUBSET Nat
        /\ \A j, k \in 1..n : j < k => s[j] < s[k]
    BY DEF Ascends
  <1>2. s \in Seq(S) /\ Len(s) = n
    BY <1>1, FunctionIsSeq
  <1> PICK t : t = Append(s, x)
    OBVIOUS
  <1>3. t = [k \in 1..(n + 1) |-> IF k \in 1..n THEN s[k] ELSE x]
    <2>1. s \in Seq(S) /\ n = Len(s)
      BY <1>2
    <2>2. Append(s, x) = [k \in 1..(n + 1) |-> IF k \in 1..n THEN s[k] ELSE x]
      BY <2>1, AppendIs
    <2> QED BY <2>2, Zenon
  <1>4. IsFiniteSet(S \cup {x}) /\ Cardinality(S \cup {x}) = n + 1
    <2>1. x \notin S
      BY <1>1
    <2> QED BY <1>1, <2>1, FS_AddElement
  <1>5. t \in [1..(n + 1) -> S \cup {x}]
    BY <1>1, <1>3
  <1>6. \A j, k \in 1..(n + 1) : j < k => t[j] < t[k]
    <2> SUFFICES ASSUME NEW j \in 1..(n + 1), NEW k \in 1..(n + 1), j < k PROVE t[j] < t[k]
      OBVIOUS
    <2>1. j \in 1..n /\ t[j] = s[j] /\ s[j] \in S
      BY <1>1, <1>3
    <2>2. CASE k \in 1..n
      BY <1>1, <1>3, <2>1, <2>2
    <2>3. CASE k \notin 1..n
      BY <1>3, <2>1, <2>3
    <2> QED BY <2>2, <2>3
  <1>7. Ascends(t, S \cup {x})
    <2>1. S \cup {x} \in SUBSET Nat /\ n + 1 \in Nat
      BY <1>1
    <2> QED BY <1>4, <1>5, <1>6, <2>1 DEF Ascends
  <1> QED BY <1>2, <1>3, <1>7

\* Nothing to order.
LEMMA AscendsNone == Ascends(<<>>, {})
  BY FS_EmptySet DEF Ascends

(***************************************************************************)
(* The fold of a replay.                                                   *)
(***************************************************************************)

\* F replays every part of the sequence s, in its order
Replays(F, s, n, b) ==
  F = [T \in SUBSET (1..n) |->
         IF T = {} THEN b ELSE ReplayFill(F[T \ {Max(T)}], s[Max(T)])]

\* The last of some places.
LEMMA MaxOf ==
  ASSUME NEW n \in Nat, NEW T \in SUBSET (1..n), T # {}
  PROVE  Max(T) \in T /\ \A m \in T : Max(T) >= m
  <1> DEFINE U == {n - m : m \in T}
  <1>1. U \in SUBSET Nat /\ U # {}
    <2>1. \A m \in T : n - m \in Nat
      OBVIOUS
    <2>2. U # {}
      <3> PICK m : m \in T
        OBVIOUS
      <3>1. n - m \in U
        OBVIOUS
      <3> QED BY <3>1
    <2> QED BY <2>1, <2>2
  <1> HIDE DEF U
  <1>2. PICK d \in U : \A e \in U : d <= e
    BY <1>1, LeastNumber
  <1>3. PICK x \in T : d = n - x
    BY <1>2 DEF U
  <1>4. \A m \in T : x >= m
    BY <1>2, <1>3 DEF U
  <1> QED BY <1>4 DEF Max

\* There is such a replay, by the least length that had none.
LEMMA ReplaysExist ==
  ASSUME NEW s, NEW b
  PROVE  \A n \in Nat : \E F : Replays(F, s, n, b)
  <1> DEFINE Bad == {n \in Nat : ~\E F : Replays(F, s, n, b)}
  <1>1. SUFFICES ASSUME Bad # {} PROVE FALSE
    OBVIOUS
  <1>2. PICK n \in Bad : \A m \in Bad : n <= m
    BY <1>1, LeastNumber
  <1>3. CASE n = 0
    <2> DEFINE F == [T \in SUBSET (1..0) |-> b]
    <2>1. \A T \in SUBSET (1..0) : T = {}
      OBVIOUS
    <2>2. F = [T \in SUBSET (1..0) |->
                 IF T = {} THEN b ELSE ReplayFill(F[T \ {Max(T)}], s[Max(T)])]
      BY <2>1, Zenon
    <2> QED BY <1>2, <1>3, <2>2, Zenon DEF Replays
  <1>4. CASE n # 0
    <2>1. n \in Nat /\ n - 1 \in Nat /\ n - 1 \notin Bad
      BY <1>2, <1>4
    <2>2. PICK G : Replays(G, s, n - 1, b)
      BY <2>1
    <2> DEFINE F == [T \in SUBSET (1..n) |->
                       IF T = {} THEN b ELSE ReplayFill(G[T \ {Max(T)}], s[Max(T)])]
    <2>3. \A T \in SUBSET (1..(n - 1)) : F[T] = G[T]
      <3> SUFFICES ASSUME NEW T \in SUBSET (1..(n - 1)) PROVE F[T] = G[T]
        OBVIOUS
      <3>1. G[T] = IF T = {} THEN b ELSE ReplayFill(G[T \ {Max(T)}], s[Max(T)])
        BY <2>2, Zenon DEF Replays
      <3>2. T \in SUBSET (1..n)
        BY <2>1
      <3>3. F[T] = IF T = {} THEN b ELSE ReplayFill(G[T \ {Max(T)}], s[Max(T)])
        BY <3>2, Zenon
      <3> QED BY <3>1, <3>3, Zenon
    <2>4. \A T \in SUBSET (1..n) : T # {} => T \ {Max(T)} \in SUBSET (1..(n - 1))
      <3> SUFFICES ASSUME NEW T \in SUBSET (1..n), T # {}, NEW m \in T \ {Max(T)}
                   PROVE  m \in 1..(n - 1)
        OBVIOUS
      <3>1. Max(T) \in T /\ Max(T) >= m
        BY <2>1, MaxOf
      <3>2. Max(T) \in 1..n /\ m \in 1..n /\ m # Max(T)
        BY <3>1
      <3> QED BY <2>1, <3>1, <3>2
    <2>5. \A T \in SUBSET (1..n) :
            (IF T = {} THEN b ELSE ReplayFill(G[T \ {Max(T)}], s[Max(T)]))
              = IF T = {} THEN b ELSE ReplayFill(F[T \ {Max(T)}], s[Max(T)])
      <3> HIDE DEF F
      <3> QED BY <2>3, <2>4, Zenon
    <2>6. F = [T \in SUBSET (1..n) |->
                 IF T = {} THEN b ELSE ReplayFill(F[T \ {Max(T)}], s[Max(T)])]
      <3> PICK H : H = F
        OBVIOUS
      <3>1. F = [T \in SUBSET (1..n) |->
                  IF T = {} THEN b ELSE ReplayFill(H[T \ {Max(T)}], s[Max(T)])]
        BY <2>5, Zenon
      <3> QED BY <3>1, Zenon
    <2>7. Replays(F, s, n, b)
      BY <2>6, Zenon DEF Replays
    <2> HIDE DEF F
    <2> QED BY <1>2, <2>7
  <1> QED BY <1>3, <1>4

FoldOf(b, s) == FoldLeft(ReplayFill, b, s)

\* F[m] are the books after m fills of s
Books(F, s, n, b) ==
  /\ F[0] = b /\ \A m \in 1..n : F[m] = ReplayFill(F[m - 1], s[m])
  /\ F[n] = FoldOf(b, s)

\* the fold goes through the books after each fill
LEMMA FoldReplays ==
  ASSUME NEW s, NEW b, NEW n \in Nat, DOMAIN s = 1..n
  PROVE  \E F : Books(F, s, n, b)
  <1> DEFINE G == CHOOSE F : Replays(F, s, n, b)
  <1>1. Replays(G, s, n, b)
    BY ReplaysExist
  <1>2. FoldOf(b, s) = G[1..n]
    BY Zenon DEF FoldOf, FoldLeft, MapThenFoldSet, Replays
  <1> HIDE DEF G
  <1> DEFINE F == [m \in 0..n |-> G[1..m]]
  <1>3. \A T \in SUBSET (1..n) :
          G[T] = IF T = {} THEN b ELSE ReplayFill(G[T \ {Max(T)}], s[Max(T)])
    BY <1>1, Zenon DEF Replays
  <1>4. G[1..0] = b
    <2>1. 1..0 = {} /\ {} \in SUBSET (1..n)
      OBVIOUS
    <2> QED BY <1>3, <2>1
  <1>5. ASSUME NEW m \in 1..n
        PROVE  G[1..m] = ReplayFill(G[1..(m - 1)], s[m])
    <2>1. 1..m \in SUBSET (1..n) /\ 1..m # {} /\ m \in 1..m
      <3>1. m \in Nat /\ m <= n /\ 1 <= m
        OBVIOUS
      <3> QED BY <3>1
    <2>2. Max(1..m) = m
      <3>1. Max(1..m) \in 1..m /\ Max(1..m) >= m
        BY <2>1, MaxOf
      <3> QED BY <3>1
    <2>3. (1..m) \ {m} = 1..(m - 1)
      OBVIOUS
    <2> QED BY <1>3, <2>1, <2>2, <2>3
  <1>6. /\ F[0] = G[1..0] /\ F[n] = G[1..n]
        /\ \A m \in 1..n : F[m] = G[1..m] /\ F[m - 1] = G[1..(m - 1)]
    OBVIOUS
  <1> HIDE DEF F
  <1>7. \A m \in 1..n : F[m] = ReplayFill(F[m - 1], s[m])
    <2> SUFFICES ASSUME NEW m \in 1..n PROVE F[m] = ReplayFill(F[m - 1], s[m])
      OBVIOUS
    <2>1. F[m] = G[1..m] /\ F[m - 1] = G[1..(m - 1)]
      BY <1>6
    <2> QED BY <1>5, <2>1, Zenon
  <1>8. Books(F, s, n, b)
    BY <1>2, <1>4, <1>6, <1>7 DEF Books
  <1> QED BY <1>8

(***************************************************************************)
(* The lives of a walk: h[i] is the position after fill i, for i \in a..z; *)
(* a scope that begins with fill a + 1 has seen the fills up to n.         *)
(***************************************************************************)

Walk(h, a, z) ==
  /\ a \in Nat /\ z \in Nat /\ a <= z /\ h \in [a..z -> Int]
  /\ \A i \in (a + 1)..z : h[i] # h[i - 1] /\ Pos(i) - Pos(i - 1) = h[i] - h[i - 1]

Upto(h, a, n) == [i \in a..n |-> h[i]]

\* what Life speaks of
Reach(h, i, n) == {k \in (i + 1)..n : \A j \in i..(k - 1) : SameSide(h[i], h[j])}
Grown(h, i, n) == {k \in Reach(h, i, n) : Abs(h[k]) > Abs(h[k - 1]) /\ SameSide(h[i], h[k])}
Shrunk(h, i, n) == Reach(h, i, n) \ Grown(h, i, n)
Left(h, i, k) == IF SameSide(h[i], h[k]) THEN Abs(h[k]) ELSE 0
GrowBy(h, a, z) == [k \in (a + 1)..z |-> Abs(h[k]) - Abs(h[k - 1])]
ShrinkBy(h, a, z, i) == [k \in (a + 1)..z |-> Abs(h[k - 1]) - Left(h, i, k)]
OwnerOf(a, k) == IF k < a + 1 THEN "external" ELSE fills[k].owner
First(h, a, i) == IF i < a + 1 THEN Abs(h[i])
                  ELSE IF SameSide(h[i], Pos(i) - Pos(i - 1)) THEN Abs(h[i]) ELSE 0

LifeOf(h, a, z, i, n) ==
  [side |-> Side(h[i]),
   owners |-> {OwnerOf(a, k) : k \in {i} \cup Reach(h, i, n)},
   opened |-> First(h, a, i) + SumOf(GrowBy(h, a, z), Grown(h, i, n)),
   closed |-> SumOf(ShrinkBy(h, a, z, i), Shrunk(h, i, n)),
   status |-> IF Shrunk(h, i, n) = {} THEN "open"
              ELSE IF \E k \in Shrunk(h, i, n) : Left(h, i, k) = 0 THEN "closed"
              ELSE "partial",
   carry |-> i < a + 1]

BeginsOf(h, a, n) ==
  {i \in a..n : h[i] # 0 /\ (i >= a + 1 => ~SameSide(h[i - 1], h[i]))}

\* the sums of Life
GrownSum(q, S) == MapThenSumSet(LAMBDA k : Abs(q[k]) - Abs(q[k - 1]), S)
ShrunkSum(q, i, S) ==
  MapThenSumSet(LAMBDA k : Abs(q[k - 1]) - IF SameSide(q[i], q[k]) THEN Abs(q[k]) ELSE 0, S)

\* What the additions of a life sum to.
LEMMA SumOfGrown ==
  ASSUME NEW g, Weighs(g), NEW S \in FiniteParts(g), NEW q,
         \A k \in S : g[k] = Abs(q[k]) - Abs(q[k - 1])
  PROVE  GrownSum(q, S) = SumOf(g, S)
  <1> DEFINE A(f) == f = [T \in SUBSET S |->
                            IF T = {} THEN 0
                            ELSE (Abs(q[Some(T)]) - Abs(q[Some(T) - 1])) + f[T \ {Some(T)}]]
  <1>1. GrownSum(q, S) = (CHOOSE f : A(f))[S]
    BY DEF GrownSum, MapThenSumSet, MapThenFoldSet, Some
  <1>2. \A f : A(f) <=> Sums(f, g, S)
    <2> SUFFICES ASSUME NEW f PROVE A(f) <=> Sums(f, g, S)
      OBVIOUS
    <2>1. \A T \in SUBSET S : T # {} => Some(T) \in S
      BY DEF Some
    <2>2. \A T \in SUBSET S :
            (IF T = {} THEN 0 ELSE (Abs(q[Some(T)]) - Abs(q[Some(T) - 1])) + f[T \ {Some(T)}])
              = IF T = {} THEN 0 ELSE g[Some(T)] + f[T \ {Some(T)}]
      BY <2>1
    <2>3. [T \in SUBSET S |->
             IF T = {} THEN 0 ELSE (Abs(q[Some(T)]) - Abs(q[Some(T) - 1])) + f[T \ {Some(T)}]]
          = [T \in SUBSET S |-> IF T = {} THEN 0 ELSE g[Some(T)] + f[T \ {Some(T)}]]
      BY <2>2, Zenon
    <2> QED BY <2>3, Zenon DEF Sums
  <1> HIDE DEF A
  <1>3. PICK f : Sums(f, g, S)
    BY SumsExists
  <1>4. A(CHOOSE e : A(e))
    BY <1>2, <1>3
  <1>5. Sums(CHOOSE e : A(e), g, S)
    BY <1>2, <1>4
  <1>6. Sums(CHOOSE e : Sums(e, g, S), g, S)
    BY <1>3
  <1>7. (CHOOSE e : A(e))[S] = (CHOOSE e : Sums(e, g, S))[S]
    BY <1>5, <1>6, SumsUnique
  <1> QED BY <1>1, <1>7, SumIsFold

\* What the exits of a life sum to.
LEMMA SumOfShrunk ==
  ASSUME NEW g, Weighs(g), NEW S \in FiniteParts(g), NEW q, NEW i,
         \A k \in S : g[k] = Abs(q[k - 1]) - IF SameSide(q[i], q[k]) THEN Abs(q[k]) ELSE 0
  PROVE  ShrunkSum(q, i, S) = SumOf(g, S)
  <1> DEFINE V(k) == Abs(q[k - 1]) - IF SameSide(q[i], q[k]) THEN Abs(q[k]) ELSE 0
             A(f) == f = [T \in SUBSET S |->
                            IF T = {} THEN 0 ELSE V(Some(T)) + f[T \ {Some(T)}]]
  <1>1. ShrunkSum(q, i, S) = (CHOOSE f : A(f))[S]
    BY DEF ShrunkSum, MapThenSumSet, MapThenFoldSet, Some
  <1>2. \A f : A(f) <=> Sums(f, g, S)
    <2> SUFFICES ASSUME NEW f PROVE A(f) <=> Sums(f, g, S)
      OBVIOUS
    <2>1. \A T \in SUBSET S : T # {} => Some(T) \in S
      BY DEF Some
    <2>2. \A k \in S : V(k) = g[k]
      OBVIOUS
    <2> HIDE DEF V
    <2>3. \A T \in SUBSET S :
            (IF T = {} THEN 0 ELSE V(Some(T)) + f[T \ {Some(T)}])
              = IF T = {} THEN 0 ELSE g[Some(T)] + f[T \ {Some(T)}]
      BY <2>1, <2>2
    <2>4. [T \in SUBSET S |-> IF T = {} THEN 0 ELSE V(Some(T)) + f[T \ {Some(T)}]]
          = [T \in SUBSET S |-> IF T = {} THEN 0 ELSE g[Some(T)] + f[T \ {Some(T)}]]
      BY <2>3, Zenon
    <2> QED BY <2>4, Zenon DEF Sums
  <1> HIDE DEF A
  <1>3. PICK f : Sums(f, g, S)
    BY SumsExists
  <1>4. A(CHOOSE e : A(e))
    BY <1>2, <1>3
  <1>5. Sums(CHOOSE e : A(e), g, S)
    BY <1>2, <1>4
  <1>6. Sums(CHOOSE e : Sums(e, g, S), g, S)
    BY <1>3
  <1>7. (CHOOSE e : A(e))[S] = (CHOOSE e : Sums(e, g, S))[S]
    BY <1>5, <1>6, SumsUnique
  <1> QED BY <1>1, <1>7, SumIsFold

\* they are defined
LEMMA ReachParts ==
  ASSUME NEW h, NEW a, NEW z, Walk(h, a, z), NEW n \in a..z, NEW i \in a..n
  PROVE  /\ Weighs(GrowBy(h, a, z)) /\ Weighs(ShrinkBy(h, a, z, i))
         /\ DOMAIN GrowBy(h, a, z) = (a + 1)..z /\ DOMAIN ShrinkBy(h, a, z, i) = (a + 1)..z
         /\ Reach(h, i, n) \in SUBSET ((a + 1)..n)
         /\ Grown(h, i, n) \in FiniteParts(GrowBy(h, a, z))
         /\ Shrunk(h, i, n) \in FiniteParts(ShrinkBy(h, a, z, i))
  <1>1. a \in Nat /\ z \in Nat /\ n \in Nat /\ i \in Nat /\ a <= i /\ i <= n /\ n <= z
        /\ \A k \in a..z : h[k] \in Int
    BY DEF Walk
  <1>2. \A k \in a..z : Abs(h[k]) \in Int /\ Left(h, i, k) \in Int
    BY <1>1 DEF Abs, Left
  <1>3. \A k \in (a + 1)..z : k \in a..z /\ k - 1 \in a..z
    BY <1>1
  <1>4. Weighs(GrowBy(h, a, z)) /\ Weighs(ShrinkBy(h, a, z, i))
    BY <1>2, <1>3 DEF Weighs, GrowBy, ShrinkBy
  <1>5. Reach(h, i, n) \in SUBSET ((a + 1)..n) /\ (a + 1)..n \in SUBSET ((a + 1)..z)
    BY <1>1 DEF Reach
  <1>6. IsFiniteSet((a + 1)..n)
    BY <1>1, FS_Interval
  <1>7. \A S \in SUBSET Reach(h, i, n) : IsFiniteSet(S) /\ S \subseteq (a + 1)..z
    BY <1>5, <1>6, FS_Subset
  <1>8. Grown(h, i, n) \in SUBSET Reach(h, i, n) /\ Shrunk(h, i, n) \in SUBSET Reach(h, i, n)
    BY DEF Grown, Shrunk
  <1>9. DOMAIN GrowBy(h, a, z) = (a + 1)..z /\ DOMAIN ShrinkBy(h, a, z, i) = (a + 1)..z
    BY DEF GrowBy, ShrinkBy
  <1> QED BY <1>4, <1>5, <1>7, <1>8, <1>9 DEF FiniteParts

\* Life, of the positions seen so far
LEMMA LifeIs ==
  ASSUME NEW h, NEW a, NEW z, Walk(h, a, z), NEW n \in a..z, NEW i \in a..n
  PROVE  Life(a + 1, Upto(h, a, n), i) = LifeOf(h, a, z, i, n)
  <1> PICK q : q = Upto(h, a, n)
    OBVIOUS
  <1>1. a \in Nat /\ z \in Nat /\ n \in Nat /\ i \in Nat /\ a <= i /\ i <= n /\ n <= z
    BY DEF Walk
  <1>2. DOMAIN q = a..n /\ \A k \in a..n : q[k] = h[k]
    BY DEF Upto
  <1>3. Stretch(q, i) = Reach(h, i, n)
    <2>1. \A k \in a..n : k > i <=> k \in (i + 1)..n
      BY <1>1
    <2>2. \A k \in (i + 1)..n : k \in a..n /\ \A j \in i..(k - 1) : j \in a..n
      BY <1>1
    <2>3. q[i] = h[i]
      BY <1>2
    <2>4. \A k \in (i + 1)..n : (\A j \in i..(k - 1) : SameSide(q[i], q[j]))
                                 <=> (\A j \in i..(k - 1) : SameSide(h[i], h[j]))
      BY <1>2, <2>2, <2>3
    <2> QED BY <1>2, <2>1, <2>2, <2>4 DEF Stretch, Reach
  <1>4. \A k \in Reach(h, i, n) : k \in a..n /\ k - 1 \in a..n
    BY <1>1 DEF Reach
  <1>5. /\ q[i] = h[i]
        /\ \A k \in Reach(h, i, n) : q[k] = h[k] /\ q[k - 1] = h[k - 1]
    BY <1>2, <1>4
  <1>6. {k \in Stretch(q, i) : Abs(q[k]) > Abs(q[k - 1]) /\ SameSide(q[i], q[k])}
          = Grown(h, i, n)
    BY <1>3, <1>5 DEF Grown
  <1>7. Stretch(q, i) \ Grown(h, i, n) = Shrunk(h, i, n)
    BY <1>3 DEF Shrunk
  <1>8. \A k \in Reach(h, i, n) :
          (IF SameSide(q[i], q[k]) THEN Abs(q[k]) ELSE 0) = Left(h, i, k)
    BY <1>5 DEF Left
  <1>9. MapThenSumSet(LAMBDA k : Abs(q[k]) - Abs(q[k - 1]), Grown(h, i, n))
          = SumOf(GrowBy(h, a, z), Grown(h, i, n))
    <2>1. Grown(h, i, n) \in FiniteParts(GrowBy(h, a, z)) /\ Weighs(GrowBy(h, a, z))
      BY ReachParts
    <2>2. \A k \in Grown(h, i, n) : GrowBy(h, a, z)[k] = Abs(q[k]) - Abs(q[k - 1])
      <3>1. \A k \in Grown(h, i, n) : k \in Reach(h, i, n) /\ k \in (a + 1)..z
        BY <1>1 DEF Grown, Reach
      <3> QED BY <1>5, <3>1 DEF GrowBy
    <2>3. GrownSum(q, Grown(h, i, n)) = SumOf(GrowBy(h, a, z), Grown(h, i, n))
      BY <2>1, <2>2, SumOfGrown
    <2> QED BY <2>3, Zenon DEF GrownSum
  <1>10. MapThenSumSet(LAMBDA k : Abs(q[k - 1]) - IF SameSide(q[i], q[k]) THEN Abs(q[k]) ELSE 0,
                       Shrunk(h, i, n))
          = SumOf(ShrinkBy(h, a, z, i), Shrunk(h, i, n))
    <2>1. Shrunk(h, i, n) \in FiniteParts(ShrinkBy(h, a, z, i)) /\ Weighs(ShrinkBy(h, a, z, i))
      BY ReachParts
    <2>2. \A k \in Shrunk(h, i, n) :
            ShrinkBy(h, a, z, i)[k] = Abs(q[k - 1]) - IF SameSide(q[i], q[k]) THEN Abs(q[k]) ELSE 0
      <3>1. \A k \in Shrunk(h, i, n) : k \in Reach(h, i, n) /\ k \in (a + 1)..z
        BY <1>1 DEF Shrunk, Reach
      <3> QED BY <1>5, <1>8, <3>1 DEF ShrinkBy
    <2>3. ShrunkSum(q, i, Shrunk(h, i, n)) = SumOf(ShrinkBy(h, a, z, i), Shrunk(h, i, n))
      BY <2>1, <2>2, SumOfShrunk
    <2> QED BY <2>3, Zenon DEF ShrunkSum
  <1>11. (IF i < a + 1 THEN Abs(q[i])
          ELSE IF SameSide(q[i], Pos(i) - Pos(i - 1)) THEN Abs(q[i]) ELSE 0) = First(h, a, i)
    BY <1>5 DEF First
  <1>12. {IF k < a + 1 THEN "external" ELSE fills[k].owner : k \in {i} \cup Stretch(q, i)}
          = {OwnerOf(a, k) : k \in {i} \cup Reach(h, i, n)}
    BY <1>3 DEF OwnerOf
  <1>13. (IF Shrunk(h, i, n) = {} THEN "open"
          ELSE IF \E k \in Shrunk(h, i, n) :
                    (IF SameSide(q[i], q[k]) THEN Abs(q[k]) ELSE 0) = 0 THEN "closed"
          ELSE "partial")
         = (IF Shrunk(h, i, n) = {} THEN "open"
            ELSE IF \E k \in Shrunk(h, i, n) : Left(h, i, k) = 0 THEN "closed" ELSE "partial")
    BY <1>8 DEF Shrunk
  <1>14. Life(a + 1, q, i) = LifeOf(h, a, z, i, n)
    BY <1>5, <1>6, <1>7, <1>9, <1>10, <1>11, <1>12, <1>13, Zenon DEF Life, LifeOf
  <1> QED BY <1>14

(***************************************************************************)
(* One fill more.                                                          *)
(***************************************************************************)

\* the position has not left the side of i
Alive(h, i, n) == \A j \in i..n : SameSide(h[i], h[j])

\* what a fill does to a position p, q being the position after it
Adds(p, q, d) ==
  /\ SameSide(p, q) /\ SameSide(p, d) /\ Abs(q) > Abs(p) /\ Abs(q) = Abs(p) + Abs(d)
Takes(p, q, d) ==
  /\ Min({Abs(p), Abs(d)}) = Abs(d) /\ ~(Abs(q) > Abs(p))
  /\ Abs(p) - (IF SameSide(p, q) THEN Abs(q) ELSE 0) = Abs(d)
  /\ (q = 0 \/ SameSide(p, q)) /\ Abs(q) = Abs(p) - Abs(d)
Turns(p, q, d) ==
  /\ Min({Abs(p), Abs(d)}) = Abs(p) /\ Abs(p) # Abs(d) /\ q # 0
  /\ ~SameSide(p, q) /\ SameSide(q, d) /\ Side(d) = Side(q) /\ Abs(q) = Abs(d) - Abs(p)

\* What a fill can close is the smaller of two sizes.
LEMMA MinOfTwo ==
  ASSUME NEW x \in Int, NEW y \in Int
  PROVE  Min({x, y}) = IF x <= y THEN x ELSE y
  <1>1. CASE x <= y
    BY <1>1 DEF Min
  <1>2. CASE ~(x <= y)
    BY <1>2 DEF Min
  <1> QED BY <1>1, <1>2

\* Sizes, and being on a side at all.
LEMMA AbsIsNat ==
  ASSUME NEW p \in Int
  PROVE  Abs(p) \in Nat /\ (Abs(p) = 0 <=> p = 0) /\ (SameSide(p, p) <=> p # 0)
         /\ (\A q : SameSide(p, q) => p # 0 /\ q # 0)
  BY DEF Abs, SameSide

\* From flat, the fill is the position.
LEMMA FromFlat ==
  ASSUME NEW q \in Int, NEW d \in Int, d = q - 0, d # 0
  PROVE  SameSide(q, d) /\ Abs(q) = Abs(d) /\ Side(q) = Side(d) /\ ~SameSide(0, q)
  BY DEF Abs, SameSide, Side

\* A fill against or with a position does one of three things.
LEMMA ThreeWays ==
  ASSUME NEW p \in Int, NEW q \in Int, NEW d \in Int, d = q - p, p # 0, d # 0
  PROVE  \/ Adds(p, q, d)
         \/ ~SameSide(p, d) /\ Takes(p, q, d)
         \/ ~SameSide(p, d) /\ Turns(p, q, d)
  <1>1. Abs(p) \in Int /\ Abs(d) \in Int
    BY DEF Abs
  <1>2. Min({Abs(p), Abs(d)}) = IF Abs(p) <= Abs(d) THEN Abs(p) ELSE Abs(d)
    BY <1>1, MinOfTwo
  <1>3. CASE SameSide(p, d)
    BY <1>3 DEF SameSide, Abs, Adds
  <1>4. CASE ~SameSide(p, d) /\ Abs(d) <= Abs(p)
    <2>1. Min({Abs(p), Abs(d)}) = Abs(d)
      BY <1>1, <1>2, <1>4
    <2>2. /\ ~(Abs(q) > Abs(p)) /\ (q = 0 \/ SameSide(p, q)) /\ Abs(q) = Abs(p) - Abs(d)
          /\ Abs(p) - (IF SameSide(p, q) THEN Abs(q) ELSE 0) = Abs(d)
      BY <1>4 DEF SameSide, Abs
    <2> QED BY <1>4, <2>1, <2>2 DEF Takes
  <1>5. CASE ~SameSide(p, d) /\ ~(Abs(d) <= Abs(p))
    <2>1. Min({Abs(p), Abs(d)}) = Abs(p) /\ Abs(p) # Abs(d)
      BY <1>1, <1>2, <1>5
    <2>2. /\ q # 0 /\ ~SameSide(p, q) /\ SameSide(q, d) /\ Side(d) = Side(q)
          /\ Abs(q) = Abs(d) - Abs(p)
      BY <1>5 DEF SameSide, Abs, Side
    <2> QED BY <1>5, <2>1, <2>2 DEF Turns
  <1> QED BY <1>3, <1>4, <1>5

\* a fill belongs to the lives that were alive
LEMMA ReachNext ==
  ASSUME NEW h, NEW n \in Nat, NEW i \in 0..n
  PROVE  /\ Reach(h, i, n + 1) = IF Alive(h, i, n) THEN Reach(h, i, n) \cup {n + 1}
                                 ELSE Reach(h, i, n)
         /\ n + 1 \notin Reach(h, i, n) /\ Reach(h, n + 1, n + 1) = {}
         /\ Alive(h, i, n + 1) <=> (Alive(h, i, n) /\ SameSide(h[i], h[n + 1]))
         /\ Alive(h, n + 1, n + 1) <=> SameSide(h[n + 1], h[n + 1])
  <1>1. (i + 1)..(n + 1) = ((i + 1)..n) \cup {n + 1} /\ n + 1 \notin (i + 1)..n
    OBVIOUS
  <1>2. (n + 1) - 1 = n /\ i..(n + 1) = (i..n) \cup {n + 1}
    OBVIOUS
  <1>3. Reach(h, i, n + 1) = IF Alive(h, i, n) THEN Reach(h, i, n) \cup {n + 1}
                             ELSE Reach(h, i, n)
    BY <1>1, <1>2, Zenon DEF Reach, Alive
  <1>4. Reach(h, n + 1, n + 1) = {} /\ (n + 1)..(n + 1) = {n + 1}
    BY DEF Reach
  <1> QED BY <1>1, <1>2, <1>3, <1>4 DEF Reach, Alive

\* a life that has ended stays as it is
LEMMA LifeOver ==
  ASSUME NEW h, NEW a, NEW z, NEW n \in Nat, NEW i \in 0..n, ~Alive(h, i, n)
  PROVE  LifeOf(h, a, z, i, n + 1) = LifeOf(h, a, z, i, n) /\ ~Alive(h, i, n + 1)
  <1>1. Reach(h, i, n + 1) = Reach(h, i, n) /\ ~Alive(h, i, n + 1)
    BY ReachNext
  <1>2. Grown(h, i, n + 1) = Grown(h, i, n) /\ Shrunk(h, i, n + 1) = Shrunk(h, i, n)
    BY <1>1 DEF Grown, Shrunk
  <1> QED BY <1>1, <1>2 DEF LifeOf

\* lives by their fields
Fields(l) == l = [side |-> l.side, owners |-> l.owners, opened |-> l.opened,
                  closed |-> l.closed, status |-> l.status, carry |-> l.carry]

\* A life that differs in some fields only.
LEMMA EditFields ==
  ASSUME NEW l, NEW m, Fields(l), Fields(m), m.side = l.side, m.carry = l.carry
  PROVE  /\ m.closed = l.closed /\ m.status = l.status
              => m = [l EXCEPT !.opened = m.opened, !.owners = m.owners]
         /\ m.opened = l.opened
              => m = [l EXCEPT !.closed = m.closed, !.owners = m.owners, !.status = m.status]
  BY DEF Fields

\* a life with fills more
Adding(l, x, o) == [l EXCEPT !.opened = @ + x, !.owners = @ \cup {o}]
Taking(l, x, o, left) ==
  [l EXCEPT !.closed = @ + x, !.owners = @ \cup {o},
            !.status = IF left = 0 THEN "closed" ELSE "partial"]

\* the fill adds to the life
LEMMA LifeAdds ==
  ASSUME NEW h, NEW a, NEW z, Walk(h, a, z), NEW n, n \in a..z, n + 1 \in a..z, NEW i \in a..n,
         Alive(h, i, n), SameSide(h[i], h[n + 1]), Abs(h[n + 1]) > Abs(h[n]),
         LifeOf(h, a, z, i, n).opened \in Int
  PROVE  LifeOf(h, a, z, i, n + 1)
           = Adding(LifeOf(h, a, z, i, n), Abs(h[n + 1]) - Abs(h[n]), OwnerOf(a, n + 1))
  <1>1. a \in Nat /\ n \in Nat /\ i \in 0..n /\ n + 1 \in (a + 1)..z /\ (n + 1) - 1 = n
    BY DEF Walk
  <1>2. Reach(h, i, n + 1) = Reach(h, i, n) \cup {n + 1} /\ n + 1 \notin Reach(h, i, n)
    BY <1>1, ReachNext
  <1>3. Grown(h, i, n + 1) = Grown(h, i, n) \cup {n + 1} /\ n + 1 \notin Grown(h, i, n)
    BY <1>1, <1>2 DEF Grown
  <1>4. Shrunk(h, i, n + 1) = Shrunk(h, i, n)
    BY <1>2, <1>3 DEF Shrunk, Grown
  <1> PICK g, A : g = GrowBy(h, a, z) /\ A = Grown(h, i, n)
    OBVIOUS
  <1>5. /\ Weighs(g) /\ n + 1 \in DOMAIN g /\ A \in FiniteParts(g)
        /\ g[n + 1] = Abs(h[n + 1]) - Abs(h[n])
    <2>1. n \in a..z
      OBVIOUS
    <2>2. Weighs(g) /\ DOMAIN g = (a + 1)..z /\ A \in FiniteParts(g)
      BY <2>1, ReachParts
    <2> QED BY <1>1, <2>2 DEF GrowBy
  <1>6. SumOf(g, A \cup {n + 1}) = SumOf(g, A) + (Abs(h[n + 1]) - Abs(h[n])) /\ SumOf(g, A) \in Int
    BY <1>3, <1>5, SumAdd
  <1>7. First(h, a, i) \in Int /\ Abs(h[n + 1]) - Abs(h[n]) \in Int
    <2>1. h[i] \in Int /\ h[n + 1] \in Int /\ h[n] \in Int
      BY DEF Walk
    <2> QED BY <2>1, AbsIsNat DEF First
  <1>8. First(h, a, i) + SumOf(g, A \cup {n + 1})
          = (First(h, a, i) + SumOf(g, A)) + (Abs(h[n + 1]) - Abs(h[n]))
    BY <1>6, <1>7
  <1>9. {OwnerOf(a, k) : k \in {i} \cup Reach(h, i, n + 1)}
          = {OwnerOf(a, k) : k \in {i} \cup Reach(h, i, n)} \cup {OwnerOf(a, n + 1)}
    BY <1>2
  <1>10. SumOf(g, Grown(h, i, n + 1)) = SumOf(g, A \cup {n + 1})
    BY <1>3, Zenon
  <1> PICK l, m : l = LifeOf(h, a, z, i, n) /\ m = LifeOf(h, a, z, i, n + 1)
    OBVIOUS
  <1>11. /\ m.opened = l.opened + (Abs(h[n + 1]) - Abs(h[n]))
         /\ m.owners = l.owners \cup {OwnerOf(a, n + 1)}
         /\ m.side = l.side /\ m.closed = l.closed /\ m.status = l.status /\ m.carry = l.carry
    <2>1. l.opened = First(h, a, i) + SumOf(g, A) /\ m.opened = First(h, a, i) + SumOf(g, A \cup {n + 1})
      BY <1>10 DEF LifeOf
    <2>2. m.opened = l.opened + (Abs(h[n + 1]) - Abs(h[n]))
      BY <1>8, <2>1, Zenon
    <2>3. m.owners = l.owners \cup {OwnerOf(a, n + 1)}
      BY <1>9 DEF LifeOf
    <2>4. m.side = l.side /\ m.closed = l.closed /\ m.status = l.status /\ m.carry = l.carry
      BY <1>4 DEF LifeOf
    <2> QED BY <2>2, <2>3, <2>4
  <1>12. m = [l EXCEPT !.opened = @ + (Abs(h[n + 1]) - Abs(h[n])),
                       !.owners = @ \cup {OwnerOf(a, n + 1)}]
    <2>1. Fields(l) /\ Fields(m)
      BY DEF LifeOf, Fields
    <2>2. m = [l EXCEPT !.opened = l.opened + (Abs(h[n + 1]) - Abs(h[n])),
                        !.owners = l.owners \cup {OwnerOf(a, n + 1)}]
      <3>1. m = [l EXCEPT !.opened = m.opened, !.owners = m.owners]
        BY <1>11, <2>1, EditFields
      <3> QED BY <1>11, <3>1, Zenon
    <2> QED BY <2>2
  <1> QED BY <1>12, Zenon DEF Adding

\* the fill takes from the life, or ends it
LEMMA LifeTakes ==
  ASSUME NEW h, NEW a, NEW z, Walk(h, a, z), NEW n, n \in a..z, n + 1 \in a..z, NEW i \in a..n,
         Alive(h, i, n), ~(SameSide(h[i], h[n + 1]) /\ Abs(h[n + 1]) > Abs(h[n]))
  PROVE  LifeOf(h, a, z, i, n + 1)
           = Taking(LifeOf(h, a, z, i, n), Abs(h[n]) - Left(h, i, n + 1), OwnerOf(a, n + 1),
                    Left(h, i, n + 1))
  <1>1. a \in Nat /\ n \in Nat /\ i \in 0..n /\ n + 1 \in (a + 1)..z /\ (n + 1) - 1 = n
    BY DEF Walk
  <1>2. Reach(h, i, n + 1) = Reach(h, i, n) \cup {n + 1} /\ n + 1 \notin Reach(h, i, n)
    BY <1>1, ReachNext
  <1>3. Grown(h, i, n + 1) = Grown(h, i, n) /\ n + 1 \notin Grown(h, i, n)
    BY <1>1, <1>2 DEF Grown
  <1>4. Shrunk(h, i, n + 1) = Shrunk(h, i, n) \cup {n + 1} /\ n + 1 \notin Shrunk(h, i, n)
    BY <1>2, <1>3 DEF Shrunk
  <1> PICK g, A : g = ShrinkBy(h, a, z, i) /\ A = Shrunk(h, i, n)
    OBVIOUS
  <1>5. /\ Weighs(g) /\ n + 1 \in DOMAIN g /\ A \in FiniteParts(g)
        /\ g[n + 1] = Abs(h[n]) - Left(h, i, n + 1)
    <2>1. n \in a..z
      OBVIOUS
    <2>2. Weighs(g) /\ DOMAIN g = (a + 1)..z /\ A \in FiniteParts(g)
      BY <2>1, ReachParts
    <2> QED BY <1>1, <2>2 DEF ShrinkBy
  <1>6. SumOf(g, A \cup {n + 1}) = SumOf(g, A) + (Abs(h[n]) - Left(h, i, n + 1))
    BY <1>4, <1>5, SumAdd
  <1>7. \A k \in A : Left(h, i, k) # 0
    <2> SUFFICES ASSUME NEW k \in A PROVE Left(h, i, k) # 0
      OBVIOUS
    <2>1. k \in i..n /\ k \in a..z
      <3>1. k \in (i + 1)..n /\ i \in Nat /\ n \in Nat /\ z \in Nat /\ n <= z /\ a <= i
        BY <1>1 DEF Shrunk, Reach, Walk
      <3> QED BY <1>1, <3>1
    <2>2. SameSide(h[i], h[k]) /\ h[k] \in Int
      BY <2>1 DEF Alive, Walk
    <2>3. h[k] # 0
      BY <2>2 DEF SameSide
    <2> QED BY <2>2, <2>3, AbsIsNat DEF Left
  <1>8. (\E k \in A \cup {n + 1} : Left(h, i, k) = 0) <=> Left(h, i, n + 1) = 0
    BY <1>7
  <1>9. {OwnerOf(a, k) : k \in {i} \cup Reach(h, i, n + 1)}
          = {OwnerOf(a, k) : k \in {i} \cup Reach(h, i, n)} \cup {OwnerOf(a, n + 1)}
    BY <1>2
  <1> PICK l, m : l = LifeOf(h, a, z, i, n) /\ m = LifeOf(h, a, z, i, n + 1)
    OBVIOUS
  <1>10. /\ m.closed = l.closed + (Abs(h[n]) - Left(h, i, n + 1))
         /\ m.owners = l.owners \cup {OwnerOf(a, n + 1)}
         /\ m.status = (IF Left(h, i, n + 1) = 0 THEN "closed" ELSE "partial")
         /\ m.side = l.side /\ m.opened = l.opened /\ m.carry = l.carry
    <2>1. l.closed = SumOf(g, A) /\ m.closed = SumOf(g, A \cup {n + 1})
      BY <1>4 DEF LifeOf
    <2>2. m.closed = l.closed + (Abs(h[n]) - Left(h, i, n + 1))
      BY <1>6, <2>1, Zenon
    <2>3. m.owners = l.owners \cup {OwnerOf(a, n + 1)}
      BY <1>9 DEF LifeOf
    <2>4. m.side = l.side /\ m.opened = l.opened /\ m.carry = l.carry
      BY <1>3 DEF LifeOf
    <2>5. m.status = IF Left(h, i, n + 1) = 0 THEN "closed" ELSE "partial"
      BY <1>4, <1>8 DEF LifeOf
    <2> QED BY <2>2, <2>3, <2>4, <2>5
  <1>11. m = [l EXCEPT !.closed = @ + (Abs(h[n]) - Left(h, i, n + 1)),
                       !.owners = @ \cup {OwnerOf(a, n + 1)},
                       !.status = IF Left(h, i, n + 1) = 0 THEN "closed" ELSE "partial"]
    <2>1. Fields(l) /\ Fields(m)
      BY DEF LifeOf, Fields
    <2>2. m = [l EXCEPT !.closed = l.closed + (Abs(h[n]) - Left(h, i, n + 1)),
                        !.owners = l.owners \cup {OwnerOf(a, n + 1)},
                        !.status = IF Left(h, i, n + 1) = 0 THEN "closed" ELSE "partial"]
      <3>1. m = [l EXCEPT !.closed = m.closed, !.owners = m.owners, !.status = m.status]
        <4>1. m.side = l.side /\ m.carry = l.carry /\ m.opened = l.opened
          BY <1>10
        <4> QED BY <2>1, <4>1, EditFields
      <3> QED BY <1>10, <3>1, Zenon
    <2> QED BY <2>2
  <1> QED BY <1>11, Zenon DEF Taking

\* a life that has just begun
LEMMA LifeBegins ==
  ASSUME NEW h, NEW a, NEW z, Walk(h, a, z), NEW i \in a..z
  PROVE  LifeOf(h, a, z, i, i) = Cycle(Side(h[i]), {OwnerOf(a, i)}, First(h, a, i), i < a + 1)
  <1>1. Reach(h, i, i) = {}
    <2>1. i \in Nat
      BY DEF Walk
    <2>2. (i + 1)..i = {}
      BY <2>1
    <2> QED BY <2>2 DEF Reach
  <1>2. Grown(h, i, i) = {} /\ Shrunk(h, i, i) = {}
    BY <1>1 DEF Grown, Shrunk
  <1>3. Weighs(GrowBy(h, a, z)) /\ Weighs(ShrinkBy(h, a, z, i))
    <2>1. i \in a..i
      BY DEF Walk
    <2> QED BY <2>1, ReachParts
  <1>4. SumOf(GrowBy(h, a, z), {}) = 0 /\ SumOf(ShrinkBy(h, a, z, i), {}) = 0
    BY <1>3, SumOfNone
  <1>5. First(h, a, i) \in Int
    <2>1. h[i] \in Int
      BY DEF Walk
    <2> QED BY <2>1, AbsIsNat DEF First
  <1>6. First(h, a, i) + 0 = First(h, a, i)
    BY <1>5
  <1>7. {OwnerOf(a, k) : k \in {i} \cup {}} = {OwnerOf(a, i)}
    OBVIOUS
  <1> QED BY <1>1, <1>2, <1>4, <1>6, <1>7 DEF LifeOf, Cycle

(***************************************************************************)
(* The replay tells the lives of the walk.                                 *)
(***************************************************************************)

LivesOf(h, a, z, s, n) == [k \in 1..Len(s) |-> LifeOf(h, a, z, s[k], n)]

\* what is open of a cycle
Balanced(c, open) == c.opened \in Int /\ c.closed \in Int /\ c.opened - c.closed = open
                     /\ c.status # "closed"

\* s has the fills that began a life, the last of which may still be alive
Gone(h, s, n, k) == \A j \in 1..k : ~Alive(h, s[j], n)
Flat(h, a, z, s, n) ==
  /\ h[n] = 0 /\ Gone(h, s, n, Len(s))
  /\ Len(s) # 0 => LifeOf(h, a, z, s[Len(s)], n).status = "closed"
Held(h, a, z, s, n) ==
  /\ h[n] # 0 /\ Len(s) # 0 /\ Gone(h, s, n, Len(s) - 1)
  /\ Alive(h, s[Len(s)], n) /\ Balanced(LifeOf(h, a, z, s[Len(s)], n), Abs(h[n]))

Tells(b, h, a, z, s, n) ==
  /\ b.pos = h[n] /\ Ascends(s, BeginsOf(h, a, n)) /\ b.cycles = LivesOf(h, a, z, s, n)
  /\ Flat(h, a, z, s, n) \/ Held(h, a, z, s, n)

\* The fills that begin lives, by their places.
LEMMA BeginsOrdered ==
  ASSUME NEW h, NEW a \in Nat, NEW n \in Nat, NEW s, Ascends(s, BeginsOf(h, a, n))
  PROVE  /\ Len(s) \in Nat /\ s \in Seq(Nat) /\ Len(s) = Cardinality(BeginsOf(h, a, n))
         /\ \A k \in 1..Len(s) : s[k] \in a..n /\ s[k] \in 0..n /\ s[k] \in BeginsOf(h, a, n)
  <1> PICK m \in Nat : m = Cardinality(BeginsOf(h, a, n))
    BY DEF Ascends
  <1>1. s \in [1..m -> BeginsOf(h, a, n)] /\ BeginsOf(h, a, n) \in SUBSET (a..n)
    BY DEF Ascends, BeginsOf
  <1>2. s \in [1..m -> Nat]
    BY <1>1
  <1>3. s \in Seq(Nat) /\ Len(s) = m
    BY <1>2, FunctionIsSeq
  <1> QED BY <1>1, <1>3

\* A fill begins a life or does not.
LEMMA BeginsNext ==
  ASSUME NEW h, NEW a \in Nat, NEW n \in Nat, a <= n
  PROVE  BeginsOf(h, a, n + 1) = IF h[n + 1] # 0 /\ ~SameSide(h[n], h[n + 1])
                                 THEN BeginsOf(h, a, n) \cup {n + 1} ELSE BeginsOf(h, a, n)
  <1>1. a..(n + 1) = (a..n) \cup {n + 1} /\ n + 1 >= a + 1 /\ (n + 1) - 1 = n
    OBVIOUS
  <1> QED BY <1>1, Zenon DEF BeginsOf

\* a life more
LEMMA LivesAppend ==
  ASSUME NEW h, NEW a, NEW z, NEW n \in Nat, NEW s \in Seq(Nat), NEW i \in Nat
  PROVE  /\ Append(LivesOf(h, a, z, s, n), LifeOf(h, a, z, i, n)) = LivesOf(h, a, z, Append(s, i), n)
         /\ Len(Append(s, i)) = Len(s) + 1 /\ Append(s, i)[Len(s) + 1] = i
         /\ \A k \in 1..Len(s) : Append(s, i)[k] = s[k]
  <1> PICK m : m = Len(s)
    OBVIOUS
  <1>1. m \in Nat /\ \A k \in 1..m : s[k] \in Nat
    BY LenProperties, ElementOfSeq
  <1> PICK t : t = Append(s, i)
    OBVIOUS
  <1>2. Len(t) = m + 1 /\ t[m + 1] = i /\ \A k \in 1..m : t[k] = s[k]
    BY AppendProperties
  <1> DEFINE S == {LifeOf(h, a, z, s[k], n) : k \in 1..m}
  <1> PICK ls : ls = LivesOf(h, a, z, s, n)
    OBVIOUS
  <1>3. ls \in [1..m -> S] /\ \A k \in 1..m : ls[k] = LifeOf(h, a, z, s[k], n)
    BY DEF LivesOf
  <1> HIDE DEF S
  <1>4. ls \in Seq(S) /\ Len(ls) = m
    BY <1>1, <1>3, FunctionIsSeq
  <1>5. Append(ls, LifeOf(h, a, z, i, n))
          = [k \in 1..(m + 1) |-> IF k \in 1..m THEN ls[k] ELSE LifeOf(h, a, z, i, n)]
    BY <1>4, AppendIs
  <1>6. \A k \in 1..(m + 1) : (IF k \in 1..m THEN ls[k] ELSE LifeOf(h, a, z, i, n))
                                = LifeOf(h, a, z, t[k], n)
    <2>1. \A k \in 1..(m + 1) : k \in 1..m \/ k = m + 1
      BY <1>1
    <2> QED BY <1>2, <1>3, <2>1
  <1>7. Append(ls, LifeOf(h, a, z, i, n)) = [k \in 1..(m + 1) |-> LifeOf(h, a, z, t[k], n)]
    BY <1>5, <1>6, Zenon
  <1>8. LivesOf(h, a, z, t, n) = [k \in 1..(m + 1) |-> LifeOf(h, a, z, t[k], n)]
    BY <1>2, Zenon DEF LivesOf
  <1> QED BY <1>2, <1>7, <1>8

\* lives that have ended stay; the last is changed
LEMMA LivesOver ==
  ASSUME NEW h, NEW a \in Nat, NEW z, NEW n \in Nat, NEW s, Ascends(s, BeginsOf(h, a, n)),
         Gone(h, s, n, Len(s))
  PROVE  LivesOf(h, a, z, s, n + 1) = LivesOf(h, a, z, s, n) /\ Gone(h, s, n + 1, Len(s))
  <1>1. \A k \in 1..Len(s) : s[k] \in 0..n
    BY BeginsOrdered
  <1>2. \A k \in 1..Len(s) : /\ LifeOf(h, a, z, s[k], n + 1) = LifeOf(h, a, z, s[k], n)
                             /\ ~Alive(h, s[k], n + 1)
    BY <1>1, LifeOver DEF Gone
  <1> QED BY <1>2 DEF LivesOf, Gone

\* Only the last life is changed.
LEMMA LivesLast ==
  ASSUME NEW h, NEW a \in Nat, NEW z, NEW n \in Nat, NEW s, Ascends(s, BeginsOf(h, a, n)),
         Len(s) # 0, Gone(h, s, n, Len(s) - 1), NEW c, c = LifeOf(h, a, z, s[Len(s)], n + 1)
  PROVE  /\ Last(LivesOf(h, a, z, s, n)) = LifeOf(h, a, z, s[Len(s)], n)
         /\ WithLast(LivesOf(h, a, z, s, n), c) = LivesOf(h, a, z, s, n + 1)
         /\ LivesOf(h, a, z, s, n) # <<>>
         /\ Gone(h, s, n + 1, Len(s) - 1)
  <1> PICK m : m = Len(s)
    OBVIOUS
  <1>1. m \in Nat \ {0} /\ \A k \in 1..m : s[k] \in 0..n
    BY BeginsOrdered
  <1> DEFINE S == {LifeOf(h, a, z, s[k], n) : k \in 1..m}
  <1> PICK ls : ls = LivesOf(h, a, z, s, n)
    OBVIOUS
  <1>2. ls \in [1..m -> S] /\ \A k \in 1..m : ls[k] = LifeOf(h, a, z, s[k], n)
    BY DEF LivesOf
  <1> HIDE DEF S
  <1>3. ls \in Seq(S) /\ Len(ls) = m /\ m \in 1..m
    <2>1. m \in Nat /\ ls \in [1..m -> S]
      BY <1>1, <1>2
    <2>2. ls \in Seq(S) /\ Len(ls) = m
      BY <2>1, FunctionIsSeq
    <2> QED BY <1>1, <2>2
  <1>4. \A k \in 1..(m - 1) : /\ LifeOf(h, a, z, s[k], n + 1) = LifeOf(h, a, z, s[k], n)
                              /\ ~Alive(h, s[k], n + 1)
    <2>1. \A k \in 1..(m - 1) : k \in 1..m
      BY <1>1
    <2> QED BY <1>1, <2>1, LifeOver DEF Gone
  <1>5. WithLast(ls, c) = [k \in 1..m |-> IF k = m THEN c ELSE ls[k]]
    BY <1>2, <1>3 DEF WithLast
  <1>6. \A k \in 1..m : (IF k = m THEN c ELSE ls[k]) = LifeOf(h, a, z, s[k], n + 1)
    <2>1. \A k \in 1..m : k # m => k \in 1..(m - 1)
      BY <1>1
    <2> QED BY <1>2, <1>4, <2>1
  <1>7. WithLast(ls, c) = [k \in 1..m |-> LifeOf(h, a, z, s[k], n + 1)]
    BY <1>5, <1>6, Zenon
  <1>8. WithLast(ls, c) = LivesOf(h, a, z, s, n + 1)
    BY <1>7, Zenon DEF LivesOf
  <1>9. ls # <<>>
    BY <1>1, <1>3
  <1>10. Last(ls) = LifeOf(h, a, z, s[m], n)
    BY <1>2, <1>3 DEF Last
  <1>11. Gone(h, s, n + 1, m - 1)
    BY <1>4 DEF Gone
  <1> QED BY <1>8, <1>9, <1>10, <1>11

\* a life begins with fill n + 1, when none is alive after it
LEMMA TellsBegin ==
  ASSUME NEW h, NEW a, NEW z, Walk(h, a, z), NEW n, n \in a..z, n + 1 \in a..z,
         NEW s, Ascends(s, BeginsOf(h, a, n)), Gone(h, s, n + 1, Len(s)),
         h[n + 1] # 0, ~SameSide(h[n], h[n + 1]),
         NEW b, b.pos = h[n + 1],
         b.cycles = Append(LivesOf(h, a, z, s, n + 1),
                           Cycle(Side(h[n + 1]), {fills[n + 1].owner}, Abs(h[n + 1]), FALSE))
  PROVE  Tells(b, h, a, z, Append(s, n + 1), n + 1)
  <1>1. /\ a \in Nat /\ n \in Nat /\ a <= n /\ n + 1 \in Nat /\ n + 1 \in (a + 1)..z
        /\ (n + 1) - 1 = n /\ h[n] \in Int /\ h[n + 1] \in Int
    BY DEF Walk
  <1>2. s \in Seq(Nat) /\ Len(s) \in Nat /\ \A y \in BeginsOf(h, a, n) : y < n + 1
    <2>1. \A y \in BeginsOf(h, a, n) : y \in a..n
      BY DEF BeginsOf
    <2>2. \A y \in a..n : y < n + 1
      BY <1>1
    <2>3. s \in Seq(Nat) /\ Len(s) \in Nat
      BY <1>1, BeginsOrdered
    <2> QED BY <2>1, <2>2, <2>3
  <1> PICK t, i : t = Append(s, n + 1) /\ i = n + 1
    OBVIOUS
  <1>0. i \in Nat /\ h[i] \in Int /\ h[i] # 0
    BY <1>1
  <1>3. Ascends(t, BeginsOf(h, a, i))
    <2>1. BeginsOf(h, a, i) = BeginsOf(h, a, n) \cup {i}
      BY <1>1, BeginsNext
    <2> QED BY <1>1, <1>2, <2>1, AscendsNext
  <1>4. First(h, a, i) = Abs(h[i]) /\ OwnerOf(a, i) = fills[i].owner /\ ~(i < a + 1)
    <2>1. Pos(i) - Pos(i - 1) = h[i] - h[n]
      BY <1>1 DEF Walk
    <2>2. SameSide(h[i], h[i] - h[n])
      BY <1>1 DEF SameSide
    <2>3. ~(i < a + 1)
      BY <1>1
    <2> QED BY <2>1, <2>2, <2>3 DEF First, OwnerOf
  <1>5. LifeOf(h, a, z, i, i) = Cycle(Side(h[i]), {fills[i].owner}, Abs(h[i]), FALSE)
    <2>1. LifeOf(h, a, z, i, i) = Cycle(Side(h[i]), {OwnerOf(a, i)}, First(h, a, i), i < a + 1)
      BY LifeBegins
    <2>2. (i < a + 1) = FALSE
      BY <1>4
    <2> QED BY <1>4, <2>1, <2>2
  <1>6. /\ LivesOf(h, a, z, t, i) = b.cycles
        /\ Len(t) = Len(s) + 1 /\ t[Len(s) + 1] = i /\ \A k \in 1..Len(s) : t[k] = s[k]
    <2>1. /\ Append(LivesOf(h, a, z, s, i), LifeOf(h, a, z, i, i)) = LivesOf(h, a, z, t, i)
          /\ Len(t) = Len(s) + 1 /\ t[Len(s) + 1] = i /\ \A k \in 1..Len(s) : t[k] = s[k]
      BY <1>0, <1>2, LivesAppend
    <2>2. b.cycles = Append(LivesOf(h, a, z, s, i), LifeOf(h, a, z, i, i))
      BY <1>5, Zenon
    <2> QED BY <2>1, <2>2
  <1>7. Gone(h, t, i, Len(t) - 1)
    <2>1. Len(t) - 1 = Len(s)
      BY <1>2, <1>6
    <2> QED BY <1>6, <2>1 DEF Gone
  <1>8. Alive(h, t[Len(t)], i)
    <2>1. Alive(h, i, i) <=> SameSide(h[i], h[i])
      <3>1. i..i = {i}
        BY <1>0
      <3> QED BY <3>1 DEF Alive
    <2>2. SameSide(h[i], h[i])
      BY <1>0, AbsIsNat
    <2> QED BY <1>6, <2>1, <2>2
  <1>9. Balanced(LifeOf(h, a, z, t[Len(t)], i), Abs(h[i]))
    <2>1. LifeOf(h, a, z, t[Len(t)], i) = Cycle(Side(h[i]), {fills[i].owner}, Abs(h[i]), FALSE)
      BY <1>5, <1>6
    <2>2. Abs(h[i]) \in Int /\ Abs(h[i]) - 0 = Abs(h[i])
      <3>1. Abs(h[i]) \in Nat
        BY <1>0, AbsIsNat
      <3> QED BY <3>1
    <2> QED BY <2>1, <2>2 DEF Balanced, Cycle
  <1>10. Len(t) # 0
    BY <1>2, <1>6
  <1> QED BY <1>3, <1>6, <1>7, <1>8, <1>9, <1>10 DEF Tells, Held

\* sides
LEMMA Sides ==
  ASSUME NEW p \in Int, NEW q \in Int
  PROVE  /\ SameSide(p, q) => SameSide(q, p) /\ p # 0
         /\ \A r \in Int : SameSide(p, q) => (SameSide(p, r) <=> SameSide(q, r))
  BY DEF SameSide

\* a life that is alive is on the side of the position
LEMMA AliveSide ==
  ASSUME NEW h, NEW n \in Nat, NEW i \in 0..n, Alive(h, i, n)
  PROVE  SameSide(h[i], h[n])
  BY DEF Alive

\* what a position held before the scope is told as
LEMMA TellsInit ==
  ASSUME NEW h, NEW a, NEW z, Walk(h, a, z)
  PROVE  \E s : Tells(Carried(h[a]), h, a, z, s, a)
  <1>1. a \in Nat /\ a \in a..z /\ h[a] \in Int /\ a..a = {a}
    BY DEF Walk
  <1>2. CASE h[a] = 0
    <2>1. BeginsOf(h, a, a) = {}
      BY <1>1, <1>2 DEF BeginsOf
    <2>2. LivesOf(h, a, z, <<>>, a) = <<>>
      BY DEF LivesOf
    <2>3. Gone(h, <<>>, a, Len(<<>>)) /\ Len(<<>>) = 0
      BY DEF Gone
    <2>4. Tells(Carried(h[a]), h, a, z, <<>>, a)
      BY <1>2, <2>1, <2>2, <2>3, AscendsNone DEF Tells, Flat, Carried
    <2> QED BY <2>4
  <1>3. CASE h[a] # 0
    <2> PICK s : s = <<a>>
      OBVIOUS
    <2>0. Len(s) = 1 /\ s[1] = a
      OBVIOUS
    <2>1. BeginsOf(h, a, a) = {a}
      BY <1>1, <1>3 DEF BeginsOf
    <2>2. Ascends(s, BeginsOf(h, a, a))
      <3>1. Ascends(Append(<<>>, a), {} \cup {a})
        BY <1>1, AscendsNone, AscendsNext
      <3>2. Append(<<>>, a) = <<a>> /\ {} \cup {a} = {a}
        OBVIOUS
      <3> QED BY <2>1, <3>1, <3>2
    <2>3. LifeOf(h, a, z, a, a) = Cycle(Side(h[a]), {"external"}, Abs(h[a]), TRUE)
      <3>1. LifeOf(h, a, z, a, a) = Cycle(Side(h[a]), {OwnerOf(a, a)}, First(h, a, a), a < a + 1)
        BY <1>1, LifeBegins
      <3>2. (a < a + 1) = TRUE
        BY <1>1
      <3>3. OwnerOf(a, a) = "external" /\ First(h, a, a) = Abs(h[a])
        BY <3>2 DEF OwnerOf, First
      <3> QED BY <3>1, <3>2, <3>3
    <2>4. LivesOf(h, a, z, s, a) = <<LifeOf(h, a, z, a, a)>>
      <3> PICK l : l = LifeOf(h, a, z, a, a)
        OBVIOUS
      <3>1. LivesOf(h, a, z, s, a) = [k \in 1..1 |-> LifeOf(h, a, z, s[k], a)]
        BY <2>0 DEF LivesOf
      <3>2. \A k \in 1..1 : LifeOf(h, a, z, s[k], a) = l
        <4>1. \A k \in 1..1 : k = 1
          OBVIOUS
        <4> QED BY <2>0, <4>1
      <3>3. LivesOf(h, a, z, s, a) = [k \in 1..1 |-> l]
        BY <3>1, <3>2, Zenon
      <3>4. [k \in 1..1 |-> l] = <<l>>
        OBVIOUS
      <3> QED BY <3>3, <3>4
    <2>5. Gone(h, s, a, Len(s) - 1)
      BY <2>0 DEF Gone
    <2>6. Alive(h, s[Len(s)], a)
      BY <1>1, <1>3, <2>0, AbsIsNat DEF Alive
    <2>7. Balanced(LifeOf(h, a, z, s[Len(s)], a), Abs(h[a]))
      <3>1. Abs(h[a]) \in Int /\ Abs(h[a]) - 0 = Abs(h[a])
        <4>1. Abs(h[a]) \in Nat
          BY <1>1, AbsIsNat
        <4> QED BY <4>1
      <3> QED BY <2>0, <2>3, <3>1 DEF Balanced, Cycle
    <2>8. Carried(h[a]).cycles = LivesOf(h, a, z, s, a) /\ Carried(h[a]).pos = h[a]
      BY <1>3, <2>3, <2>4 DEF Carried
    <2>9. Tells(Carried(h[a]), h, a, z, s, a)
      BY <1>3, <2>0, <2>2, <2>5, <2>6, <2>7, <2>8 DEF Tells, Held
    <2> QED BY <2>9
  <1> QED BY <1>2, <1>3

\* what a fill is to the walk
Fill(h, a, z, n, p, q, d) ==
  /\ Walk(h, a, z) /\ n \in a..z /\ n + 1 \in a..z /\ a \in Nat /\ n \in Nat /\ a <= n
  /\ p = h[n] /\ q = h[n + 1] /\ p \in Int /\ q \in Int /\ d = q - p /\ d # 0
  /\ OwnerOf(a, n + 1) = fills[n + 1].owner
  /\ d = Pos(n + 1) - Pos((n + 1) - 1)

\* the cycle that a fill begins
Opening(d, i, x) == Cycle(Side(d), {fills[i].owner}, x, FALSE)

\* the books after a fill
LEMMA BookFields ==
  ASSUME NEW b, NEW x, NEW y, b = [pos |-> x, cycles |-> y]
  PROVE  b.pos = x /\ b.cycles = y
  OBVIOUS

\* The fill opens a cycle.
LEMMA BookOpens ==
  ASSUME NEW b, NEW i, NEW d, b.cycles = <<>> \/ Last(b.cycles).status = "closed", NEW c,
         c = Added(b, i, d)
  PROVE  /\ c.pos = b.pos + d
         /\ c.cycles = Append(b.cycles, Opening(d, i, Abs(d)))
  <1> DEFINE x == b.pos + d
             y == Append(b.cycles, Opening(d, i, Abs(d)))
  <1>1. c = [pos |-> x, cycles |-> y]
    BY Zenon DEF Added, Opening
  <1> HIDE DEF x, y
  <1>2. c.pos = x /\ c.cycles = y
    BY <1>1, BookFields
  <1> QED BY <1>2 DEF x, y

\* The fill adds to the last cycle.
LEMMA BookAdds ==
  ASSUME NEW b, NEW i, NEW d, ~(b.cycles = <<>> \/ Last(b.cycles).status = "closed"), NEW c,
         c = Added(b, i, d)
  PROVE  /\ c.pos = b.pos + d
         /\ c.cycles = WithLast(b.cycles, Adding(Last(b.cycles), Abs(d), fills[i].owner))
  <1> DEFINE x == b.pos + d
             y == WithLast(b.cycles, Adding(Last(b.cycles), Abs(d), fills[i].owner))
  <1>1. c = [pos |-> x, cycles |-> y]
    BY Zenon DEF Added, Adding
  <1> HIDE DEF x, y
  <1>2. c.pos = x /\ c.cycles = y
    BY <1>1, BookFields
  <1> QED BY <1>2 DEF x, y

\* a fill while the position is flat
LEMMA TellsFlat ==
  ASSUME NEW b, NEW h, NEW a, NEW z, NEW s, NEW n, NEW p, NEW q, NEW d, Fill(h, a, z, n, p, q, d),
         Tells(b, h, a, z, s, n), Flat(h, a, z, s, n)
  PROVE  Tells(ReplayFill(b, n + 1), h, a, z, Append(s, n + 1), n + 1)
  <1>1. p = 0 /\ b.pos = 0 /\ Gone(h, s, n, Len(s)) /\ Ascends(s, BeginsOf(h, a, n))
    BY DEF Flat, Tells, Fill
  <1>2. q # 0 /\ Abs(q) = Abs(d) /\ Side(q) = Side(d) /\ ~SameSide(p, q)
    BY <1>1, FromFlat DEF Fill
  <1>3. ReplayFill(b, n + 1) = Added(b, n + 1, d)
    BY <1>1 DEF ReplayFill, Fill
  <1>4. LivesOf(h, a, z, s, n + 1) = LivesOf(h, a, z, s, n) /\ Gone(h, s, n + 1, Len(s))
    BY <1>1, LivesOver DEF Fill
  <1>5. b.cycles = <<>> \/ Last(b.cycles).status = "closed"
    <2>1. b.cycles = LivesOf(h, a, z, s, n)
      BY DEF Tells
    <2>2. CASE Len(s) = 0
      BY <2>1, <2>2 DEF LivesOf
    <2>3. CASE Len(s) # 0
      <3>1. Gone(h, s, n, Len(s) - 1)
        <4>1. Len(s) \in Nat
          BY <1>1, BeginsOrdered DEF Fill
        <4>2. \A j \in 1..(Len(s) - 1) : j \in 1..Len(s)
          BY <4>1
        <4> QED BY <1>1, <4>2 DEF Gone
      <3>2. Last(b.cycles) = LifeOf(h, a, z, s[Len(s)], n)
        BY <1>1, <2>1, <2>3, <3>1, LivesLast DEF Fill
      <3> QED BY <2>3, <3>2 DEF Flat
    <2> QED BY <2>2, <2>3
  <1> PICK c : c = ReplayFill(b, n + 1)
    OBVIOUS
  <1>6. /\ c.pos = h[n + 1]
        /\ c.cycles = Append(b.cycles, Cycle(Side(d), {fills[n + 1].owner}, Abs(d), FALSE))
    <2> PICK j : j = n + 1
      OBVIOUS
    <2>1. c = Added(b, j, d)
      BY <1>3
    <2>2. /\ c.pos = b.pos + d
          /\ c.cycles = Append(b.cycles, Opening(d, j, Abs(d)))
      BY <1>5, <2>1, BookOpens
    <2>3. b.pos + d = h[n + 1]
      BY <1>1 DEF Fill
    <2> QED BY <2>2, <2>3, Zenon DEF Opening
  <1>8. c.cycles = Append(LivesOf(h, a, z, s, n + 1),
                          Cycle(Side(h[n + 1]), {fills[n + 1].owner}, Abs(h[n + 1]), FALSE))
    BY <1>2, <1>4, <1>6 DEF Tells, Fill
  <1>9. Tells(c, h, a, z, Append(s, n + 1), n + 1)
    <2>1. Walk(h, a, z) /\ n \in a..z /\ n + 1 \in a..z
      BY DEF Fill
    <2>2. h[n + 1] # 0 /\ ~SameSide(h[n], h[n + 1])
      BY <1>2 DEF Fill
    <2> QED BY <1>1, <1>4, <1>6, <1>8, <2>1, <2>2, TellsBegin
  <1> QED BY <1>9
\* what a fill does to the last of the lives
LEMMA LastLife ==
  ASSUME NEW b, NEW h, NEW a, NEW z, NEW s, NEW n, NEW p, NEW q, NEW d, Fill(h, a, z, n, p, q, d),
         Tells(b, h, a, z, s, n), Held(h, a, z, s, n)
  PROVE  /\ p # 0 /\ b.pos = p /\ Len(s) \in Nat /\ Len(s) \in 1..Len(s) /\ s[Len(s)] \in a..n
         /\ h[s[Len(s)]] \in Int /\ SameSide(h[s[Len(s)]], p) /\ Alive(h, s[Len(s)], n)
         /\ (SameSide(h[s[Len(s)]], q) <=> SameSide(p, q))
         /\ Alive(h, s[Len(s)], n + 1) <=> SameSide(p, q)
         /\ b.cycles # <<>> /\ Last(b.cycles) = LifeOf(h, a, z, s[Len(s)], n)
         /\ Balanced(Last(b.cycles), Abs(p))
         /\ \A c : c = LifeOf(h, a, z, s[Len(s)], n + 1)
                    => WithLast(b.cycles, c) = LivesOf(h, a, z, s, n + 1)
         /\ Gone(h, s, n + 1, Len(s) - 1)
  <1>0. /\ a \in Nat /\ n \in Nat /\ Len(s) # 0 /\ Gone(h, s, n, Len(s) - 1)
        /\ Ascends(s, BeginsOf(h, a, n)) /\ b.cycles = LivesOf(h, a, z, s, n)
    BY DEF Tells, Held, Fill
  <1>1. p # 0 /\ b.pos = p
    BY DEF Tells, Held, Fill
  <1>2. Len(s) \in Nat /\ \A k \in 1..Len(s) : s[k] \in a..n /\ s[k] \in 0..n
    BY <1>0, BeginsOrdered
  <1>3. Len(s) \in 1..Len(s)
    BY <1>0, <1>2
  <1> PICK i : i = s[Len(s)]
    OBVIOUS
  <1>4. i \in a..n /\ i \in 0..n /\ i \in a..z
    <2>1. i \in a..n /\ i \in 0..n
      BY <1>2, <1>3
    <2> QED BY <2>1 DEF Fill, Walk
  <1>5. h[i] \in Int
    BY <1>4 DEF Fill, Walk
  <1>6. Alive(h, i, n) /\ SameSide(h[i], p)
    <2>1. Alive(h, i, n)
      BY DEF Held
    <2> QED BY <1>0, <1>4, <2>1, AliveSide DEF Fill
  <1>7. SameSide(h[i], q) <=> SameSide(p, q)
    BY <1>5, <1>6, Sides DEF Fill
  <1>8. Alive(h, i, n + 1) <=> SameSide(p, q)
    <2>1. Alive(h, i, n + 1) <=> (Alive(h, i, n) /\ SameSide(h[i], h[n + 1]))
      BY <1>0, <1>4, ReachNext
    <2> QED BY <1>6, <1>7, <2>1 DEF Fill
  <1>9. b.cycles # <<>> /\ Last(b.cycles) = LifeOf(h, a, z, i, n) /\ Gone(h, s, n + 1, Len(s) - 1)
    BY <1>0, LivesLast
  <1>10. \A c : c = LifeOf(h, a, z, i, n + 1) => WithLast(b.cycles, c) = LivesOf(h, a, z, s, n + 1)
    BY <1>0, LivesLast
  <1>11. Balanced(Last(b.cycles), Abs(p))
    BY <1>9 DEF Held, Fill
  <1> QED BY <1>1, <1>2, <1>3, <1>4, <1>5, <1>6, <1>7, <1>8, <1>9, <1>10, <1>11

\* a fill that adds to the position
LEMMA TellsAdds ==
  ASSUME NEW b, NEW h, NEW a, NEW z, NEW s, NEW n, NEW p, NEW q, NEW d, Fill(h, a, z, n, p, q, d),
         Tells(b, h, a, z, s, n), Held(h, a, z, s, n), Adds(p, q, d)
  PROVE  Tells(ReplayFill(b, n + 1), h, a, z, s, n + 1)
  <1> PICK i, l, m, c : /\ i = s[Len(s)] /\ l = LifeOf(h, a, z, i, n)
                        /\ m = LifeOf(h, a, z, i, n + 1) /\ c = ReplayFill(b, n + 1)
    OBVIOUS
  <1>1. /\ p # 0 /\ b.pos = p /\ i \in a..n /\ Alive(h, i, n) /\ SameSide(h[i], q)
        /\ Alive(h, i, n + 1) /\ b.cycles # <<>> /\ Last(b.cycles) = l /\ Balanced(l, Abs(p))
        /\ WithLast(b.cycles, m) = LivesOf(h, a, z, s, n + 1) /\ Gone(h, s, n + 1, Len(s) - 1)
        /\ Len(s) # 0
    <2>1. SameSide(p, q)
      BY DEF Adds
    <2>2. Len(s) # 0
      BY DEF Held
    <2> QED BY <2>1, <2>2, LastLife
  <1>2. Abs(q) - Abs(p) = Abs(d) /\ Abs(p) \in Int /\ Abs(d) \in Int /\ Abs(q) = Abs(p) + Abs(d)
    <2>1. p \in Int /\ d \in Int
      BY DEF Fill
    <2>2. Abs(p) \in Nat /\ Abs(d) \in Nat
      BY <2>1, AbsIsNat
    <2> QED BY <2>2 DEF Adds
  <1>3. m = Adding(l, Abs(d), fills[n + 1].owner)
    <2>1. i \in a..n /\ Alive(h, i, n) /\ LifeOf(h, a, z, i, n).opened \in Int
      BY <1>1 DEF Balanced
    <2>2. Walk(h, a, z) /\ n \in a..z /\ n + 1 \in a..z
      BY DEF Fill
    <2>3. SameSide(h[i], h[n + 1]) /\ Abs(h[n + 1]) > Abs(h[n])
      BY <1>1 DEF Adds, Fill
    <2>4. LifeOf(h, a, z, i, n + 1)
            = Adding(LifeOf(h, a, z, i, n), Abs(h[n + 1]) - Abs(h[n]), OwnerOf(a, n + 1))
      BY <2>1, <2>2, <2>3, LifeAdds
    <2>5. Abs(h[n + 1]) - Abs(h[n]) = Abs(d) /\ OwnerOf(a, n + 1) = fills[n + 1].owner
      BY <1>2 DEF Fill
    <2> QED BY <2>4, <2>5, Zenon
  <1>4. c.pos = p + d /\ c.cycles = WithLast(b.cycles, m)
    <2> PICK j : j = n + 1
      OBVIOUS
    <2>1. c = Added(b, j, d)
      BY <1>1 DEF ReplayFill, Fill, Adds
    <2>2. ~(b.cycles = <<>> \/ Last(b.cycles).status = "closed")
      BY <1>1 DEF Balanced
    <2>3. c.pos = b.pos + d
          /\ c.cycles = WithLast(b.cycles, Adding(Last(b.cycles), Abs(d), fills[j].owner))
      BY <2>1, <2>2, BookAdds
    <2> QED BY <1>1, <1>3, <2>3, Zenon
  <1>5. c.pos = h[n + 1] /\ c.cycles = LivesOf(h, a, z, s, n + 1)
    <2>1. p + d = h[n + 1]
      BY DEF Fill
    <2> QED BY <1>1, <1>4, <2>1
  <1>6. Ascends(s, BeginsOf(h, a, n + 1))
    <2>1. BeginsOf(h, a, n + 1) = BeginsOf(h, a, n)
      BY BeginsNext DEF Fill, Adds
    <2> QED BY <2>1 DEF Tells
  <1>7. m.opened \in Int /\ m.closed \in Int /\ m.status # "closed"
        /\ m.opened - m.closed = Abs(q)
    <2>1. Fields(l)
      BY DEF LifeOf, Fields
    <2>2. m.opened = l.opened + Abs(d) /\ m.closed = l.closed /\ m.status = l.status
      BY <1>3, <2>1 DEF Fields, Adding
    <2> PICK x, y, u, v : x = l.opened /\ y = l.closed /\ u = Abs(p) /\ v = Abs(d)
      OBVIOUS
    <2>3. x \in Int /\ y \in Int /\ x - y = u /\ u \in Int /\ v \in Int /\ Abs(q) = u + v
      BY <1>1, <1>2 DEF Balanced
    <2>4. m.opened = x + v /\ m.closed = y
      BY <2>2
    <2>5. x + v \in Int /\ (x + v) - y = u + v
      BY <2>3
    <2>6. m.status # "closed"
      BY <1>1, <2>2 DEF Balanced
    <2> QED BY <2>3, <2>4, <2>5, <2>6
  <1>8. Balanced(m, Abs(h[n + 1])) /\ h[n + 1] # 0
    <2>1. q # 0
      BY AbsIsNat DEF Fill, Adds
    <2> QED BY <1>7, <2>1 DEF Balanced, Fill
  <1>9. Held(h, a, z, s, n + 1)
    BY <1>1, <1>8 DEF Held
  <1> QED BY <1>5, <1>6, <1>9 DEF Tells
\* the cycle an exit leaves
BookExit(b, i, x) == WithLast(b.cycles, Exited(Last(b.cycles), x, fills[i].owner))

\* The fill takes from the last cycle.
LEMMA BookReduces ==
  ASSUME NEW b, NEW i, NEW d, Min({Abs(b.pos), Abs(d)}) = Abs(d), NEW c, c = Reduced(b, i, d)
  PROVE  c.pos = b.pos + d /\ c.cycles = BookExit(b, i, Abs(d))
  <1> DEFINE x == b.pos + d
             y == BookExit(b, i, Abs(d))
  <1>1. c = [pos |-> x, cycles |-> y]
    BY Zenon DEF Reduced, BookExit
  <1> HIDE DEF x, y
  <1>2. c.pos = x /\ c.cycles = y
    BY <1>1, BookFields
  <1> QED BY <1>2 DEF x, y

\* The fill closes the last cycle and opens the next.
LEMMA BookTurns ==
  ASSUME NEW b, NEW i, NEW d, Min({Abs(b.pos), Abs(d)}) = Abs(b.pos), Abs(b.pos) # Abs(d), NEW c,
         c = Reduced(b, i, d)
  PROVE  /\ c.pos = b.pos + d
         /\ c.cycles = Append(BookExit(b, i, Abs(b.pos)), Opening(d, i, Abs(d) - Abs(b.pos)))
  <1> DEFINE x == b.pos + d
             y == Append(BookExit(b, i, Abs(b.pos)), Opening(d, i, Abs(d) - Abs(b.pos)))
  <1>1. c = [pos |-> x, cycles |-> y]
    BY Zenon DEF Reduced, BookExit, Opening
  <1> HIDE DEF x, y
  <1>2. c.pos = x /\ c.cycles = y
    BY <1>1, BookFields
  <1> QED BY <1>2 DEF x, y

\* an exit of x from the last of the lives, with y left of it
LeftOf(l, m, o, x, y) ==
  /\ m = Exited(l, x, o) /\ m.opened \in Int /\ m.closed \in Int
  /\ m.opened - m.closed = y /\ m.status = (IF y = 0 THEN "closed" ELSE "partial")

\* Status and size of a cycle after an exit.
LEMMA LifeExits ==
  ASSUME NEW l, NEW m, NEW o, NEW open \in Int, NEW x \in Int, NEW y \in Int, y = open - x,
         Balanced(l, open), m = Taking(l, x, o, y), Fields(l)
  PROVE  LeftOf(l, m, o, x, y)
  <1> PICK u, v : u = l.opened /\ v = l.closed
    OBVIOUS
  <1>1. u \in Int /\ v \in Int /\ u - v = open
    BY DEF Balanced
  <1>2. (l.closed + x = l.opened) <=> y = 0
    BY <1>1
  <1>3. m = Exited(l, x, o)
    BY <1>2, Zenon DEF Exited, Taking
  <1>4. m.opened = l.opened /\ m.closed = l.closed + x
        /\ m.status = (IF y = 0 THEN "closed" ELSE "partial")
    BY DEF Taking, Fields
  <1>5. v + x \in Int /\ u - (v + x) = y
    BY <1>1
  <1>6. m.opened = u /\ m.closed = v + x
    BY <1>4
  <1> QED BY <1>1, <1>3, <1>4, <1>5, <1>6 DEF LeftOf

\* what a fill against the position does to the last of the lives
LEMMA LastTakes ==
  ASSUME NEW b, NEW h, NEW a, NEW z, NEW s, NEW n, NEW p, NEW q, NEW d, Fill(h, a, z, n, p, q, d),
         Tells(b, h, a, z, s, n), Held(h, a, z, s, n),
         ~(SameSide(p, q) /\ Abs(q) > Abs(p)),
         NEW y, y = IF SameSide(p, q) THEN Abs(q) ELSE 0, NEW x, x = Abs(p) - y,
         NEW m, m = LifeOf(h, a, z, s[Len(s)], n + 1)
  PROVE  /\ BookExit(b, n + 1, x) = LivesOf(h, a, z, s, n + 1)
         /\ m.opened \in Int /\ m.closed \in Int
         /\ m.opened - m.closed = y /\ m.status = (IF y = 0 THEN "closed" ELSE "partial")
  <1> PICK i, l, o : i = s[Len(s)] /\ l = LifeOf(h, a, z, i, n) /\ o = fills[n + 1].owner
    OBVIOUS
  <1>1. /\ i \in a..n /\ Alive(h, i, n) /\ (SameSide(h[i], q) <=> SameSide(p, q))
        /\ Last(b.cycles) = l /\ Balanced(l, Abs(p))
        /\ WithLast(b.cycles, m) = LivesOf(h, a, z, s, n + 1)
    BY LastLife
  <1>2. Abs(p) \in Int /\ x \in Int /\ y \in Int /\ y = Abs(p) - x
    <2>1. p \in Int /\ q \in Int
      BY DEF Fill
    <2>2. Abs(p) \in Nat /\ Abs(q) \in Nat
      BY <2>1, AbsIsNat
    <2>3. y \in Int
      BY <2>2
    <2> QED BY <2>2, <2>3
  <1>3. Left(h, i, n + 1) = y
    BY <1>1 DEF Left, Fill
  <1>4. LifeOf(h, a, z, i, n + 1)
          = Taking(LifeOf(h, a, z, i, n), Abs(h[n]) - Left(h, i, n + 1), OwnerOf(a, n + 1),
                   Left(h, i, n + 1))
    <2>1. Walk(h, a, z) /\ n \in a..z /\ n + 1 \in a..z
      BY DEF Fill
    <2>2. ~(SameSide(h[i], h[n + 1]) /\ Abs(h[n + 1]) > Abs(h[n]))
      BY <1>1 DEF Fill
    <2>3. i \in a..n /\ Alive(h, i, n)
      BY <1>1
    <2> QED BY <2>1, <2>2, <2>3, LifeTakes
  <1>5. m = Taking(l, x, o, y)
    <2>1. Abs(h[n]) - Left(h, i, n + 1) = x /\ OwnerOf(a, n + 1) = o
      BY <1>3 DEF Fill
    <2> QED BY <1>3, <1>4, <2>1, Zenon
  <1>6. Fields(l)
    BY DEF LifeOf, Fields
  <1>7. /\ m = Exited(l, x, o) /\ m.opened \in Int /\ m.closed \in Int
        /\ m.opened - m.closed = y /\ m.status = (IF y = 0 THEN "closed" ELSE "partial")
    <2> PICK u : u = Abs(p)
      OBVIOUS
    <2>1. u \in Int /\ x \in Int /\ y \in Int /\ y = u - x /\ Balanced(l, u)
      BY <1>1, <1>2
    <2>2. LeftOf(l, m, o, x, y)
      BY <1>5, <1>6, <2>1, LifeExits
    <2> QED BY <2>2 DEF LeftOf
  <1>8. BookExit(b, n + 1, x) = WithLast(b.cycles, m)
    BY <1>1, <1>7, Zenon DEF BookExit
  <1> QED BY <1>1, <1>7, <1>8

\* a fill that takes from the position
LEMMA TellsTakes ==
  ASSUME NEW b, NEW h, NEW a, NEW z, NEW s, NEW n, NEW p, NEW q, NEW d, Fill(h, a, z, n, p, q, d),
         Tells(b, h, a, z, s, n), Held(h, a, z, s, n), ~SameSide(p, d), Takes(p, q, d)
  PROVE  Tells(ReplayFill(b, n + 1), h, a, z, s, n + 1)
  <1> PICK i, m, c, y : /\ i = s[Len(s)] /\ m = LifeOf(h, a, z, i, n + 1)
                        /\ c = ReplayFill(b, n + 1)
                        /\ y = IF SameSide(p, q) THEN Abs(q) ELSE 0
    OBVIOUS
  <1>1. /\ p # 0 /\ b.pos = p /\ (Alive(h, i, n + 1) <=> SameSide(p, q)) /\ Len(s) # 0
        /\ Len(s) \in Nat /\ Gone(h, s, n + 1, Len(s) - 1)
    <2>1. Len(s) # 0
      BY DEF Held
    <2> QED BY <2>1, LastLife
  <1>2. p \in Int /\ q \in Int /\ d \in Int /\ Abs(p) \in Nat /\ Abs(q) \in Nat /\ Abs(d) \in Nat
        /\ (Abs(q) = 0 <=> q = 0) /\ (SameSide(p, q) => q # 0)
    <2>1. p \in Int /\ q \in Int /\ d \in Int
      BY DEF Fill
    <2> QED BY <2>1, AbsIsNat
  <1>3. /\ Abs(d) = Abs(p) - y /\ (y = 0 <=> q = 0) /\ y = Abs(q)
        /\ ~(SameSide(p, q) /\ Abs(q) > Abs(p)) /\ (q = 0 \/ SameSide(p, q))
    BY <1>2 DEF Takes
  <1>4. /\ BookExit(b, n + 1, Abs(d)) = LivesOf(h, a, z, s, n + 1)
        /\ m.opened \in Int /\ m.closed \in Int
        /\ m.opened - m.closed = y /\ m.status = (IF y = 0 THEN "closed" ELSE "partial")
    BY <1>3, LastTakes
  <1>5. c.pos = h[n + 1] /\ c.cycles = LivesOf(h, a, z, s, n + 1)
    <2> PICK j : j = n + 1
      OBVIOUS
    <2>1. c = Reduced(b, j, d)
      BY <1>1 DEF ReplayFill, Fill
    <2>2. Min({Abs(b.pos), Abs(d)}) = Abs(d)
      BY <1>1 DEF Takes
    <2>3. c.pos = b.pos + d /\ c.cycles = BookExit(b, j, Abs(d))
      BY <2>1, <2>2, BookReduces
    <2>4. b.pos + d = h[n + 1]
      BY <1>1 DEF Fill
    <2> QED BY <1>4, <2>3, <2>4
  <1>6. Ascends(s, BeginsOf(h, a, n + 1))
    <2>1. BeginsOf(h, a, n + 1) = BeginsOf(h, a, n)
      BY <1>3, BeginsNext DEF Fill
    <2> QED BY <2>1 DEF Tells
  <1>7. CASE q = 0
    <2>1. Gone(h, s, n + 1, Len(s))
      <3>1. ~Alive(h, i, n + 1)
        BY <1>1, <1>2, <1>7
      <3>2. \A j \in 1..Len(s) : j = Len(s) \/ j \in 1..(Len(s) - 1)
        BY <1>1
      <3> QED BY <1>1, <3>1, <3>2 DEF Gone
    <2>2. m.status = "closed" /\ h[n + 1] = 0
      BY <1>3, <1>4, <1>7 DEF Fill
    <2> QED BY <1>5, <1>6, <2>1, <2>2 DEF Tells, Flat
  <1>8. CASE q # 0
    <2>1. Balanced(m, Abs(h[n + 1])) /\ h[n + 1] # 0
      BY <1>3, <1>4, <1>8 DEF Balanced, Fill
    <2>2. Alive(h, i, n + 1)
      BY <1>1, <1>3, <1>8
    <2> QED BY <1>1, <1>5, <1>6, <2>1, <2>2 DEF Tells, Held
  <1> QED BY <1>7, <1>8

\* a fill that turns the position round
LEMMA TellsTurns ==
  ASSUME NEW b, NEW h, NEW a, NEW z, NEW s, NEW n, NEW p, NEW q, NEW d, Fill(h, a, z, n, p, q, d),
         Tells(b, h, a, z, s, n), Held(h, a, z, s, n), ~SameSide(p, d), Turns(p, q, d)
  PROVE  Tells(ReplayFill(b, n + 1), h, a, z, Append(s, n + 1), n + 1)
  <1> PICK i, m, c : /\ i = s[Len(s)] /\ m = LifeOf(h, a, z, i, n + 1)
                     /\ c = ReplayFill(b, n + 1)
    OBVIOUS
  <1>1. /\ p # 0 /\ b.pos = p /\ (Alive(h, i, n + 1) <=> SameSide(p, q))
        /\ Len(s) \in Nat /\ Gone(h, s, n + 1, Len(s) - 1)
    BY LastLife
  <1>2. Abs(p) \in Nat /\ Abs(p) = Abs(p) - 0
    <2>1. p \in Int
      BY DEF Fill
    <2>2. Abs(p) \in Nat
      BY <2>1, AbsIsNat
    <2> QED BY <2>2
  <1>3. BookExit(b, n + 1, Abs(p)) = LivesOf(h, a, z, s, n + 1)
    <2> PICK y : y = 0
      OBVIOUS
    <2>1. ~SameSide(p, q) /\ y = (IF SameSide(p, q) THEN Abs(q) ELSE 0) /\ Abs(p) = Abs(p) - y
      BY <1>2 DEF Turns
    <2> QED BY <2>1, LastTakes
  <1>4. Gone(h, s, n + 1, Len(s))
    <2>1. ~Alive(h, i, n + 1)
      BY <1>1 DEF Turns
    <2>2. \A j \in 1..Len(s) : j = Len(s) \/ j \in 1..(Len(s) - 1)
      BY <1>1
    <2> QED BY <1>1, <2>1, <2>2 DEF Gone
  <1>5. /\ c.pos = h[n + 1]
        /\ c.cycles = Append(LivesOf(h, a, z, s, n + 1),
                             Cycle(Side(h[n + 1]), {fills[n + 1].owner}, Abs(h[n + 1]), FALSE))
    <2> PICK j : j = n + 1
      OBVIOUS
    <2>1. c = Reduced(b, j, d)
      BY <1>1 DEF ReplayFill, Fill
    <2>2. Min({Abs(b.pos), Abs(d)}) = Abs(b.pos) /\ Abs(b.pos) # Abs(d)
      BY <1>1 DEF Turns
    <2>3. /\ c.pos = b.pos + d
          /\ c.cycles = Append(BookExit(b, j, Abs(b.pos)), Opening(d, j, Abs(d) - Abs(b.pos)))
      BY <2>1, <2>2, BookTurns
    <2>4. b.pos + d = h[n + 1]
      BY <1>1 DEF Fill
    <2>5. Opening(d, j, Abs(d) - Abs(b.pos))
            = Cycle(Side(h[n + 1]), {fills[n + 1].owner}, Abs(h[n + 1]), FALSE)
      <3>1. Side(d) = Side(h[n + 1]) /\ Abs(d) - Abs(b.pos) = Abs(h[n + 1])
        BY <1>1 DEF Turns, Fill
      <3> QED BY <3>1, Zenon DEF Opening
    <2>6. BookExit(b, j, Abs(b.pos)) = LivesOf(h, a, z, s, n + 1)
      BY <1>1, <1>3
    <2> QED BY <2>3, <2>4, <2>5, <2>6, Zenon
  <1>6. Tells(c, h, a, z, Append(s, n + 1), n + 1)
    <2>1. Walk(h, a, z) /\ n \in a..z /\ n + 1 \in a..z /\ Ascends(s, BeginsOf(h, a, n))
      BY DEF Fill, Tells
    <2>2. h[n + 1] # 0 /\ ~SameSide(h[n], h[n + 1])
      BY DEF Fill, Turns
    <2> QED BY <1>4, <1>5, <2>1, <2>2, TellsBegin
  <1> QED BY <1>6

\* one fill more is told
LEMMA TellsNext ==
  ASSUME NEW b, NEW h, NEW a, NEW z, Walk(h, a, z), NEW n, n \in a..z, n + 1 \in a..z,
         NEW s, Tells(b, h, a, z, s, n)
  PROVE  \E t : Tells(ReplayFill(b, n + 1), h, a, z, t, n + 1)
  <1> PICK p, q, d : p = h[n] /\ q = h[n + 1] /\ d = q - p
    OBVIOUS
  <1>1. Fill(h, a, z, n, p, q, d)
    <2>1. a \in Nat /\ z \in Nat /\ n \in Nat /\ a <= n /\ p \in Int /\ q \in Int /\ d \in Int
          /\ n + 1 \in (a + 1)..z /\ (n + 1) - 1 = n
      BY DEF Walk
    <2>2. q # p /\ Pos(n + 1) - Pos((n + 1) - 1) = d
      BY <2>1 DEF Walk
    <2>3. d # 0
      BY <2>1, <2>2
    <2>4. ~(n + 1 < a + 1)
      BY <2>1
    <2> QED BY <2>1, <2>2, <2>3, <2>4 DEF Fill, OwnerOf
  <1>2. CASE Flat(h, a, z, s, n)
    BY <1>1, <1>2, TellsFlat
  <1>3. CASE Held(h, a, z, s, n)
    <2>1. p # 0
      BY <1>3 DEF Held
    <2>2. Adds(p, q, d) \/ (~SameSide(p, d) /\ (Takes(p, q, d) \/ Turns(p, q, d)))
      <3>1. p \in Int /\ q \in Int /\ d \in Int /\ d = q - p /\ d # 0
        BY <1>1 DEF Fill
      <3> QED BY <2>1, <3>1, ThreeWays
    <2>3. CASE Adds(p, q, d)
      BY <1>1, <1>3, <2>3, TellsAdds
    <2>4. CASE ~SameSide(p, d) /\ Takes(p, q, d)
      BY <1>1, <1>3, <2>4, TellsTakes
    <2>5. CASE ~SameSide(p, d) /\ Turns(p, q, d)
      BY <1>1, <1>3, <2>5, TellsTurns
    <2> QED BY <2>2, <2>3, <2>4, <2>5
  <1> QED BY <1>2, <1>3 DEF Tells

\* every fill of a scope is told
LEMMA TellsAll ==
  ASSUME NEW h, NEW a, NEW z, Walk(h, a, z), NEW e \in Nat, e = z - a, NEW F,
         F[0] = Carried(h[a]), \A m \in 1..e : F[m] = ReplayFill(F[m - 1], a + m)
  PROVE  \E s : Tells(F[e], h, a, z, s, z)
  <1>0. a \in Nat /\ z \in Nat /\ a + e = z
    BY DEF Walk
  <1> DEFINE Bad == {m \in Nat : m <= e /\ ~\E s : Tells(F[m], h, a, z, s, a + m)}
  <1>1. SUFFICES ASSUME Bad # {} PROVE FALSE
    <2>1. \E s : Tells(F[e], h, a, z, s, a + e)
      BY <1>1
    <2> QED BY <1>0, <2>1
  <1>2. PICK m \in Bad : \A k \in Bad : m <= k
    <2>1. Bad \in SUBSET Nat
      OBVIOUS
    <2> QED BY <1>1, <2>1, LeastNumber
  <1>3. CASE m = 0
    <2>1. a + m = a
      BY <1>0, <1>3
    <2> QED BY <1>3, <2>1, TellsInit
  <1>4. CASE m # 0
    <2> PICK n, j : n = a + (m - 1) /\ j = m - 1
      OBVIOUS
    <2>1. j \in Nat /\ j <= e /\ j < m /\ m \in 1..e
      BY <1>4
    <2>2. j \notin Bad
      BY <1>2, <2>1
    <2>3. PICK s : Tells(F[j], h, a, z, s, a + j)
      BY <2>1, <2>2
    <2>4. n = a + j /\ n \in a..z /\ n + 1 \in a..z /\ n + 1 = a + m
      BY <1>0, <2>1
    <2>5. \E t : Tells(ReplayFill(F[j], n + 1), h, a, z, t, n + 1)
      BY <2>3, <2>4, TellsNext
    <2>6. F[m] = ReplayFill(F[j], n + 1)
      BY <2>1, <2>4
    <2> QED BY <2>4, <2>5, <2>6
  <1> QED BY <1>3, <1>4

\* The cycles a replay computes are the stretches of the position it assumes,
\* whatever the scope, as long as every fill changes the position.
LEMMA CyclesAreLives ==
  ASSUME NEW from \in Nat, from # 0, NEW upto \in Nat, from <= upto + 1, NEW pos \in Int,
         \A i \in 0..upto : Pos(i) \in Int,
         \A i \in 1..upto : Pos(i) # Pos(i - 1)
  PROVE  Cycles(from, upto, pos) = Lives(from, upto, pos)
  <1> PICK a, z, e, x : /\ a = from - 1 /\ z = upto /\ e = upto - from + 1
                        /\ x = Initial(from, upto, pos)
    OBVIOUS
  <1>1. a \in Nat /\ z \in Nat /\ e \in Nat /\ a <= z /\ e = z - a /\ from = a + 1
    OBVIOUS
  <1>2. x \in Int
    <2>1. Pos(z) \in Int /\ Pos(a) \in Int
      <3>1. a \in 0..upto /\ z \in 0..upto
        BY <1>1
      <3> QED BY <3>1
    <2> QED BY <2>1 DEF Initial
  <1> PICK h : h = [i \in a..z |-> Replayed(from, upto, pos, i)]
    OBVIOUS
  <1>3. \A i \in a..z : h[i] = x + (Pos(i) - Pos(a))
    BY DEF Replayed
  <1>4. \A i \in a..z : Pos(i) \in Int
    <2>1. \A i \in a..z : i \in 0..upto
      BY <1>1
    <2> QED BY <2>1
  <1>5. Walk(h, a, z)
    <2>0. Pos(a) \in Int
      BY <1>1, <1>4
    <2>1. \A i \in a..z : h[i] \in Int
      BY <1>2, <1>3, <1>4, <2>0
    <2>2. ASSUME NEW i \in (a + 1)..z
          PROVE  h[i] # h[i - 1] /\ Pos(i) - Pos(i - 1) = h[i] - h[i - 1]
      <3>1. i \in a..z /\ i - 1 \in a..z /\ i \in 1..upto
        BY <1>1
      <3>2. h[i] = x + (Pos(i) - Pos(a)) /\ h[i - 1] = x + (Pos(i - 1) - Pos(a))
        BY <1>3, <3>1
      <3>3. Pos(i) \in Int /\ Pos(i - 1) \in Int /\ Pos(i) # Pos(i - 1)
        BY <1>4, <3>1
      <3> QED BY <1>2, <2>0, <3>2, <3>3
    <2>3. h \in [a..z -> Int]
      BY <2>1
    <2> QED BY <1>1, <2>2, <2>3 DEF Walk
  <1>6. h[a] = x
    <2>1. a \in a..z
      BY <1>1
    <2> QED BY <1>2, <1>3, <1>4, <2>1
  <1> PICK sc : sc = [k \in 1..e |-> from + k - 1]
    OBVIOUS
  <1>7. Cycles(from, upto, pos) = FoldOf(Carried(x), sc).cycles
    BY DEF Cycles, FoldOf
  <1>8. PICK F : Books(F, sc, e, Carried(x))
    <2>1. DOMAIN sc = 1..e
      OBVIOUS
    <2>2. e \in Nat
      BY <1>1
    <2> QED BY <2>1, <2>2, FoldReplays
  <1>9. \A m \in 1..e : F[m] = ReplayFill(F[m - 1], a + m)
    <2>1. \A m \in 1..e : sc[m] = a + m
      BY <1>1
    <2> QED BY <1>8, <2>1 DEF Books
  <1>10. PICK s : Tells(F[e], h, a, z, s, z)
    <2>1. F[0] = Carried(h[a])
      BY <1>6, <1>8 DEF Books
    <2> QED BY <1>1, <1>5, <1>9, <2>1, TellsAll
  <1>11. Cycles(from, upto, pos) = [k \in 1..Len(s) |-> LifeOf(h, a, z, s[k], z)]
    BY <1>7, <1>8, <1>10 DEF Tells, LivesOf, Books
  <1>12. Ascends(s, BeginsOf(h, a, z)) /\ \A k \in 1..Len(s) : s[k] \in a..z
    BY <1>1, <1>10, BeginsOrdered DEF Tells
  <1>13. Begins(from, h) = BeginsOf(h, a, z)
    <2>1. DOMAIN h = a..z
      OBVIOUS
    <2> QED BY <1>1, <2>1 DEF Begins, BeginsOf
  <1>14. InOrder(Begins(from, h)) = s
    BY <1>12, <1>13, InOrderIs
  <1>15. DOMAIN s = 1..Len(s)
    BY <1>1, <1>12, BeginsOrdered, LenProperties
  <1>16. \A k \in 1..Len(s) : Life(from, h, s[k]) = LifeOf(h, a, z, s[k], z)
    <2>1. Upto(h, a, z) = h
      BY DEF Upto
    <2>2. z \in a..z
      BY <1>1
    <2>3. \A k \in 1..Len(s) : Life(a + 1, Upto(h, a, z), s[k]) = LifeOf(h, a, z, s[k], z)
      BY <1>5, <1>12, <2>2, LifeIs
    <2> QED BY <1>1, <2>1, <2>3
  <1>17. Lives(from, upto, pos) = [k \in 1..Len(s) |-> Life(from, h, s[k])]
    <2>1. h = [i \in (from - 1)..upto |-> Replayed(from, upto, pos, i)]
      OBVIOUS
    <2> QED BY <1>14, <1>15, <2>1, Zenon DEF Lives
  <1>18. [k \in 1..Len(s) |-> Life(from, h, s[k])] = [k \in 1..Len(s) |-> LifeOf(h, a, z, s[k], z)]
    BY <1>16, Zenon
  <1> QED BY <1>11, <1>17, <1>18, Zenon

(***************************************************************************)
(* The cycles of every run.                                                *)
(***************************************************************************)

\* Every fill changes the position; no scope ends before the fill in front of it.
FillsMove == \A i \in 1..Len(fills) : Pos(i) # Pos(i - 1)
RunScopes == \A r \in 1..Len(runs) : runs[r].from <= runs[r].upto + 1
JobScope == job.pc # "idle" => job.from <= job.upto + 1
Scopes == FillsMove /\ RunScopes /\ JobScope

\* Nothing has been traded and no job has begun.
LEMMA ScopesStart == Init => Scopes
  BY DEF Init, Scopes, FillsMove, RunScopes, JobScope, NoJob

\* Only a trade adds a fill.
LEMMA FillsMoveKept ==
  ASSUME IInv, FillsMove, Trade \/ fills' = fills
  PROVE  FillsMove'
  <1>1. CASE fills' = fills
    BY <1>1, PosSame DEF FillsMove
  <1>2. CASE Trade
    <2> PICK f \in Fills : fills' = Append(fills, f) /\ f.after # Pos(Len(fills))
      BY <1>2 DEF Trade
    <2> PICK n : n = Len(fills)
      OBVIOUS
    <2>1. fills \in Seq(Fills) /\ n \in Nat
      BY DEF IInv, TablesOK
    <2>2. /\ Len(fills') = n + 1 /\ fills'[n + 1] = f
          /\ \A i \in 1..n : fills'[i] = fills[i]
      BY <2>1, AppendProperties
    <2>3. \A i \in 0..n : Pos(i)' = Pos(i)
      BY <2>1, <2>2 DEF Pos
    <2>4. Pos(n + 1)' = f.after
      BY <2>1, <2>2 DEF Pos
    <2>5. ASSUME NEW i \in 1..n PROVE Pos(i)' # Pos(i - 1)'
      <3>1. i \in 0..n /\ i - 1 \in 0..n
        BY <2>1
      <3> QED BY <2>3, <3>1 DEF FillsMove
    <2>6. Pos(n + 1)' # Pos((n + 1) - 1)'
      <3>1. n \in 0..n /\ (n + 1) - 1 = n
        BY <2>1
      <3> QED BY <2>3, <2>4, <3>1
    <2>7. \A i \in 1..(n + 1) : i \in 1..n \/ i = n + 1
      BY <2>1
    <2> QED BY <2>2, <2>5, <2>6, <2>7 DEF FillsMove
  <1> QED BY <1>1, <1>2

\* No job ends its scope before the fill in front of it.
LEMMA JobScopeKept ==
  ASSUME IInv, Scopes, [Next]_vars
  PROVE  JobScope'
  <1>0. Len(fills) \in Nat /\ DOMAIN runs = 1..Len(runs) /\ TablesOK
    BY DEF IInv, TablesOK
  <1>1. CASE job' = NoJob
    BY <1>1 DEF JobScope, NoJob
  <1>2. CASE \/ job' = job
             \/ /\ job.pc # "idle" /\ job'.from = job.from /\ job'.upto = job.upto
    BY <1>2 DEF Scopes, JobScope
  <1>3. CASE \E t \in waiting : \E from \in 1..Len(fills) + 1 : BeginPreview(t, from)
    <2> PICK t \in waiting, from \in 1..Len(fills) + 1 : BeginPreview(t, from)
      BY <1>3
    <2>1. job'.from = from /\ job'.upto = Len(fills)
      BY DEF BeginPreview, NoJob
    <2> QED BY <1>0, <2>1 DEF JobScope
  <1>4. CASE \E r \in DOMAIN runs : BeginApply(r)
    <2> PICK r \in DOMAIN runs : BeginApply(r)
      BY <1>4
    <2>1. job'.from = runs[r].from /\ job'.upto = Len(fills)
      BY DEF BeginApply, NoJob
    <2>2. runs[r].from <= Len(fills) + 1
      BY <1>0 DEF IInv, RunSeen
    <2> QED BY <2>1, <2>2 DEF JobScope
  <1>5. CASE Trade \/ Ingest \/ RequestPreview \/ LateProgress \/ UNCHANGED vars
    <2>1. job' = job
      BY <1>5 DEF Trade, Ingest, RequestPreview, LateProgress, vars
    <2> QED BY <1>2, <2>1
  <1>6. CASE JobStep
    <2>1. CASE ReadFills \/ ReadPosition \/ Persist
      <3>1. job \in Jobs
        BY DEF IInv, JobOK, Jobs
      <3>2. job.pc # "idle" /\ job'.from = job.from /\ job'.upto = job.upto
        BY <2>1, <3>1 DEF ReadFills, ReadPosition, Persist, Jobs
      <3> QED BY <1>2, <3>2
    <2>2. CASE JobFails \/ Succeed \/ Activate
      BY <1>1, <2>2 DEF JobFails, Succeed, Activate
    <2>3. CASE Compare
      <3>1. job \in Jobs
        BY DEF IInv, JobOK, Jobs
      <3>2. \/ job' = NoJob
            \/ job.pc # "idle" /\ job'.from = job.from /\ job'.upto = job.upto
        BY <2>3, <3>1 DEF Compare, Jobs
      <3> QED BY <1>1, <1>2, <3>2
    <2> QED BY <1>6, <2>1, <2>2, <2>3 DEF JobStep
  <1>7. CASE Restart
    BY <1>1, <1>7 DEF Restart
  <1> QED BY <1>3, <1>4, <1>5, <1>6, <1>7 DEF Next

\* A run has the scope of the job that found it.
LEMMA RunScopesKept ==
  ASSUME IInv, Scopes, [Next]_vars
  PROVE  RunScopes'
  <1>0. runs \in Seq(Results) /\ Len(runs) \in Nat /\ DOMAIN runs = 1..Len(runs)
    BY DEF IInv, TablesOK
  <1>1. CASE runs' = runs
    BY <1>1 DEF Scopes, RunScopes
  <1>2. CASE Persist
    <2>1. CASE runs' = Append(runs, Found("previewed"))
      <3> PICK x, n : x = Found("previewed") /\ n = Len(runs)
        OBVIOUS
      <3>1. x.from = job.from /\ x.upto = job.upto /\ job.from <= job.upto + 1
        BY <1>2 DEF Found, Persist, Scopes, JobScope
      <3>2. Len(runs') = n + 1 /\ runs'[n + 1] = x /\ \A r \in 1..n : runs'[r] = runs[r]
        BY <1>0, <2>1, AppendProperties
      <3>3. \A r \in 1..(n + 1) : r \in 1..n \/ r = n + 1
        BY <1>0
      <3> QED BY <3>1, <3>2, <3>3 DEF Scopes, RunScopes
    <2> QED BY <1>1, <1>2, <2>1 DEF Persist
  <1>3. CASE Activate
    <2>1. runs' = Activated(job.run)
      BY <1>3 DEF Activate
    <2>2. DOMAIN runs' = 1..Len(runs) /\ Len(runs') = Len(runs)
      <3>1. TablesOK' /\ DOMAIN runs' = 1..Len(runs)
        BY <1>0, <1>3, <2>1, ActivateKeeps DEF Activated, IInv
      <3>2. DOMAIN runs' = 1..Len(runs') /\ Len(runs') \in Nat
        BY <3>1 DEF TablesOK
      <3> QED BY <1>0, <3>1, <3>2
    <2>3. \A r \in 1..Len(runs) : runs'[r].from = runs[r].from /\ runs'[r].upto = runs[r].upto
      <3>1. \A r \in 1..Len(runs) : runs[r] \in Results
        BY <1>0
      <3> QED BY <1>0, <2>1, <3>1 DEF Activated, Results
    <2> QED BY <2>2, <2>3 DEF Scopes, RunScopes
  <1>4. CASE ~Persist /\ ~Activate
    <2>1. runs' = runs
      BY <1>4 DEF Next, JobStep, Trade, Ingest, RequestPreview, BeginPreview, BeginApply, ReadFills,
         ReadPosition, JobFails, Succeed, Compare, LateProgress, Restart, Unsaved, vars
    <2> QED BY <1>1, <2>1
  <1> QED BY <1>2, <1>3, <1>4

\* Every step keeps them.
LEMMA ScopesKept == IInv /\ Scopes /\ [Next]_vars => Scopes'
  <1> SUFFICES ASSUME IInv, Scopes, [Next]_vars PROVE Scopes'
    OBVIOUS
  <1>1. Trade \/ fills' = fills
    BY DEF Next, JobStep, Ingest, RequestPreview, BeginPreview, BeginApply, ReadFills,
       ReadPosition, JobFails, Persist, Succeed, Compare, Activate, LateProgress, Restart, Unsaved, vars
  <1>2. FillsMove'
    BY <1>1, FillsMoveKept DEF Scopes
  <1> QED BY <1>2, JobScopeKept, RunScopesKept DEF Scopes

\* The cycles of every run, applied or not, are the stretches of the position
\* it assumes: what replay_trade_cycles computes fill by fill loses no fill and
\* counts none twice, however long the scope is and whatever is traded in it.
THEOREM CyclesTrue == Spec => []CyclesFollowPosition
  <1>1. ASSUME IInv, Scopes PROVE CyclesFollowPosition
    <2> SUFFICES ASSUME NEW r \in DOMAIN runs
                 PROVE  Cycles(runs[r].from, runs[r].upto, runs[r].pos)
                          = Lives(runs[r].from, runs[r].upto, runs[r].pos)
      BY DEF CyclesFollowPosition
    <2>1. r \in 1..Len(runs) /\ runs[r] \in Results /\ Len(fills) \in Nat /\ TablesOK
      BY <1>1 DEF IInv, TablesOK
    <2> PICK from, upto, pos : from = runs[r].from /\ upto = runs[r].upto /\ pos = runs[r].pos
      OBVIOUS
    <2>2. from \in Nat /\ from # 0 /\ upto \in Nat /\ pos \in Int
      <3>1. from \in 1..MaxFills + 1 /\ upto \in 0..MaxFills /\ pos \in Positions
        BY <2>1 DEF Results
      <3>2. MaxFills \in Nat /\ Positions \subseteq Int
        BY Ranges
      <3> QED BY <3>1, <3>2
    <2>3. from <= upto + 1 /\ upto <= Len(fills)
      BY <1>1, <2>1 DEF IInv, RunSeen, Scopes, RunScopes
    <2>4. \A i \in 0..upto : Pos(i) \in Int
      <3>1. \A i \in 0..upto : i \in 0..Len(fills)
        BY <2>1, <2>2, <2>3
      <3> QED BY <2>1, <3>1, PosType
    <2>5. \A i \in 1..upto : Pos(i) # Pos(i - 1)
      <3>1. \A i \in 1..upto : i \in 1..Len(fills)
        BY <2>1, <2>2, <2>3
      <3> QED BY <1>1, <3>1 DEF Scopes, FillsMove
    <2> QED BY <2>2, <2>3, <2>4, <2>5, CyclesAreLives
  <1>2. IInv /\ Scopes => CyclesFollowPosition
    BY <1>1
  <1> QED BY Start, Step, ScopesStart, ScopesKept, <1>2, PTL DEF Spec
=============================================================================
