------------------------ MODULE ControlCommandsProofs ------------------------
(***************************************************************************)
(* What TLAPS proves of ControlCommands, for any kinds of settings and any *)
(* number of commands, failed calls and crashes: its invariants and action *)
(* properties.  The argument: the memory of the engine is what is stored,  *)
(* or one version ahead of it; a form cannot show a version that was never *)
(* stored, so nothing is built on a memory that is ahead; and a form that  *)
(* shows the stored version was filled in after the row that stored it.    *)
(***************************************************************************)
EXTENDS ControlCommands, SequenceTheorems, TLAPS

\* Memory is at most one version ahead of the store.
MemoryAhead ==
  \A k \in Kinds : mem[k] = stored[k] \/ mem[k].version = stored[k].version + 1

\* What forms show was stored, before they were applied.
FormsShowStored ==
  \A r \in Rows : queue[r].ask \in Kinds =>
    /\ queue[r].expected <= stored[queue[r].ask].version
    /\ queue[r].expected = stored[queue[r].ask].version =>
         stored[queue[r].ask].row < r

\* The settings about to be written are those of the row at work.
SavesRow ==
  at = "save" /\ queue[row].ask \in Kinds =>
    /\ mem[queue[row].ask].row = row
    /\ queue[row].expected = stored[queue[row].ask].version
    /\ mem[queue[row].ask].version = stored[queue[row].ask].version + 1

\* A row about to be answered "done" is stored.
VerdictTrue ==
  (at = "breaker" \/ (at = "mark" /\ verdict = "done"))
  /\ queue[row].ask \in Kinds
     => stored[queue[row].ask].row >= row

RowsStored == \A k \in Kinds : stored[k].row <= Len(queue)

\* The batch is missing no row that comes before one of its own.
BatchInOrder ==
  /\ \A r \in Pending, s \in batch : r < s => r \in batch
  /\ at \in {"save", "breaker", "mark"} => \A s \in batch : row <= s

IInv == /\ Tables /\ Loop
        /\ MemoryAhead /\ FormsShowStored /\ SavesRow /\ VerdictTrue
        /\ RowsStored /\ BatchInOrder
        /\ DoneIsStored /\ AnsweredInOrder

(***************************************************************************)
(* The web process.                                                        *)
(***************************************************************************)

\* A row is added at the end of the queue.
LEMMA EnqueueKeeps ==
  ASSUME IInv, NEW ask \in Asks, NEW expected \in Nat, Enqueue(ask, expected),
         ask \in Kinds => expected <= stored[ask].version
  PROVE  IInv'
  <1> DEFINE c == [ask |-> ask, expected |-> expected, status |-> "pending"]
             n == Len(queue) + 1
  <1>0. /\ Tables /\ Loop /\ UNCHANGED <<settings, engine, budget>>
        /\ queue' = Append(queue, c)
    BY DEF IInv, Enqueue
  <1>1. c \in Command
    BY DEF Command, Verdicts
  <1>2. queue' \in Seq(Command) /\ Len(queue') = n /\ n \in Nat
    BY <1>0, <1>1 DEF Tables
  <1>3. (\A r \in Rows : queue'[r] = queue[r]) /\ queue'[n] = c
    BY <1>0, <1>1 DEF Tables, Rows
  <1>4. Rows' = Rows \union {n} /\ Rows \subseteq Nat /\ \A r \in Rows : r < n
    BY <1>0, <1>2 DEF Rows, Tables
  <1>5. Pending' = Pending \union {n}
    <2>1. Pending' = {r \in Rows' : queue'[r].status = "pending"}
      BY DEF Pending
    <2>2. queue'[n].status = "pending"
      BY <1>3
    <2> HIDE DEF c, n
    <2> QED BY <1>3, <1>4, <2>1, <2>2 DEF Pending
  <1>6. batch \subseteq Rows /\ (at \in {"save", "breaker", "mark"} => row \in Rows)
    BY <1>0 DEF Loop, Pending
  <1>7. Tables' /\ Loop'
    BY <1>0, <1>2, <1>5 DEF Tables, Loop, settings, engine
  <1>8. MemoryAhead'
    BY <1>0 DEF IInv, MemoryAhead, settings
  <1>9. FormsShowStored'
    <2>1. ask \in Kinds => stored[ask].row < n
      BY <1>0 DEF IInv, RowsStored, Tables, Setting
    <2>2. queue'[n].ask = ask /\ queue'[n].expected = expected
          /\ stored' = stored /\ Rows' = Rows \union {n}
      BY <1>0, <1>3, <1>4 DEF settings
    <2> HIDE DEF c, n
    <2> QED BY <1>3, <2>1, <2>2 DEF IInv, FormsShowStored
  <1>10. SavesRow' /\ VerdictTrue'
    BY <1>0, <1>3, <1>6 DEF IInv, SavesRow, VerdictTrue, settings, engine
  <1>11. RowsStored'
    BY <1>0, <1>2 DEF IInv, RowsStored, Tables, Setting, settings
  <1>12. BatchInOrder'
    <2>1. UNCHANGED <<at, batch, row>> /\ Pending \subseteq Rows
      BY <1>0 DEF engine, Pending
    <2>2. \A s \in batch : s < n
      BY <1>4, <1>6
    <2>3. ~(\E s \in batch : n < s)
      <3> HIDE DEF n
      <3> QED BY <1>4, <1>6, <1>2, <2>2
    <2> HIDE DEF n
    <2> QED BY <1>5, <2>1, <2>3 DEF IInv, BatchInOrder
  <1>13. DoneIsStored'
    <2>1. queue'[n].status = "pending" /\ stored' = stored
      BY <1>0, <1>3 DEF settings
    <2> HIDE DEF c, n
    <2> QED BY <1>3, <1>4, <2>1 DEF IInv, DoneIsStored
  <1>14. AnsweredInOrder'
    <2>1. \A r \in Rows : ~(n < r)
      <3> HIDE DEF n
      <3> QED BY <1>2, <1>4
    <2> HIDE DEF n
    <2> QED BY <1>4, <1>5, <2>1 DEF IInv, AnsweredInOrder
  <1> QED BY <1>7, <1>8, <1>9, <1>10, <1>11, <1>12, <1>13, <1>14 DEF IInv

(***************************************************************************)
(* The engine: what steps that leave tables alone cannot disturb.          *)
(***************************************************************************)

\* The queue and the store as they were.
LEMMA TablesKept == ASSUME IInv, UNCHANGED <<queue, stored>>
                    PROVE  /\ Rows' = Rows /\ Pending' = Pending
                           /\ FormsShowStored' /\ RowsStored'
                           /\ DoneIsStored' /\ AnsweredInOrder'
  BY DEF IInv, Rows, Pending, FormsShowStored, RowsStored, DoneIsStored,
         AnsweredInOrder

\* Steps that hand the row at work to the answer "failed".
LEMMA FailedVerdict ==
  ASSUME IInv, UNCHANGED <<queue, settings, batch>>,
         at' = "mark", verdict' = "failed",
         row' \in batch, \A s \in batch : row' <= s
  PROVE  IInv'
  <1>1. /\ FormsShowStored' /\ RowsStored' /\ DoneIsStored' /\ AnsweredInOrder'
        /\ Pending' = Pending
    BY TablesKept DEF settings
  <1>2. Tables' /\ MemoryAhead'
    BY DEF IInv, Tables, MemoryAhead, settings
  <1>3. Loop'
    BY <1>1 DEF IInv, Loop, Verdicts, Pending, Rows
  <1>4. SavesRow' /\ VerdictTrue'
    BY DEF SavesRow, VerdictTrue
  <1>5. BatchInOrder'
    BY <1>1 DEF IInv, BatchInOrder
  <1> QED BY <1>1, <1>2, <1>3, <1>4, <1>5 DEF IInv

\* Steps that leave the loop.
LEMMA LoopLeft ==
  ASSUME IInv, UNCHANGED <<queue, stored, row, verdict>>,
         at' \in {"idle", "down"}, batch' = {}, halted' \in BOOLEAN,
         mem' = mem \/ mem' = stored
  PROVE  IInv'
  <1>1. /\ FormsShowStored' /\ RowsStored' /\ DoneIsStored' /\ AnsweredInOrder'
        /\ Pending' = Pending
    BY TablesKept
  <1>2. Tables' /\ MemoryAhead'
    BY DEF IInv, Tables, MemoryAhead
  <1>3. Loop'
    BY <1>1 DEF IInv, Loop
  <1>4. SavesRow' /\ VerdictTrue' /\ BatchInOrder'
    BY DEF SavesRow, VerdictTrue, BatchInOrder
  <1> QED BY <1>1, <1>2, <1>3, <1>4 DEF IInv

(***************************************************************************)
(* The engine, action by action.                                           *)
(***************************************************************************)

LEMMA FetchKeeps == ASSUME IInv, Fetch PROVE IInv'
  <1>1. /\ FormsShowStored' /\ RowsStored' /\ DoneIsStored' /\ AnsweredInOrder'
        /\ Pending' = Pending
    BY TablesKept DEF Fetch, settings
  <1>2. Tables' /\ MemoryAhead'
    BY DEF IInv, Tables, MemoryAhead, settings, Fetch
  <1>3. Loop' /\ BatchInOrder'
    BY <1>1 DEF IInv, Loop, BatchInOrder, Fetch
  <1>4. SavesRow' /\ VerdictTrue'
    BY DEF SavesRow, VerdictTrue, Fetch
  <1> QED BY <1>1, <1>2, <1>3, <1>4 DEF IInv

\* The version that the form showed is the one of memory, so memory is stored.
LEMMA CurrentIsStored ==
  ASSUME IInv, NEW r \in Rows, queue[r].ask \in Kinds, Current(r)
  PROVE  /\ mem[queue[r].ask] = stored[queue[r].ask]
         /\ queue[r].expected = stored[queue[r].ask].version
  <1> DEFINE k == queue[r].ask
  <1>1. /\ mem[k].version \in Nat /\ stored[k].version \in Nat
        /\ queue[r].expected \in Nat
    <2>1. queue[r] \in Command /\ mem[k] \in Setting /\ stored[k] \in Setting
      BY DEF IInv, Tables, Rows
    <2> QED BY <2>1 DEF Command, Setting
  <1>2. queue[r].expected <= stored[k].version
    BY DEF IInv, FormsShowStored
  <1>3. queue[r].expected = mem[k].version
    BY DEF Current
  <1>4. mem[k] = stored[k] \/ mem[k].version = stored[k].version + 1
    BY DEF IInv, MemoryAhead
  <1> QED BY <1>1, <1>2, <1>3, <1>4

LEMMA AdoptKeeps == ASSUME IInv, NEW r \in Rows, Adopt(r) PROVE IInv'
  <1> DEFINE k == queue[r].ask
             new == [version |-> mem[k].version + 1, row |-> r]
  <1>0. /\ k \in Kinds /\ r \in batch /\ row' = r /\ at = "exec"
        /\ mem' = [mem EXCEPT ![k] = new] /\ at' = "save"
        /\ UNCHANGED <<queue, stored, halted, batch, verdict>>
        /\ \A s \in batch : r <= s
    BY DEF Adopt, Takes
  <1>1. /\ FormsShowStored' /\ RowsStored' /\ DoneIsStored' /\ AnsweredInOrder'
        /\ Pending' = Pending
    BY <1>0, TablesKept
  <1>2. mem[k] = stored[k] /\ queue[r].expected = stored[k].version
    BY <1>0, CurrentIsStored DEF Adopt
  <1>3. new \in Setting /\ r \in Nat
    BY <1>0 DEF IInv, Tables, Setting, Rows
  <1>4. mem' \in [Kinds -> Setting] /\ mem'[k] = new
        /\ \A j \in Kinds : j # k => mem'[j] = mem[j]
    BY <1>0, <1>3 DEF IInv, Tables
  <1>5. Tables'
    BY <1>0, <1>4 DEF IInv, Tables
  <1>6. MemoryAhead'
    BY <1>0, <1>2, <1>4 DEF IInv, MemoryAhead
  <1>7. Loop'
    BY <1>0, <1>1, <1>3 DEF IInv, Loop
  <1>8. SavesRow'
    BY <1>0, <1>2, <1>4 DEF SavesRow
  <1>9. VerdictTrue' /\ BatchInOrder'
    BY <1>0, <1>1 DEF IInv, VerdictTrue, BatchInOrder
  <1> QED BY <1>1, <1>5, <1>6, <1>7, <1>8, <1>9 DEF IInv

LEMMA RefusedKeeps == ASSUME IInv, NEW r \in Rows, Conflict(r) \/ Refuse(r)
                      PROVE  IInv'
  BY FailedVerdict DEF Conflict, Refuse, Takes

LEMMA ResumeKeeps == ASSUME IInv, NEW r \in Rows, Resume(r) PROVE IInv'
  <1>0. /\ queue[r].ask = "RESUME" /\ r \in batch /\ row' = r /\ at = "exec"
        /\ at' = "save" /\ halted' = FALSE
        /\ UNCHANGED <<queue, stored, mem, batch, verdict>>
        /\ \A s \in batch : r <= s
    BY DEF Resume, Takes
  <1>1. /\ FormsShowStored' /\ RowsStored' /\ DoneIsStored' /\ AnsweredInOrder'
        /\ Pending' = Pending
    BY <1>0, TablesKept
  <1>2. Tables' /\ MemoryAhead'
    BY <1>0 DEF IInv, Tables, MemoryAhead
  <1>3. Loop' /\ BatchInOrder'
    BY <1>0, <1>1 DEF IInv, Loop, BatchInOrder, Rows
  <1>4. SavesRow' /\ VerdictTrue'
    BY <1>0, CommandsAssumption DEF SavesRow, VerdictTrue, CommandsAssumption
  <1> QED BY <1>1, <1>2, <1>3, <1>4 DEF IInv

\* The row at work while it is at work.
LEMMA AtWork == ASSUME IInv, at \in {"save", "breaker", "mark"}
                PROVE  /\ row \in batch /\ row \in Pending /\ row \in Rows
                       /\ row \in Nat /\ queue[row] \in Command
                       /\ \A s \in batch : row <= s
  BY DEF IInv, Loop, BatchInOrder, Pending, Rows, Tables

LEMMA SaveKeeps == ASSUME IInv, Save PROVE IInv'
  <1> DEFINE k == queue[row].ask
  <1>0. /\ row \in batch /\ row \in Rows /\ row \in Nat /\ queue[row] \in Command
        /\ at = "save"
    BY AtWork DEF Save
  <1>1. /\ UNCHANGED <<queue, mem, halted, batch, row>> /\ verdict' = "done"
        /\ at' \in {"breaker", "mark"}
        /\ Rows' = Rows /\ Pending' = Pending
    BY DEF Save, Rows, Pending
  <1>2. Loop' /\ SavesRow' /\ BatchInOrder'
    BY <1>0, <1>1 DEF IInv, Loop, SavesRow, BatchInOrder, Verdicts
  <1>3. CASE k \notin Kinds
    <2>1. UNCHANGED <<queue, stored>>
      BY <1>3 DEF Save
    <2>2. /\ FormsShowStored' /\ RowsStored' /\ DoneIsStored'
          /\ AnsweredInOrder'
      BY <2>1, TablesKept
    <2>3. Tables' /\ MemoryAhead' /\ VerdictTrue'
      BY <1>1, <1>3, <2>1 DEF IInv, Tables, MemoryAhead, VerdictTrue
    <2> QED BY <1>2, <2>2, <2>3 DEF IInv
  <1>4. CASE k \in Kinds
    <2>1. stored' = [stored EXCEPT ![k] = mem[k]]
      BY <1>4 DEF Save
    <2>2. mem[k] \in Setting /\ stored[k] \in Setting
      BY <1>4 DEF IInv, Tables
    <2>3. /\ stored' \in [Kinds -> Setting] /\ stored'[k] = mem[k]
          /\ \A j \in Kinds : j # k => stored'[j] = stored[j]
      BY <1>4, <2>1, <2>2 DEF IInv, Tables
    <2>4. /\ mem[k].row = row /\ queue[row].expected = stored[k].version
          /\ mem[k].version = stored[k].version + 1
          /\ stored[k].row < row
      BY <1>0, <1>4 DEF IInv, SavesRow, FormsShowStored
    <2>5. /\ stored[k].version \in Nat /\ stored[k].row \in Nat
          /\ \A r \in Rows : r \in Nat /\ queue[r].expected \in Nat
      <3>1. \A r \in Rows : queue[r] \in Command
        BY DEF IInv, Tables, Rows
      <3> QED BY <2>2, <3>1 DEF Setting, Command, Rows
    <2>6. Tables' /\ MemoryAhead'
      BY <1>1, <2>3 DEF IInv, Tables, MemoryAhead
    <2>7. FormsShowStored'
      BY <1>1, <2>3, <2>4, <2>5 DEF IInv, FormsShowStored
    <2>8. VerdictTrue'
      BY <1>1, <2>3, <2>4, <2>5, <1>0 DEF VerdictTrue
    <2>9. RowsStored'
      BY <1>0, <1>1, <2>3, <2>4 DEF IInv, RowsStored, Rows
    <2>10. DoneIsStored'
      BY <1>0, <1>1, <2>3, <2>4, <2>5 DEF IInv, DoneIsStored
    <2>11. AnsweredInOrder'
      BY <1>1 DEF IInv, AnsweredInOrder
    <2> QED BY <1>2, <2>6, <2>7, <2>8, <2>9, <2>10, <2>11 DEF IInv
  <1> QED BY <1>3, <1>4

LEMMA BreakerKeeps == ASSUME IInv, Breaker PROVE IInv'
  <1>0. /\ row \in batch /\ \A s \in batch : row <= s
        /\ at = "breaker"
        /\ UNCHANGED <<queue, settings, batch, row>> /\ at' = "mark"
        /\ verdict' \in Verdicts
    BY AtWork DEF Breaker, Verdicts
  <1>1. /\ FormsShowStored' /\ RowsStored' /\ DoneIsStored' /\ AnsweredInOrder'
        /\ Pending' = Pending
    BY <1>0, TablesKept DEF settings
  <1>2. Tables' /\ MemoryAhead' /\ Loop' /\ BatchInOrder'
    BY <1>0, <1>1 DEF IInv, Tables, MemoryAhead, Loop, BatchInOrder, settings
  <1>3. SavesRow' /\ VerdictTrue'
    BY <1>0 DEF IInv, SavesRow, VerdictTrue, settings
  <1> QED BY <1>1, <1>2, <1>3 DEF IInv

\* The answer of the first row of the batch.
LEMMA MarkKeeps == ASSUME IInv, Mark PROVE IInv'
  <1> DEFINE c == [queue[row] EXCEPT !.status = verdict]
  <1>0. /\ row \in batch /\ row \in Rows /\ row \in Nat /\ queue[row] \in Command
        /\ row \in Pending /\ (\A s \in batch : row <= s) /\ at = "mark"
    BY AtWork DEF Mark
  <1>1. /\ queue' = [queue EXCEPT ![row].status = verdict]
        /\ UNCHANGED <<stored, mem, halted, row, verdict>>
        /\ batch' = batch \ {row}
        /\ at' = IF batch' = {} THEN "idle" ELSE "exec"
    BY DEF Mark, settings
  <1>2. verdict \in Verdicts
    BY DEF IInv, Loop
  <1>3. c \in Command /\ c.status = verdict /\ c.ask = queue[row].ask
        /\ c.expected = queue[row].expected
    BY <1>0, <1>2 DEF Command
  <1>4. queue \in Seq(Command)
    BY DEF IInv, Tables
  <1>5. queue' = [queue EXCEPT ![row] = c]
    BY <1>0, <1>1, <1>4 DEF Rows
  <1>6. /\ queue' \in Seq(Command) /\ Len(queue') = Len(queue)
        /\ queue'[row] = c /\ \A r \in Rows : r # row => queue'[r] = queue[r]
    BY <1>0, <1>3, <1>4, <1>5 DEF Rows
  <1>7. Rows' = Rows
    BY <1>6 DEF Rows
  <1>8. Pending' = Pending \ {row}
    BY <1>0, <1>2, <1>3, <1>6, <1>7 DEF Pending, Verdicts
  <1>9. Tables' /\ MemoryAhead' /\ RowsStored'
    BY <1>1, <1>6 DEF IInv, Tables, MemoryAhead, RowsStored
  <1>10. Loop'
    BY <1>1, <1>8 DEF IInv, Loop
  <1>11. FormsShowStored'
    BY <1>1, <1>3, <1>6, <1>7 DEF IInv, FormsShowStored
  <1>12. SavesRow' /\ VerdictTrue'
    BY <1>1 DEF SavesRow, VerdictTrue
  <1>13. BatchInOrder'
    BY <1>1, <1>8 DEF IInv, BatchInOrder
  <1>14. DoneIsStored'
    BY <1>0, <1>1, <1>3, <1>6, <1>7 DEF IInv, DoneIsStored, VerdictTrue
  <1>15. AnsweredInOrder'
    <2>1. \A r \in Pending : ~(r < row)
      BY <1>0 DEF IInv, BatchInOrder, Pending, Rows
    <2> QED BY <1>7, <1>8, <2>1 DEF IInv, AnsweredInOrder
  <1> QED BY <1>9, <1>10, <1>11, <1>12, <1>13, <1>14, <1>15 DEF IInv

(***************************************************************************)
(* The invariant.                                                          *)
(***************************************************************************)

LEMMA InitIInv == Init => IInv
  <1> SUFFICES ASSUME Init PROVE IInv
    OBVIOUS
  <1>1. Rows = {} /\ Pending = {}
    BY DEF Init, Rows, Pending
  <1>2. Tables /\ Loop /\ MemoryAhead /\ RowsStored
    BY DEF Init, Tables, Loop, Setting, Verdicts, MemoryAhead, RowsStored
  <1> QED BY <1>1, <1>2 DEF Init, IInv, FormsShowStored, SavesRow, VerdictTrue,
             BatchInOrder, DoneIsStored, AnsweredInOrder

LEMMA NextIInv == IInv /\ [Next]_vars => IInv'
  <1> SUFFICES ASSUME IInv, [Next]_vars PROVE IInv'
    OBVIOUS
  <1>1. ASSUME NEW k \in Kinds, ApplyForm(k) PROVE IInv'
    <2> PICK seen \in 0 .. stored[k].version : Enqueue(k, seen)
      BY <1>1 DEF ApplyForm
    <2>1. seen \in Nat /\ seen <= stored[k].version
      BY DEF IInv, Tables, Setting
    <2> QED BY <2>1, EnqueueKeeps DEF Asks
  <1>2. CASE PressResume
    BY <1>2, EnqueueKeeps, CommandsAssumption
       DEF PressResume, Asks, CommandsAssumption
  <1>3. CASE Executes
    BY <1>3, AdoptKeeps, RefusedKeeps, ResumeKeeps DEF Executes
  <1>4. CASE SaveFails \/ MarkDoneFails
    BY <1>4, AtWork, FailedVerdict DEF SaveFails, MarkDoneFails
  <1>5. CASE MarkFailedFails \/ Crash
    <2>1. halted \in BOOLEAN
      BY DEF IInv, Tables
    <2> QED BY <1>5, <2>1, LoopLeft DEF MarkFailedFails, Crash, settings
  <1>6. CASE Boot
    BY <1>6, LoopLeft DEF Boot, IInv, Loop
  <1>7. CASE UNCHANGED vars
    <2>1. UNCHANGED <<queue, stored, mem, halted, at, batch, row, verdict>>
      BY <1>7 DEF vars, settings, engine
    <2> QED BY <2>1 DEF IInv, Tables, Loop, MemoryAhead, FormsShowStored,
               SavesRow, VerdictTrue, RowsStored, BatchInOrder, DoneIsStored,
               AnsweredInOrder, Rows, Pending
  <1> QED BY <1>1, <1>2, <1>3, <1>4, <1>5, <1>6, <1>7, FetchKeeps, SaveKeeps,
             BreakerKeeps, MarkKeeps DEF Next, EngineStep

LEMMA Invariant == Spec => []IInv
  BY InitIInv, NextIInv, PTL DEF Spec

LEMMA Budgets == Spec => [](faults \in Nat /\ crashes \in Nat)
  <1> DEFINE Left == faults \in Nat /\ crashes \in Nat
  <1>1. Init => Left
    BY CommandsAssumption DEF Init, CommandsAssumption
  <1>2. Left /\ [Next]_vars => Left'
    <2> SUFFICES ASSUME Left, [Next]_vars PROVE Left'
      OBVIOUS
    <2>1. \/ UNCHANGED budget
          \/ Fails
          \/ crashes > 0 /\ crashes' = crashes - 1 /\ UNCHANGED faults
      BY DEF Next, ApplyForm, PressResume, Enqueue, EngineStep, Fetch,
             Executes, Adopt, Conflict, Refuse, Resume, Save, SaveFails,
             Breaker, Mark, MarkDoneFails, MarkFailedFails, Boot, Crash,
             Answers, vars
    <2> QED BY <2>1 DEF Fails, budget
  <1> QED BY <1>1, <1>2, PTL DEF Spec

\* Every table, the loop and the row it works on are well formed.
THEOREM TypeCorrect == Spec => []TypeOK
  <1>1. IInv => Tables /\ Loop
    BY DEF IInv
  <1>2. Tables /\ Loop /\ faults \in Nat /\ crashes \in Nat => TypeOK
    BY DEF TypeOK
  <1> QED BY <1>1, <1>2, Invariant, Budgets, PTL

\* What was answered "done" survives every later failure and restart.
THEOREM DoneKept == Spec => []DoneIsStored
  <1>1. IInv => DoneIsStored
    BY DEF IInv
  <1> QED BY <1>1, Invariant, PTL

\* No row is answered before one queued earlier.
THEOREM QueueOrder == Spec => []AnsweredInOrder
  <1>1. IInv => AnsweredInOrder
    BY DEF IInv
  <1> QED BY <1>1, Invariant, PTL

(***************************************************************************)
(* Action properties.                                                      *)
(***************************************************************************)

\* Steps other than the two that write settings leave them alone; a restart is
\* no update.
LEMMA SettingsKept == ASSUME IInv, [Next]_vars
                      PROVE  \/ UNCHANGED <<stored, mem>>
                             \/ Save
                             \/ \E r \in Rows : Adopt(r)
                             \/ at = "down" /\ UNCHANGED stored
  BY DEF Next, ApplyForm, PressResume, Enqueue, EngineStep, Fetch, Executes,
         Conflict, Refuse, Resume, SaveFails, Breaker, Mark,
         MarkDoneFails, MarkFailedFails, Boot, Crash, settings, vars

\* Updates are built on what is stored, in the order of the queue.
THEOREM UpdatesStackUp == Spec => UpdatesStack
  <1> DEFINE Stack(k) ==
        /\ at # "down" /\ mem'[k] # mem[k] => mem[k] = stored[k]
        /\ stored'[k] # stored[k] =>
             /\ stored'[k].version = stored[k].version + 1
             /\ stored'[k].row > stored[k].row
  <1>1. ASSUME IInv, [Next]_vars, NEW k \in Kinds PROVE Stack(k)
    <2>1. ASSUME NEW r \in Rows, Adopt(r) PROVE Stack(k)
      <3>1. stored' = stored /\ (k # queue[r].ask => mem'[k] = mem[k])
        BY <1>1, <2>1 DEF Adopt, IInv, Tables
      <3>2. mem[queue[r].ask] = stored[queue[r].ask]
        BY <1>1, <2>1, CurrentIsStored DEF Adopt
      <3> QED BY <3>1, <3>2
    <2>2. CASE Save
      <3>1. mem' = mem /\ row \in Rows /\ at = "save"
        BY <1>1, <2>2, AtWork DEF Save
      <3>2. CASE queue[row].ask = k
        <4>1. stored'[k] = mem[k]
          BY <1>1, <2>2, <3>2 DEF Save, IInv, Tables
        <4>2. /\ mem[k].row = row /\ queue[row].expected = stored[k].version
              /\ mem[k].version = stored[k].version + 1
              /\ stored[k].row < row
          BY <1>1, <3>1, <3>2 DEF IInv, SavesRow, FormsShowStored
        <4>3. stored[k].row \in Nat /\ row \in Nat
          BY <1>1, <3>1 DEF IInv, Tables, Setting, Rows
        <4> QED BY <3>1, <4>1, <4>2, <4>3
      <3>3. CASE queue[row].ask # k
        <4>1. stored'[k] = stored[k]
          BY <1>1, <2>2, <3>3 DEF Save, IInv, Tables
        <4> QED BY <3>1, <4>1
      <3> QED BY <3>2, <3>3
    <2> QED BY <1>1, <2>1, <2>2, SettingsKept
  <1>2. IInv /\ [Next]_vars => [\A k \in Kinds : Stack(k)]_vars
    BY <1>1
  <1> QED BY <1>2, Invariant, PTL DEF Spec, UpdatesStack
=============================================================================
