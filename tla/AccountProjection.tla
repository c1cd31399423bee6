-------------------------- MODULE AccountProjection --------------------------
(***************************************************************************)
(* The account projection (src/src/state/account.py) with the inbox and    *)
(* the live tables it writes (store/repo.py), the event buffer and the     *)
(* REST resync that feed it (engine/loop.py), and the exchange as they see *)
(* it.                                                                     *)
(*                                                                         *)
(* An entity is what the code keeps a version for: a position or an order. *)
(* Its state at the exchange is the time of its last change and whether it *)
(* is open.  The projection shows the time of the state it has, or 0 for   *)
(* what is not open: a flat position is deleted, a closed order is left    *)
(* out of every view.  An event carries what it says of some entities.     *)
(*                                                                         *)
(* EntryGate models when a resync runs; here one resync runs at a time     *)
(* (the state lock) and begins whenever it likes.                          *)
(***************************************************************************)
EXTENDS Integers, Sequences, FiniteSets

CONSTANTS
  Positions, Orders,  \* the two kinds of entity
  BufferLimit,        \* user_stream.startup_buffer_limit
  \* bounds of the model
  MaxChanges,
  MaxFaults,          \* drops, copies, failures and crashes together
  MaxWrites           \* writes of the runtime's positions outside the coordinator

Entities == Positions \cup Orders

ASSUME EntityAssumption == Positions \cap Orders = {}
ASSUME BoundAssumption ==
  /\ BufferLimit \in Nat /\ MaxChanges \in Nat /\ MaxFaults \in Nat
  /\ MaxWrites \in Nat

VARIABLES
  \* the exchange and the socket
  truth,      \* the state of every entity
  wire,       \* events sent and not yet received
  up,         \* is there a session?
  \* the engine
  phase,      \* "boot" (replaying the inbox) or "run"
  buffering,  \* _buffer_private_events
  buffer,     \* _private_event_buffer
  stream,     \* the stream task: "ready", or in drain()
  sync,       \* where the resync is
  shot,       \* the REST answers it has
  batch,      \* the events its replay has taken from the buffer
  \* the coordinator
  queue,      \* _queue
  job,        \* the event _run works on, and how far it is
  alive,      \* _run has not ended
  mem,        \* _positions and _orders, as shown
  ver,        \* _entity_versions
  view,       \* runtime.positions and runtime.open_orders
  \* the database
  recorded,   \* keys of the stream events in exchange_events
  pending,    \* rows of exchange_events with status "received"
  table,      \* live_positions and live_orders
  \* observation
  stale,      \* entities the projection may have wrong until a REST round
  fresh,      \* of these, the ones the REST round in hand will put right
  patched,    \* positions the engine itself wrote since the last _sync_runtime
  torn,       \* a failure or a restart since the last REST round
  tally       \* how often the environment has acted

exchange == <<truth, wire, up>>
engine   == <<phase, buffering, buffer, stream, sync, shot, batch>>
account  == <<queue, job, alive, mem, ver, view, patched>>
db       == <<recorded, pending, table>>
ghosts   == <<stale, fresh, torn>>
vars     == <<truth, wire, up, phase, buffering, buffer, stream, sync, shot,
              batch, queue, job, alive, mem, ver, view, patched, recorded,
              pending, table, stale, fresh, torn, tally>>

-----------------------------------------------------------------------------
(* Values                                                                   *)

State   == [ts : Nat, open : BOOLEAN]
Shown   == [Entities -> Nat]
\* ExchangeEvent: a stream event has a key of its own and says something of one
\* entity, a REST snapshot says everything
Event   == {ev \in [no : Nat, rest : BOOLEAN, about : SUBSET Entities, says : Shown] :
              ev.rest => ev.about = Entities}
Nothing == [e \in Entities |-> 0]
NoEvent == [no |-> 0, rest |-> FALSE, about |-> {}, says |-> Nothing]
NoJob   == [step |-> "none", ev |-> NoEvent]
Steps   == {"none", "apply", "clear", "write", "finish"}
Syncs   == {"idle", "positions", "orders", "drain", "replay", "applying"}

Tallied == {"changes", "faults", "writes"}
Count(what) == tally' = [tally EXCEPT ![what] = @ + 1]

\* what a view of an entity in state s shows
Visible(s) == IF s.open THEN s.ts ELSE 0
Truth      == [e \in Entities |-> Visible(truth[e])]

Without(s, i) == SubSeq(s, 1, i - 1) \o SubSeq(s, i + 1, Len(s))
SubjectsOf(s) == UNION {s[i].about : i \in {j \in DOMAIN s : ~s[j].rest}}

\* the entities some stream event still has to say something about
InFlight == SubjectsOf(wire \o buffer \o batch \o queue \o <<job.ev>>)

Idle == job.step = "none"
\* AccountStateCoordinator.drain returns
Drained == queue = <<>> /\ Idle

\* these entities may stay wrong until a REST round that is yet to begin
Lose(S) == stale' = stale \cup S /\ fresh' = fresh \ S

-----------------------------------------------------------------------------
(* The exchange and the private stream                                      *)

\* A position or an order changes.  A closed order stays closed.
Change(e, open) ==
  LET now == tally.changes + 1
      ev  == [no |-> now, rest |-> FALSE, about |-> {e},
              says |-> [Nothing EXCEPT ![e] = IF open THEN now ELSE 0]] IN
  /\ tally.changes < MaxChanges /\ Count("changes")
  /\ open \/ truth[e].open
  /\ e \in Orders => truth[e].ts = 0 \/ truth[e].open
  /\ truth' = [truth EXCEPT ![e] = [ts |-> now, open |-> open]]
  /\ IF up THEN wire' = Append(wire, ev) /\ UNCHANGED <<stale, fresh>>
           ELSE UNCHANGED wire /\ Lose({e})
  /\ UNCHANGED <<up, engine, account, db, torn>>

\* the session ends with what it had not delivered
Drop ==
  /\ up /\ tally.faults < MaxFaults /\ Count("faults")
  /\ up' = FALSE /\ wire' = <<>> /\ Lose(SubjectsOf(wire))
  /\ UNCHANGED <<truth, engine, account, db, torn>>

\* a new session: from now on events wait for the resync that follows
Connect ==
  /\ ~up /\ phase = "run" /\ stream = "ready"
  /\ up' = TRUE /\ buffering' = TRUE
  /\ UNCHANGED <<truth, wire, phase, buffer, stream, sync, shot, batch, account,
                 db, ghosts, tally>>

\* An event arrives, perhaps not in the order sent, perhaps not for the last
\* time, and is buffered, dropped because the buffer is full, or submitted.
Receive(i, again) ==
  /\ up /\ phase = "run" /\ stream = "ready"
  /\ IF again THEN /\ tally.faults < MaxFaults /\ Count("faults")
                   /\ UNCHANGED wire
              ELSE wire' = Without(wire, i) /\ UNCHANGED tally
  /\ \/ /\ buffering /\ Len(buffer) < BufferLimit
        /\ buffer' = Append(buffer, wire[i])
        /\ UNCHANGED <<stream, queue, stale, fresh>>
     \/ /\ buffering /\ Len(buffer) >= BufferLimit
        /\ Lose(wire[i].about)
        /\ UNCHANGED <<buffer, stream, queue>>
     \/ /\ ~buffering
        /\ queue' = Append(queue, wire[i]) /\ stream' = "drain"
        /\ UNCHANGED <<buffer, stale, fresh>>
  /\ UNCHANGED <<truth, up, phase, buffering, sync, shot, batch, job, alive, mem,
                 ver, view, patched, db, torn>>

\* the stream task's drain() returns
Received ==
  /\ stream = "drain" /\ Drained
  /\ stream' = "ready"
  /\ UNCHANGED <<exchange, phase, buffering, buffer, sync, shot, batch, account,
                 db, ghosts, tally>>

-----------------------------------------------------------------------------
(* The REST resync                                                          *)

BeginResync ==
  /\ phase = "run" /\ sync = "idle"
  /\ buffering' = TRUE /\ sync' = "positions" /\ shot' = Nothing
  /\ UNCHANGED <<exchange, phase, buffer, stream, batch, account, db, ghosts,
                 tally>>

\* What the answer puts right: an entity of which no older event is still to come.
Repairs(S) == fresh' = fresh \cup (S \ InFlight)

FetchPositions ==
  /\ sync = "positions"
  /\ shot' = [e \in Entities |-> IF e \in Positions THEN Truth[e] ELSE shot[e]]
  /\ sync' = "orders" /\ Repairs(Positions)
  /\ UNCHANGED <<exchange, phase, buffering, buffer, stream, batch, account, db,
                 stale, torn, tally>>

\* the open orders, the balance, and the snapshot goes to the coordinator
FetchOrders ==
  LET says == [e \in Entities |-> IF e \in Orders THEN Truth[e] ELSE shot[e]] IN
  /\ sync = "orders"
  /\ queue' = Append(queue, [no |-> 0, rest |-> TRUE, about |-> Entities,
                           says |-> says])
  /\ shot' = Nothing /\ sync' = "drain" /\ Repairs(Orders)
  /\ UNCHANGED <<exchange, phase, buffering, buffer, stream, batch, job, alive,
                 mem, ver, view, patched, db, stale, torn, tally>>

\* a query raises: the round ends, and events go on being buffered
FetchFails ==
  /\ sync \in {"positions", "orders"}
  /\ tally.faults < MaxFaults /\ Count("faults")
  /\ sync' = "idle" /\ shot' = Nothing /\ fresh' = {}
  /\ UNCHANGED <<exchange, phase, buffering, buffer, stream, batch, account, db,
                 stale, torn>>

SnapshotApplied ==
  /\ sync = "drain" /\ Drained
  /\ sync' = "replay"
  /\ UNCHANGED <<exchange, phase, buffering, buffer, stream, shot, batch, account,
                 db, ghosts, tally>>

\* _replay_private_event_buffer: the buffer is taken, applied event by event, and
\* looked at again; when it is empty events go straight to the coordinator
TakeBuffer ==
  /\ sync = "replay" /\ batch = <<>> /\ buffer # <<>>
  /\ batch' = buffer /\ buffer' = <<>>
  /\ UNCHANGED <<exchange, phase, buffering, stream, sync, shot, account, db,
                 ghosts, tally>>

ReplayNext ==
  /\ sync = "replay" /\ batch # <<>>
  /\ queue' = Append(queue, Head(batch)) /\ batch' = Tail(batch)
  /\ sync' = "applying"
  /\ UNCHANGED <<exchange, phase, buffering, buffer, stream, shot, job, alive, mem,
                 ver, view, patched, db, ghosts, tally>>

ReplayApplied ==
  /\ sync = "applying" /\ Drained
  /\ sync' = "replay"
  /\ UNCHANGED <<exchange, phase, buffering, buffer, stream, shot, batch, account,
                 db, ghosts, tally>>

\* what follows the drain raises: the rest of the batch is gone
ReplayFails ==
  /\ sync = "applying" /\ Drained
  /\ tally.faults < MaxFaults /\ Count("faults")
  /\ sync' = "idle" /\ batch' = <<>> /\ Lose(SubjectsOf(batch))
  /\ UNCHANGED <<exchange, phase, buffering, buffer, stream, shot, account, db,
                 torn>>

ReplayDone ==
  /\ sync = "replay" /\ batch = <<>> /\ buffer = <<>>
  /\ buffering' = FALSE /\ sync' = "idle"
  /\ UNCHANGED <<exchange, phase, buffer, stream, shot, batch, account, db, ghosts,
                 tally>>

-----------------------------------------------------------------------------
(* The coordinator                                                          *)

IsNew(ev) == ev.rest \/ ev.no \notin recorded

\* record_exchange_event: the unique key tells a new event from a copy
Record ==
  LET ev == Head(queue) IN
  /\ phase = "run" /\ alive /\ Idle /\ queue # <<>>
  /\ queue' = Tail(queue)
  /\ IF IsNew(ev)
     THEN /\ recorded' = recorded \cup (IF ev.rest THEN {} ELSE {ev.no})
          /\ pending' = pending \cup {ev}
          /\ job' = [step |-> "apply", ev |-> ev]
     ELSE UNCHANGED <<recorded, pending, job>>
  /\ UNCHANGED <<exchange, engine, alive, mem, ver, view, patched, table, ghosts,
                 tally>>

\* The insert raises: there is no row to mark, and the event is gone; or marking
\* it raises too, and the coordinator's task ends.
RecordFails ==
  LET ev == Head(queue) IN
  /\ phase = "run" /\ alive /\ Idle /\ queue # <<>>
  /\ tally.faults < MaxFaults /\ Count("faults")
  /\ queue' = Tail(queue) /\ alive' \in BOOLEAN
  /\ IF ev.rest THEN fresh' = {} /\ UNCHANGED stale ELSE Lose(ev.about)
  /\ UNCHANGED <<exchange, engine, job, mem, ver, view, patched, db, torn>>

\* _newer: the entities of which the event is no older than the last one applied
AnyAge(ev) == ev.about
Newer(ev)  == {e \in ev.about : ev.no >= ver[e]}

\* _apply_account_update, _apply_order_update, _apply_algo_update: the memory
ApplyEvent ==
  LET ev == job.ev IN
  /\ job.step = "apply" /\ ~ev.rest
  /\ mem' = [e \in Entities |-> IF e \in Newer(ev) THEN ev.says[e] ELSE mem[e]]
  /\ ver' = [e \in Entities |-> IF e \in Newer(ev) THEN ev.no ELSE ver[e]]
  /\ job' = [job EXCEPT !.step = IF Newer(ev) = {} THEN "finish" ELSE "write"]
  /\ UNCHANGED <<exchange, engine, queue, alive, view, patched, db, ghosts, tally>>

\* what the memory holds once a REST snapshot is in it
ReplacedOpenOnly(ev) == [e \in {x \in Entities : ev.says[x] > 0} |-> ev.says[e]]
ReplacedMerged(ev) == [e \in Entities |->
                         IF ev.says[e] > 0 THEN ev.says[e] ELSE mem[e]]
Replaced(ev) == ev.says

\* _apply_rest_snapshot: the memory; the versions are left alone
ApplySnapshot ==
  /\ job.step = "apply" /\ job.ev.rest
  /\ mem' = Replaced(job.ev)
  /\ job' = [job EXCEPT !.step = "clear"]
  /\ UNCHANGED <<exchange, engine, queue, alive, ver, view, patched, db, ghosts,
                 tally>>

\* replace_live_account: both tables are emptied, and then what is open is written
\* row by row
ClearedPositions == [e \in Entities |-> IF e \in Positions THEN 0 ELSE table[e]]
Cleared          == Nothing
ClearTables ==
  /\ job.step = "clear"
  /\ table' = Cleared
  /\ job' = [job EXCEPT !.step = "write"]
  /\ UNCHANGED <<exchange, engine, queue, alive, mem, ver, view, patched, recorded,
                 pending, ghosts, tally>>

WriteTables ==
  /\ job.step = "write"
  /\ table' = [e \in Entities |->
                 IF e \in job.ev.about /\ (mem[e] > 0 \/ ~job.ev.rest)
                 THEN mem[e] ELSE table[e]]
  /\ job' = [job EXCEPT !.step = "finish"]
  /\ UNCHANGED <<exchange, engine, queue, alive, mem, ver, view, patched, recorded,
                 pending, ghosts, tally>>

\* _sync_runtime, then mark_exchange_event_applied
Finish ==
  /\ job.step = "finish"
  /\ view' = mem /\ patched' = {} /\ pending' = pending \ {job.ev} /\ job' = NoJob
  /\ IF job.ev.rest /\ phase = "run"
     THEN stale' = stale \ fresh /\ fresh' = {} /\ torn' = FALSE
     ELSE UNCHANGED ghosts
  /\ UNCHANGED <<exchange, engine, queue, alive, mem, ver, recorded, table, tally>>

\* The row that a failed job leaves: mark_exchange_event_failed.
FailedKept(ev) == pending' = pending
Failed(ev)     == pending' = pending \ {ev}

\* The store raises while an event is applied.  The memory keeps what it has, the
\* runtime is not synced, and the row is marked failed; or that raises too, and
\* the coordinator's task ends (in start, the process).
JobFails ==
  LET ev == job.ev IN
  /\ job.step \in {"apply", "clear", "write"}
  /\ tally.faults < MaxFaults /\ Count("faults")
  /\ mem' = IF job.step = "apply" /\ ev.rest
            THEN [e \in Entities |->
                    IF e \in Positions THEN ev.says[e] ELSE mem[e]]
            ELSE mem
  /\ job' = NoJob /\ torn' = TRUE
  /\ IF ev.rest THEN fresh' = {} /\ UNCHANGED stale ELSE Lose(ev.about)
  /\ \/ Failed(ev) /\ UNCHANGED alive
     \/ phase = "run" /\ alive' = FALSE /\ UNCHANGED pending
  /\ UNCHANGED <<exchange, engine, queue, ver, view, patched, recorded, table>>

-----------------------------------------------------------------------------
(* The rest of the engine                                                   *)

\* The engine writes runtime.positions itself, past the queue: it drops what it has
\* closed, and it puts in what a position query answers.  The answer may be late: it
\* shows what the position was at any time so far.
EngineWrites(S) ==
  /\ phase = "run" /\ S # {}
  /\ tally.writes < MaxWrites /\ Count("writes")
  /\ \E seen \in [S -> 0..tally.changes] :
       /\ \A e \in S : seen[e] <= truth[e].ts
       /\ view' = [e \in Entities |-> IF e \in S THEN seen[e] ELSE view[e]]
  /\ patched' = patched \cup S
  /\ UNCHANGED <<exchange, engine, queue, job, alive, mem, ver, db, ghosts>>

-----------------------------------------------------------------------------
(* The process                                                              *)

\* The process is killed at any point; the service manager starts the next one.
Crash ==
  /\ tally.faults < MaxFaults /\ Count("faults")
  /\ up' = FALSE /\ wire' = <<>>
  /\ phase' = "boot" /\ buffering' = TRUE /\ buffer' = <<>>
  /\ stream' = "ready" /\ sync' = "idle" /\ shot' = Nothing /\ batch' = <<>>
  /\ queue' = <<>> /\ job' = NoJob /\ alive' = TRUE
  /\ mem' = Nothing /\ ver' = Nothing /\ view' = Nothing /\ patched' = {}
  /\ stale' = Entities /\ fresh' = {} /\ torn' = TRUE
  /\ UNCHANGED <<truth, db>>

\* AccountStateCoordinator.start: every row still "received" is applied
ReplayInbox ==
  /\ phase = "boot" /\ Idle
  /\ \E ev \in pending : job' = [step |-> "apply", ev |-> ev]
  /\ UNCHANGED <<exchange, engine, queue, alive, mem, ver, view, patched, db, ghosts,
                 tally>>

Started ==
  /\ phase = "boot" /\ Idle /\ pending = {}
  /\ phase' = "run"
  /\ UNCHANGED <<exchange, buffering, buffer, stream, sync, shot, batch, account,
                 db, ghosts, tally>>

Init ==
  /\ truth = [e \in Entities |-> [ts |-> 0, open |-> FALSE]]
  /\ wire = <<>> /\ up = FALSE
  /\ phase = "boot" /\ buffering = TRUE /\ buffer = <<>>
  /\ stream = "ready" /\ sync = "idle" /\ shot = Nothing /\ batch = <<>>
  /\ queue = <<>> /\ job = NoJob /\ alive = TRUE
  /\ mem = Nothing /\ ver = Nothing /\ view = Nothing /\ patched = {}
  /\ recorded = {} /\ pending = {} /\ table = Nothing
  /\ stale = {} /\ fresh = {} /\ torn = FALSE
  /\ tally = [t \in Tallied |-> 0]

Exchange == \E e \in Entities, open \in BOOLEAN : Change(e, open)
Stream   == Received \/ \E i \in DOMAIN wire : Receive(i, FALSE)
Resync   == \/ BeginResync \/ FetchPositions \/ FetchOrders \/ SnapshotApplied
            \/ TakeBuffer \/ ReplayNext \/ ReplayApplied \/ ReplayDone
Account  == \/ Record \/ ApplyEvent \/ ApplySnapshot \/ ClearTables
            \/ WriteTables \/ Finish
Boot     == ReplayInbox \/ Started
Faults   == \/ Drop \/ FetchFails \/ ReplayFails \/ RecordFails \/ JobFails
            \/ Crash \/ \E i \in DOMAIN wire : Receive(i, TRUE)

Writes   == \E S \in SUBSET Positions : EngineWrites(S)

Next == \/ Exchange \/ Connect \/ Stream \/ Resync \/ Account \/ Boot \/ Faults
        \/ Writes

Spec == Init /\ [][Next]_vars

\* asyncio runs what is ready, every network call has a timeout, the periodic
\* reconcile loop begins a resync again and again, and a start goes through.
\* Nothing is assumed of the exchange, of the socket or of failures.
Fairness == WF_vars(Stream) /\ WF_vars(Resync) /\ WF_vars(Account) /\ WF_vars(Boot)

FairSpec == Spec /\ Fairness

-----------------------------------------------------------------------------
(* Properties                                                               *)

TypeOK ==
  /\ truth \in [Entities -> State] /\ wire \in Seq(Event) /\ up \in BOOLEAN
  /\ phase \in {"boot", "run"} /\ buffering \in BOOLEAN /\ buffer \in Seq(Event)
  /\ stream \in {"ready", "drain"} /\ sync \in Syncs
  /\ shot \in Shown /\ batch \in Seq(Event)
  /\ queue \in Seq(Event) /\ job \in [step : Steps, ev : Event] /\ alive \in BOOLEAN
  /\ mem \in Shown /\ ver \in Shown /\ view \in Shown
  /\ patched \in SUBSET Entities
  /\ recorded \in SUBSET Nat /\ pending \in SUBSET Event /\ table \in Shown
  /\ stale \in SUBSET Entities /\ fresh \in SUBSET Entities /\ torn \in BOOLEAN
  /\ tally \in [Tallied -> Nat]

\* The inbox never holds more than the one event in hand as "received": a restart
\* has at most one event to apply again, whose order against others cannot matter.
OneEventUnapplied == \A a, b \in pending : a = b

\* What is in hand is in the inbox, and while the task lives nothing else is.
InboxIsInHand == phase = "run" /\ alive => pending = IF Idle THEN {} ELSE {job.ev}

\* Between events, the live tables show what the memory shows, unless the store
\* failed or the process restarted since the last REST round.
TablesFollowMemory == Idle /\ ~torn => table = mem

\* An entity of which no event was lost (before a REST round that could put it
\* right) is in the memory as it is at the exchange, once every event about it is
\* applied: whatever copies, reorderings, buffering, resyncs and failures came
\* between.  The runtime shows the same, but for a position the engine itself wrote
\* since the memory was last copied to it.
SettledIsTrue ==
  phase = "run" => \A e \in Entities \ (stale \cup InFlight) :
    /\ mem[e] = Truth[e]
    /\ e \notin patched => view[e] = Truth[e]

\* Lost events, failed rounds and restarts notwithstanding, the projection shows
\* the account as it is in the end, as long as its task lives: what the engine wrote
\* past the queue is overwritten too.
Converges == <>[](alive /\ phase = "run" => view = Truth)
=============================================================================
