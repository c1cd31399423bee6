------------------------------ MODULE EntryGate ------------------------------
(***************************************************************************)
(* The entry gate of the trading engine (src/src/engine/loop.py together   *)
(* with state/runtime.py and exchange/user_stream.py): everything that     *)
(* halts new entries, everything that lifts a halt again, and the one      *)
(* place that reads the flag before an opening order is sent.              *)
(*                                                                         *)
(* The engine is one asyncio process.  Its tasks interleave only where a   *)
(* coroutine awaits, so an action below is the code between two awaits:    *)
(*                                                                         *)
(*   "main"      startup, then cycles: commands, circuit breaker, symbols, *)
(*               account snapshot                                          *)
(*   "stream"    the private user stream session and its health callback   *)
(*   "periodic"  the reconcile loop                                        *)
(*   "verify"    the REST check spawned by a disconnect                    *)
(*   "adhoc"     the reconcile tasks spawned by a connect or by an event   *)
(*                                                                         *)
(* A REST resync is the same code for every task that runs one: take the   *)
(* lock, buffer private events, fetch, apply, replay the buffer, lift the  *)
(* pause that the stream fault caused.                                     *)
(***************************************************************************)
EXTENDS Integers, Sequences, FiniteSets

CONSTANTS
  Mainnet,           \* settings.is_mainnet
  EventKinds,        \* kinds of private event the stream delivers
  Commands,          \* operator commands the web process queues
  Readings,          \* what one REST round can report (see Reading)
  BufferLimit,       \* user_stream.startup_buffer_limit
  DropsWhileBooting, \* may the stream fail before the startup has finished?
  \* bounds of the model
  MaxEvents, MaxSessions, MaxCommands, MaxRestFailures, MaxHealthFailures,
  MaxRestarts, MaxDays,
  MaxTasks           \* reconcile tasks past the lock at a time

AllEventKinds == {"MARGIN_CALL", "TRANSFER", "REVIEW", "OTHER"}
AllCommands   == {"PAUSE", "FLATTEN", "RESUME", "RESUME_ALL", "RISK", "STOP"}

\* One round of REST answers: is the income ledger complete (OPEN stands for
\* PROVISIONAL, INCOMPLETE and ERROR, which the guard treats alike), did the balance
\* parse, is the flow-adjusted drawdown of the day at its limit, is the day's
\* realized loss at its limit.
Reading == [ledger : {"CONFIRMED", "OPEN"}, valid : BOOLEAN,
            crossing : BOOLEAN, loss : BOOLEAN]

ASSUME ModeAssumption == Mainnet \in BOOLEAN /\ DropsWhileBooting \in BOOLEAN
ASSUME InputAssumption == /\ EventKinds \subseteq AllEventKinds
                          /\ Commands \subseteq AllCommands
                          /\ Readings \subseteq Reading
ASSUME BoundAssumption ==
  /\ BufferLimit \in Nat /\ MaxEvents \in Nat /\ MaxSessions \in Nat
  /\ MaxCommands \in Nat /\ MaxRestFailures \in Nat
  /\ MaxHealthFailures \in Nat /\ MaxRestarts \in Nat /\ MaxDays \in Nat
  /\ MaxTasks \in Nat \ {0}

Resyncers == {"periodic", "verify", "adhoc"}
Procs     == {"main", "stream"} \cup Resyncers

VARIABLES
  \* RuntimeState and TradingEngine attributes
  halted,      \* runtime.halt_new_entries
  reason,      \* runtime.halt_new_entries_reason, by its class
  armed,       \* _stream_halted_entries
  stopped,     \* _stopped is set (stop or kill)
  started,     \* _startup_complete
  status,      \* the coordinator's stream_status
  buffering,   \* _buffer_private_events
  buffer,      \* _private_event_buffer
  lock,        \* holder of _state_sync_lock, or "free"
  \* the capital-flow guard and the daily risk figures it watches
  flow,        \* runtime.capital_flow_status
  ledger,      \* runtime.capital_flow_ledger_status
  guard,       \* capital_flow_guard_since_ms: off, young (< 30 s) or old
  crossing,    \* risk_day_drawdown_pct >= max_drawdown_pct
  loss,        \* day_realized_pnl <= - daily limit
  bypass,      \* drawdown_bypass_active()
  lowered,     \* a command has brought max_drawdown_pct down to the drawdown
  \* tasks
  pc,          \* where each task is
  ret,         \* where "main" goes on after a command or a snapshot
  batch,       \* the events a replay took from the buffer (head: in hand)
  hand,        \* the event the stream task is applying itself
  due,         \* reconcile tasks created and not begun
  \* the settings table
  paused,      \* strategy.paused
  code,        \* strategy.pause.reason_code
  savedFlow,   \* risk.capital_flow.status
  savedGuard,  \* risk.capital_flow.guard_since_ms
  \* observation: what happened, for the properties
  guarded,     \* this process came up paused
  lifted,      \* an operator command has lifted a halt in this process
  applied,     \* number of the last event handed to the projection
  tally        \* how often the environment has acted

gate   == <<halted, reason>>
risk   == <<flow, ledger, guard, crossing, loss, bypass, lowered>>
row    == <<paused, code>>
saved  == <<savedFlow, savedGuard>>
db     == <<paused, code, savedFlow, savedGuard>>
events == <<buffering, buffer, batch, hand, applied>>
obs    == <<guarded, lifted>>
vars   == <<halted, reason, armed, stopped, started, status, buffering, buffer,
            lock, flow, ledger, guard, crossing, loss, bypass, lowered, pc, ret,
            batch, hand, due, paused, code, savedFlow, savedGuard, guarded,
            lifted, applied, tally>>

-----------------------------------------------------------------------------
(* Values                                                                   *)

Reasons == {"none", "mainnet", "paused", "mode", "stream", "startup", "query",
            "overflow", "margin", "review", "flow", "breaker", "stop"}
\* reason codes: only MAX_DRAWDOWN is ever read back; OTHER: any other or none
Codes   == {"MAX_DRAWDOWN", "OTHER"}
Flows   == {"CONFIRMED", "RECONCILING", "OPEN"}
Ages    == {"off", "young", "old"}
Events  == [no : Nat, kind : AllEventKinds]
NoEvent == [no |-> 0, kind |-> "OTHER"]

MainLabels   == {"boot", "validate", "wait", "idle", "recheck",
                 "symbol", "submit", "after", "resume", "resume_all",
                 "enable", "limits", "failed_mode", "booted", "exit"}
Returns      == {"idle", "recheck", "after"}
StreamLabels == {"off", "down", "open", "up", "apply", "rotate", "closing",
                 "lost", "verify", "dead"}
SyncLabels   == {"idle", "lock", "rest", "snap", "replay", "effect",
                 "release", "check"}

At(p, l) == pc[p] = l
Go(p, l) == pc' = [pc EXCEPT ![p] = l]

\* _connected: the stream task is inside a session
Connected == pc["stream"] \in {"open", "up", "apply", "rotate", "closing"}

Tallied == {"events", "sessions", "commands", "rest", "health", "restarts",
            "days"}
Count(c) == tally' = [tally EXCEPT ![c] = @ + 1]

-----------------------------------------------------------------------------
(* RuntimeState.halt_entries, resume_entries; _persist_strategy_pause_reason *)

Halt(r) == halted' = TRUE /\ reason' = r
Resume  == halted' = FALSE /\ reason' = "none"

\* the settings write that follows: it delays the task, which the interleaving
\* of the next steps covers; how concurrent writes meet is PauseStore's subject
Persist(b, c) == paused' = b /\ code' = c

\* "if not halt_new_entries: halt and persist": a halt that is already there
\* keeps its reason
HaltUnlessHalted(r) ==
  IF halted THEN UNCHANGED <<gate, row>>
  ELSE Halt(r) /\ Persist(TRUE, "OTHER")

\* "if not halt_new_entries: _stream_halted_entries = True": a later resync may
\* lift the pause only when the stream fault is what halted entries
ArmsAlways == TRUE                  \* mutated form of Arms
Arms       == armed \/ ~halted

-----------------------------------------------------------------------------
(* Startup                                                                  *)

\* _apply_runtime_settings: the persisted pause and the mainnet guard
Boot ==
  /\ At("main", "boot")
  /\ flow' = savedFlow
  /\ ledger' = IF savedFlow = "CONFIRMED" THEN "CONFIRMED" ELSE "OPEN"
  /\ guard' = savedGuard
  /\ IF Mainnet
     THEN Halt("mainnet") /\ Persist(TRUE, "OTHER")
     ELSE /\ IF paused THEN Halt("paused") ELSE Resume
          /\ UNCHANGED row
  /\ guarded' = (Mainnet \/ paused)
  /\ Go("main", "validate")
  /\ UNCHANGED <<armed, stopped, started, status, lock, crossing, loss, bypass,
                 lowered, events, ret, due, saved, lifted, tally>>

\* validate_account_mode, then the stream task is created
ValidateMode ==
  /\ At("main", "validate")
  /\ pc' = [pc EXCEPT !["main"] = "wait", !["stream"] = "down"]
  /\ UNCHANGED <<gate, armed, stopped, started, status, lock, risk, events, ret,
                 due, db, obs, tally>>

ValidateModeFails ==
  /\ At("main", "validate")
  /\ tally.rest < MaxRestFailures /\ Count("rest")
  /\ Halt("mode")
  /\ Persist(TRUE, "OTHER")
  /\ Go("main", "failed_mode")
  /\ UNCHANGED <<armed, stopped, started, status, lock, risk, events, ret, due,
                 saved, obs>>

WaitConnected ==
  /\ At("main", "wait") /\ Connected
  /\ Go("main", "rest")
  /\ UNCHANGED <<gate, armed, stopped, started, status, lock, risk, events, ret,
                 due, db, obs, tally>>

WaitConnectedFails ==
  /\ At("main", "wait") /\ ~Connected /\ DropsWhileBooting
  /\ armed' = Arms
  /\ Halt("stream")
  /\ Persist(TRUE, "OTHER")
  /\ Go("main", "rest")
  /\ UNCHANGED <<stopped, started, status, lock, risk, events, ret, due, saved,
                 obs, tally>>

-----------------------------------------------------------------------------
(* REST resync: _reconcile_exchange_state, _snapshot and the startup         *)
(* baseline run the same steps; only the startup runs them without the lock  *)

\* _rest_resync_with_event_buffer: events wait behind the answer to come
BuffersNothing == UNCHANGED <<buffering, buffer>>   \* mutated forms
BuffersAfresh  == buffering' = TRUE /\ buffer' = <<>>
StartBuffering == buffering' = TRUE /\ UNCHANGED buffer

\* a task that is due takes the lock when it gets it: until then it only waits
Active == {q \in Resyncers : pc[q] # "idle"}

DueUnspawned(p) ==                  \* mutated forms of Due
  p # "main" /\ At(p, "idle") /\ due' = [due EXCEPT ![p] = @ - 1]
DueOnce(p) == \/ p = "main" /\ At(p, "lock") /\ due' = due
              \/ p \in {"verify", "adhoc"} /\ At(p, "idle") /\ due[p] > 0
                 /\ due' = [due EXCEPT ![p] = @ - 1]
Due(p) == \/ p = "main" /\ At(p, "lock") /\ due' = due
          \/ p = "periodic" /\ At(p, "idle") /\ started /\ ~stopped /\ due' = due
          \/ p \in {"verify", "adhoc"} /\ At(p, "idle") /\ due[p] > 0
             /\ due' = [due EXCEPT ![p] = @ - 1]

Acquire(p) ==
  /\ lock = "free" /\ Due(p)
  /\ p = "main" \/ Cardinality(Active) < MaxTasks
  /\ lock' = p
  /\ StartBuffering
  /\ Go(p, "rest")
  /\ UNCHANGED <<gate, armed, stopped, started, status, risk, ret, batch, hand,
                 applied, db, obs, tally>>

\* fetch_positions, fetch_open_orders and fetch_balance answer
RestAnswers(p) ==
  /\ At(p, "rest")
  /\ Go(p, "snap")
  /\ UNCHANGED <<gate, armed, stopped, started, status, lock, risk, events, ret,
                 due, db, obs, tally>>

\* they do not: buffering stays on; the cycle snapshot and the startup halt
RestFails(p) ==
  /\ At(p, "rest")
  /\ tally.rest < MaxRestFailures /\ Count("rest")
  /\ CASE p # "main" ->
            /\ Go(p, "idle") /\ lock' = "free"
            /\ UNCHANGED <<gate, row>>
       [] p = "main" /\ started ->
            /\ Halt("query") /\ Persist(TRUE, "OTHER")
            /\ Go("main", "release")
            /\ UNCHANGED lock
       [] OTHER ->
            /\ Halt("startup")
            /\ Persist(TRUE, "OTHER")
            /\ Go("main", "booted")
            /\ UNCHANGED lock
  /\ UNCHANGED <<armed, stopped, started, status, risk, events, ret, due, saved,
                 obs>>

\* _update_capital_flow_guard with a fresh drawdown figure: a first crossing
\* is not believed before the ledger is complete and the guard 30 s old
GuardWaitsLedger(r) ==              \* mutated form of GuardWaits
  ((r.crossing /\ ~bypass) \/ guard # "off") /\ r.ledger # "CONFIRMED"
GuardWaits(r) ==
  IF r.crossing /\ ~bypass
  THEN r.ledger # "CONFIRMED" \/ guard # "old"
  ELSE guard # "off" /\ r.ledger # "CONFIRMED"

UpdateGuard(r) ==
  LET reached == r.crossing /\ ~bypass IN
  /\ guard' = IF reached THEN (IF guard = "off" THEN "young" ELSE guard)
              ELSE IF GuardWaits(r) THEN guard ELSE "off"
  /\ flow' = IF GuardWaits(r) THEN "RECONCILING" ELSE r.ledger
  /\ savedFlow' = flow' /\ savedGuard' = guard'
  /\ CASE GuardWaits(r) ->
            HaltUnlessHalted("flow")
       [] ~GuardWaits(r) /\ reason = "flow" ->
            /\ Resume
            /\ IF reached THEN UNCHANGED row ELSE Persist(FALSE, "OTHER")
       [] OTHER -> UNCHANGED <<gate, row>>

\* _submit_rest_account_snapshot past the fetch: day pnl and ledger status,
\* then the balance, which is dropped when it does not parse
ApplySnapshot(p, r) ==
  /\ At(p, "snap")
  /\ ledger' = r.ledger
  /\ loss' \in IF r.ledger = "CONFIRMED" THEN {r.loss} ELSE {loss, r.loss}
  /\ IF r.valid
     THEN crossing' = r.crossing /\ lowered' = FALSE /\ UpdateGuard(r)
     ELSE /\ flow' = r.ledger
          /\ UNCHANGED <<gate, crossing, lowered, guard, saved, row>>
  /\ Go(p, "replay")
  /\ UNCHANGED <<armed, stopped, started, status, lock, bypass, events, ret,
                 due, obs, tally>>

Pending(p) == IF batch[p] # <<>> THEN batch[p] ELSE buffer

\* _replay_private_event_buffer: the next event goes to the projection
Replay(p) ==
  /\ At(p, "replay") /\ Pending(p) # <<>>
  /\ batch' = [batch EXCEPT ![p] = Pending(p)]
  /\ buffer' = IF batch[p] # <<>> THEN buffer ELSE <<>>
  /\ applied' = Head(Pending(p)).no
  /\ Go(p, "effect")
  /\ UNCHANGED <<gate, armed, stopped, started, status, lock, risk, ret,
                 buffering, hand, due, db, obs, tally>>

\* _apply_private_event past submit and drain, by the kind of the event
EventEffect(e) ==
  CASE e.kind = "MARGIN_CALL" ->
         /\ Halt("margin") /\ Persist(TRUE, "OTHER")
         /\ UNCHANGED <<flow, ledger, guard, saved, due>>
    [] e.kind = "REVIEW" ->
         /\ Halt("review") /\ Persist(TRUE, "OTHER")
         /\ due' = [due EXCEPT !["adhoc"] = @ + 1]
         /\ UNCHANGED <<flow, ledger, guard, saved>>
    [] e.kind = "TRANSFER" ->
         /\ flow' = "RECONCILING" /\ ledger' = "OPEN"
         /\ guard' = IF guard = "off" THEN "young" ELSE guard
         /\ savedFlow' = flow' /\ savedGuard' = guard'
         /\ HaltUnlessHalted("flow")
         /\ UNCHANGED due
    [] OTHER -> UNCHANGED <<gate, row, flow, ledger, guard, saved, due>>

ReplayEffect(p) ==
  /\ At(p, "effect")
  /\ EventEffect(Head(batch[p]))
  /\ batch' = [batch EXCEPT ![p] = Tail(@)]
  /\ Go(p, "replay")
  /\ UNCHANGED <<armed, stopped, started, status, lock, crossing, loss, bypass,
                 lowered, ret, buffering, buffer, hand, applied, obs, tally>>

LiftsUnarmed   == status = "LIVE"   \* mutated forms of Lifts
LiftsAnyStatus == armed
LiftsNever     == armed /\ status = "RESYNCING"
Lifts          == armed /\ status = "LIVE"

\* the buffer is empty: direct delivery again; a running engine lifts the
\* pause of a stream fault
FinishReplay(p) ==
  /\ At(p, "replay") /\ Pending(p) = <<>>
  /\ p = "main" => started
  /\ buffering' = FALSE
  /\ IF Lifts
     THEN armed' = FALSE /\ Resume /\ Persist(FALSE, "OTHER")
     ELSE UNCHANGED <<armed, gate, row>>
  /\ Go(p, "release")
  /\ UNCHANGED <<stopped, started, status, lock, risk, ret, buffer, batch, hand,
                 applied, due, saved, obs, tally>>

Release(p) ==
  /\ At(p, "release")
  /\ lock' = "free"
  /\ IF p = "main"
     THEN Go(p, ret) /\ ret' = "idle"
     ELSE Go(p, "check") /\ UNCHANGED ret
  /\ UNCHANGED <<gate, armed, stopped, started, status, risk, events, due, db,
                 obs, tally>>

\* _sync_exchange_fills and _enforce_exchange_invariants: protection orders
CheckProtection(p) ==
  /\ At(p, "check")
  /\ Go(p, "idle")
  /\ UNCHANGED <<gate, armed, stopped, started, status, lock, risk, events, ret,
                 due, db, obs, tally>>

\* the startup baseline is replayed and the fills are synchronised, or not
FinishBaseline ==
  /\ At("main", "replay") /\ ~started /\ Pending("main") = <<>>
  /\ buffering' = FALSE
  /\ Go("main", "booted")
  /\ \/ UNCHANGED <<gate, row, tally>>
     \/ /\ tally.rest < MaxRestFailures /\ Count("rest")
        /\ Halt("startup")
        /\ Persist(TRUE, "OTHER")
  /\ UNCHANGED <<armed, stopped, started, status, lock, risk, ret, buffer,
                 batch, hand, applied, due, saved, obs>>

StartupComplete ==
  /\ At("main", "booted")
  /\ started' = TRUE
  /\ Go("main", "idle")
  /\ UNCHANGED <<gate, armed, stopped, status, lock, risk, events, ret, due, db,
                 obs, tally>>

-----------------------------------------------------------------------------
(* The private user stream: _run_session, _run, _on_stream_health,          *)
(* _on_private_event                                                        *)

SetStatus(s, l) ==
  /\ status' = s
  /\ Go("stream", l)
  /\ UNCHANGED <<gate, armed, stopped, started, lock, risk, events, ret, due,
                 db, obs>>

Connect ==
  /\ At("stream", "down")
  /\ tally.sessions < MaxSessions /\ Count("sessions")
  /\ SetStatus("LIVE", "open")

\* the health callback of a new session: a running engine buffers and spawns
\* the reconcile that will follow the reconnect
Opened ==
  /\ At("stream", "open")
  /\ IF started THEN /\ buffering' = TRUE
                     /\ due' = [due EXCEPT !["adhoc"] = @ + 1]
                ELSE UNCHANGED <<buffering, due>>
  /\ Go("stream", "up")
  /\ UNCHANGED <<gate, armed, stopped, started, status, lock, risk, buffer,
                 batch, hand, applied, ret, db, obs, tally>>

MayDrop == started \/ DropsWhileBooting

\* connect, receive, ping or keepalive raises: the DISCONNECTED callback
Drop ==
  /\ At("stream", "down") \/ At("stream", "up")
  /\ MayDrop
  /\ SetStatus("DISCONNECTED", "lost")
  /\ UNCHANGED tally

Lost ==
  /\ At("stream", "lost")
  /\ armed' = Arms
  /\ HaltUnlessHalted("stream")
  /\ Go("stream", "verify")
  /\ UNCHANGED <<stopped, started, status, lock, risk, events, ret, due, saved,
                 obs, tally>>

\* one REST check at a time, then the session is reopened after a delay
SpawnVerify ==
  /\ At("stream", "verify")
  /\ due' = IF pc["verify"] = "idle" THEN [due EXCEPT !["verify"] = 1] ELSE due
  /\ Go("stream", "down")
  /\ UNCHANGED <<gate, armed, stopped, started, status, lock, risk, events, ret,
                 db, obs, tally>>

\* proactive rotation: RESYNCING, then the session is closed and reopened
Rotate ==
  /\ At("stream", "up") /\ MayDrop
  /\ SetStatus("RESYNCING", "rotate")
  /\ UNCHANGED tally

Rotated ==
  /\ At("stream", "rotate")
  /\ armed' = Arms
  /\ HaltUnlessHalted("stream")
  /\ Go("stream", "closing")
  /\ UNCHANGED <<stopped, started, status, lock, risk, events, ret, due, saved,
                 obs, tally>>

Closed ==
  /\ At("stream", "closing")
  /\ Go("stream", "down")
  /\ UNCHANGED <<gate, armed, stopped, started, status, lock, risk, events, ret,
                 due, db, obs, tally>>

\* the keepalive task reports LIVE while the session is being rotated
KeepAlive ==
  /\ pc["stream"] \in {"rotate", "closing"} /\ status # "LIVE"
  /\ status' = "LIVE"
  /\ UNCHANGED <<gate, armed, stopped, started, lock, risk, events, pc, ret,
                 due, db, obs, tally>>

\* record_stream_health raises before the callback has decided anything: the
\* session ends, or the stream task itself if it was reporting the end
HealthFails ==
  /\ tally.health < MaxHealthFailures /\ Count("health")
  /\ \/ At("stream", "open") /\ MayDrop /\ SetStatus("DISCONNECTED", "lost")
     \/ At("stream", "rotate") /\ SetStatus("DISCONNECTED", "lost")
     \/ At("stream", "lost") /\ SetStatus("DISCONNECTED", "dead")

\* _on_private_event
Receive(k) ==
  LET e == [no |-> tally.events + 1, kind |-> k]
      full == Len(buffer) >= BufferLimit IN
  /\ At("stream", "up")
  /\ tally.events < MaxEvents /\ Count("events")
  /\ IF ~buffering
     THEN /\ hand' = e /\ applied' = e.no
          /\ Go("stream", "apply")
          /\ UNCHANGED <<gate, row, buffer>>
     ELSE /\ CASE full -> /\ Halt("overflow")
                          /\ Persist(TRUE, "OTHER")
               [] ~full /\ k = "MARGIN_CALL" -> Halt("margin") /\ UNCHANGED row
               [] OTHER -> UNCHANGED <<gate, row>>
          /\ buffer' = IF full THEN buffer ELSE Append(buffer, e)
          /\ UNCHANGED <<hand, applied, pc>>
  /\ UNCHANGED <<armed, stopped, started, status, lock, risk, buffering, batch,
                 ret, due, saved, obs>>

\* _apply_private_event run by the stream task itself
Applied ==
  /\ At("stream", "apply")
  /\ EventEffect(hand)
  /\ hand' = NoEvent
  /\ Go("stream", "up")
  /\ UNCHANGED <<armed, stopped, started, status, lock, crossing, loss, bypass,
                 lowered, ret, buffering, buffer, batch, applied, obs, tally>>

-----------------------------------------------------------------------------
(* Operator commands: _process_commands runs them in the main task, between *)
(* cycles and after every symbol                                            *)

Command(c) ==
  /\ c \in Commands
  /\ At("main", "idle") \/ At("main", "after")
  /\ tally.commands < MaxCommands /\ Count("commands")

\* the reason code of an earlier halt stays in the table
PausedBy(c) ==
  /\ Command(c)
  /\ Halt("paused") /\ Persist(TRUE, code)
  /\ UNCHANGED <<armed, stopped, started, status, lock, risk, events, pc, ret,
                 due, saved, obs>>

Pause == PausedBy("PAUSE")

\* _cancel_and_flatten: the pause comes first, then the orders and positions
CancelAndFlatten == PausedBy("FLATTEN")

StopEngine ==
  /\ Command("STOP")
  /\ Halt("stop") /\ stopped' = TRUE
  /\ UNCHANGED <<armed, started, status, lock, risk, events, pc, ret, due, db,
                 obs>>

\* _assert_stream_ready_for_entries, then the awaits of the command
ResumeBegins(c, l) ==
  /\ Command(c)
  /\ status = "LIVE"
  /\ ret' = pc["main"]
  /\ Go("main", l)
  /\ UNCHANGED <<gate, armed, stopped, started, status, lock, risk, events, due,
                 db, obs>>

GrantsBypass == code = "MAX_DRAWDOWN" \/ crossing

ResumeStrategy ==
  /\ At("main", "resume")
  /\ bypass' = (bypass \/ GrantsBypass)
  /\ Resume /\ lifted' = TRUE
  /\ Persist(FALSE, "OTHER")
  /\ Go("main", ret) /\ ret' = "idle"
  /\ UNCHANGED <<armed, stopped, started, status, lock, flow, ledger, guard,
                 crossing, loss, lowered, events, due, saved, guarded, tally>>

\* the exchange is clear: the settings are written first ...
ResumeAllChecked ==
  /\ At("main", "resume_all")
  /\ bypass' = (bypass \/ GrantsBypass)
  /\ Persist(FALSE, "OTHER")
  /\ Go("main", "enable")
  /\ UNCHANGED <<gate, armed, stopped, started, status, lock, flow, ledger,
                 guard, crossing, loss, lowered, events, ret, due, saved, obs,
                 tally>>

\* ... or it is not, and the command fails
ResumeAllRefused ==
  /\ At("main", "resume_all")
  /\ Go("main", ret) /\ ret' = "idle"
  /\ UNCHANGED <<gate, armed, stopped, started, status, lock, risk, events, due,
                 db, obs, tally>>

\* ... then every symbol is enabled, then the flag is cleared
ResumeAllDone ==
  /\ At("main", "enable")
  /\ Resume /\ lifted' = TRUE
  /\ Go("main", ret) /\ ret' = "idle"
  /\ UNCHANGED <<armed, stopped, started, status, lock, risk, events, due, db,
                 guarded, tally>>

-----------------------------------------------------------------------------
(* The strategy cycle: _run_cycle, _check_circuit_breaker, _process_symbol, *)
(* _handle_open                                                             *)

\* roll_day_if_needed at the start of a cycle of a new day; what was saved of
\* the guard belongs to the day before and is not restored any more
RollDay ==
  /\ At("main", "idle") /\ ~stopped
  /\ tally.days < MaxDays /\ Count("days")
  /\ flow' = "CONFIRMED" /\ ledger' = "CONFIRMED" /\ guard' = "off"
  /\ crossing' = FALSE /\ loss' = FALSE /\ bypass' = FALSE
  /\ lowered' = FALSE /\ savedGuard' = "off"
  /\ UNCHANGED <<gate, armed, stopped, started, status, lock, events, pc, ret,
                 due, row, savedFlow, obs>>

\* 30 seconds pass since the guard was raised
GuardAges ==
  /\ guard = "young"
  /\ guard' = "old"
  /\ savedGuard' = IF savedGuard = "young" THEN "old" ELSE savedGuard
  /\ UNCHANGED <<gate, armed, stopped, started, status, lock, flow, ledger,
                 crossing, loss, bypass, lowered, events, pc, ret, due, paused,
                 code, savedFlow, obs, tally>>

Breached   == loss \/ (crossing /\ ~bypass)
BreachCode == IF loss THEN "OTHER" ELSE "MAX_DRAWDOWN"

\* where the cycle goes on after a snapshot
Snapshot(then) == Go("main", "lock") /\ ret' = then

\* _run_cycle past the commands and the market refresh
StartsCycle == At("main", "idle") /\ ~stopped

\* the drawdown is being attributed: entries stay halted, nothing is closed
BreakerDefers ==
  /\ StartsCycle /\ flow = "RECONCILING"
  /\ HaltUnlessHalted("flow")
  /\ Snapshot("recheck")
  /\ UNCHANGED <<armed, stopped, started, status, lock, risk, events, due,
                 saved, obs, tally>>

Trips == /\ flow # "RECONCILING" /\ Breached
         /\ ~halted \/ reason # "breaker"

\* trip, persist, flatten the managed positions; a failed flatten raises out
\* of the cycle
BreakerTrips ==
  /\ StartsCycle \/ At("main", "recheck")
  /\ Trips
  /\ Halt("breaker") /\ Persist(TRUE, BreachCode)
  /\ \/ Go("main", "idle") /\ UNCHANGED ret
     \/ At("main", "idle") /\ Snapshot("idle")
  /\ UNCHANGED <<armed, stopped, started, status, lock, risk, events, due,
                 saved, obs, tally>>

BreakerQuiet ==
  /\ StartsCycle /\ flow # "RECONCILING" /\ ~Trips
  /\ IF halted THEN Snapshot("idle") ELSE Go("main", "symbol") /\ UNCHANGED ret
  /\ UNCHANGED <<gate, armed, stopped, started, status, lock, risk, events, due,
                 db, obs, tally>>

\* _update_risk_settings: the new limits are in force at once ...
ChangeLimits ==
  /\ Command("RISK")
  /\ crossing' \in BOOLEAN /\ loss' \in BOOLEAN
  /\ lowered' = (crossing' /\ (lowered \/ ~crossing))
  /\ ret' = pc["main"] /\ Go("main", "limits")
  /\ UNCHANGED <<gate, armed, stopped, started, status, lock, flow, ledger,
                 guard, bypass, events, due, db, obs>>

\* ... then they are written, which may fail, and the breaker is asked: a
\* drawdown that a lowered limit reaches waits for no guard
CheckLimits ==
  /\ At("main", "limits")
  /\ \/ flow = "RECONCILING" /\ HaltUnlessHalted("flow")
     \/ Trips /\ Halt("breaker") /\ Persist(TRUE, BreachCode)
     \/ UNCHANGED <<gate, row>>
  /\ Go("main", ret) /\ ret' = "idle"
  /\ UNCHANGED <<armed, stopped, started, status, lock, risk, events, due,
                 saved, obs, tally>>

RecheckQuiet ==
  /\ At("main", "recheck") /\ ~Trips
  /\ Go("main", "idle")
  /\ UNCHANGED <<gate, armed, stopped, started, status, lock, risk, events, ret,
                 due, db, obs, tally>>

MainStep(from, to) ==
  /\ At("main", from)
  /\ Go("main", to)
  /\ UNCHANGED <<gate, armed, stopped, started, status, lock, risk, events, ret,
                 due, db, obs, tally>>

\* the model's decision opens nothing, or goes to the risk validation
Hold       == MainStep("symbol", "after")
\* risk validation reads the flag; the order is sent some awaits later
Admit      == ~halted /\ ~loss /\ MainStep("symbol", "submit")
Reject     == (halted \/ loss) /\ MainStep("symbol", "after")
Submit     == MainStep("submit", "after")

\* _refresh_positions_after_open: the entry is made, its position cannot be read
RefreshFails ==
  /\ At("main", "submit")
  /\ tally.rest < MaxRestFailures /\ Count("rest")
  /\ Halt("query") /\ Persist(TRUE, "OTHER")
  /\ Go("main", "after")
  /\ UNCHANGED <<armed, stopped, started, status, lock, risk, events, ret, due,
                 saved, obs>>

NextSymbol == ~stopped /\ ~halted /\ MainStep("after", "symbol")

EndCycle ==
  /\ At("main", "after") /\ ~stopped
  /\ Snapshot("idle")
  /\ UNCHANGED <<gate, armed, stopped, started, status, lock, risk, events, due,
                 db, obs, tally>>

-----------------------------------------------------------------------------
(* The end of the process: shutdown, a crash, and the next start            *)

Fresh(main) ==
  /\ halted' = FALSE /\ reason' = "none" /\ armed' = FALSE
  /\ stopped' = FALSE /\ started' = FALSE /\ status' = "UNKNOWN"
  /\ buffering' = TRUE /\ buffer' = <<>> /\ lock' = "free"
  /\ flow' = "CONFIRMED" /\ ledger' = "CONFIRMED" /\ guard' = "off"
  /\ crossing' = FALSE /\ lowered' = FALSE
  /\ pc' = [p \in Procs |-> IF p = "main" THEN main
                            ELSE IF p = "stream" THEN "off" ELSE "idle"]
  /\ ret' = "idle" /\ batch' = [p \in Procs |-> <<>>] /\ hand' = NoEvent
  /\ due' = [p \in Resyncers |-> 0]
  /\ guarded' = FALSE /\ lifted' = FALSE
  /\ applied' = tally.events
  /\ UNCHANGED <<loss, bypass, db>>

Shutdown ==
  /\ \/ stopped /\ (At("main", "idle") \/ At("main", "after"))
     \/ At("main", "failed_mode")
  /\ Fresh("exit") /\ UNCHANGED tally

Restart ==
  /\ tally.restarts < MaxRestarts /\ Count("restarts")
  /\ Fresh("boot")

-----------------------------------------------------------------------------

Init ==
  /\ halted = FALSE /\ reason = "none" /\ armed = FALSE
  /\ stopped = FALSE /\ started = FALSE /\ status = "UNKNOWN"
  /\ buffering = TRUE /\ buffer = <<>> /\ lock = "free"
  /\ flow = "CONFIRMED" /\ ledger = "CONFIRMED" /\ guard = "off"
  /\ crossing = FALSE /\ loss = FALSE /\ bypass = FALSE
  /\ lowered = FALSE
  /\ pc = [p \in Procs |-> IF p = "main" THEN "boot"
                           ELSE IF p = "stream" THEN "off" ELSE "idle"]
  /\ ret = "idle" /\ batch = [p \in Procs |-> <<>>] /\ hand = NoEvent
  /\ due = [p \in Resyncers |-> 0]
  /\ paused \in BOOLEAN /\ code = "OTHER"
  /\ savedFlow = "CONFIRMED" /\ savedGuard = "off"
  /\ guarded = FALSE /\ lifted = FALSE
  /\ applied = 0
  /\ tally = [c \in Tallied |-> 0]

Startup  == \/ Boot \/ ValidateMode \/ ValidateModeFails \/ WaitConnected
            \/ WaitConnectedFails \/ FinishBaseline \/ StartupComplete
Resync(p) == \/ Acquire(p) \/ RestAnswers(p)
             \/ \E r \in Readings : ApplySnapshot(p, r)
             \/ Replay(p) \/ ReplayEffect(p) \/ FinishReplay(p) \/ Release(p)
             \/ CheckProtection(p)
Stream   == \/ Connect \/ Opened \/ Lost \/ SpawnVerify \/ Rotated \/ Closed \/ Applied
Network  == \/ Drop \/ Rotate \/ KeepAlive \/ HealthFails
            \/ \E k \in EventKinds : Receive(k)
Operator == \/ Pause \/ CancelAndFlatten \/ StopEngine \/ ChangeLimits
            \/ ResumeBegins("RESUME", "resume")
            \/ ResumeBegins("RESUME_ALL", "resume_all")
Resumes  == \/ ResumeStrategy \/ ResumeAllChecked \/ ResumeAllRefused
            \/ ResumeAllDone
Cycle    == \/ BreakerDefers \/ BreakerTrips \/ BreakerQuiet
            \/ RecheckQuiet \/ CheckLimits \/ Hold \/ Admit \/ Reject \/ Submit
            \/ RefreshFails \/ NextSymbol \/ EndCycle

Syncing == Resyncers \cup {"main"}

Next ==
  \/ Startup \/ Stream \/ Network \/ Operator \/ Resumes \/ Cycle
  \/ RollDay \/ GuardAges \/ Shutdown \/ Restart
  \/ \E p \in Syncing : Resync(p) \/ RestFails(p)

Spec == Init /\ [][Next]_vars

\* What asyncio and the network timeouts give: the startup goes on, the stream task
\* goes on (it reconnects for ever), and as long as some resync can go on one does.
\* No order among the tasks that wait for the lock is assumed.
Fairness == /\ WF_vars(Startup) /\ WF_vars(Stream)
            /\ WF_vars(\E p \in Syncing : Resync(p))

FairSpec == Spec /\ Fairness

-----------------------------------------------------------------------------
(* Properties                                                               *)

TypeOK ==
  /\ halted \in BOOLEAN /\ reason \in Reasons /\ armed \in BOOLEAN
  /\ stopped \in BOOLEAN /\ started \in BOOLEAN
  /\ status \in {"UNKNOWN", "LIVE", "RESYNCING", "DISCONNECTED"}
  /\ buffering \in BOOLEAN /\ buffer \in Seq(Events)
  /\ lock \in Syncing \cup {"free"}
  /\ flow \in Flows /\ ledger \in {"CONFIRMED", "OPEN"} /\ guard \in Ages
  /\ crossing \in BOOLEAN /\ loss \in BOOLEAN /\ bypass \in BOOLEAN
  /\ lowered \in BOOLEAN
  /\ pc \in [Procs -> MainLabels \cup StreamLabels \cup SyncLabels]
  /\ ret \in Returns
  /\ batch \in [Procs -> Seq(Events)] /\ hand \in Events
  /\ due \in [Resyncers -> Nat]
  /\ paused \in BOOLEAN /\ code \in Codes
  /\ savedFlow \in Flows /\ savedGuard \in Ages
  /\ guarded \in BOOLEAN /\ lifted \in BOOLEAN
  /\ applied \in Nat
  /\ tally \in [Tallied -> Nat]

\* A process that came up paused, by the mainnet restart guard or by a persisted
\* pause, admits no entry before an operator has resumed it: no resync, no
\* attribution of a transfer and no startup step lifts that pause.
RestartGuard == guarded /\ ~lifted => halted

\* what makes RestartGuard inductive: such a halt is never one that a resync or
\* the capital-flow guard may lift
RestartGuardInv ==
  guarded /\ ~lifted => halted /\ ~armed /\ reason # "flow"

OperatorResumes == /\ pc["main"] \in {"resume", "enable"}
                   /\ pc'["main"] # pc["main"]
ProcessEnds     == pc'["main"] \in {"boot", "exit"}
Booting         == pc["main"] = "boot"

\* A halt that the stream fault did not cause and that waits for no attribution
\* (a manual pause, a margin call, a tripped breaker, a failed query) stays one
\* of that kind until an operator resumes or the process ends; no later fault,
\* event or transfer turns it into one that is lifted by itself.
OnlyOperatorLifts ==
  [][halted /\ ~armed /\ reason # "flow" =>
       \/ halted' /\ ~armed' /\ reason' # "flow"
       \/ OperatorResumes \/ ProcessEnds \/ Booting]_vars

\* While the private stream is not LIVE and its health callback has run, a
\* started engine admits no new entry (RUNBOOK.md:14).
EntriesNeedLiveStream ==
  started /\ ~halted /\ pc["stream"] \notin {"lost", "rotate"}
    => status = "LIVE"

\* the events still to be applied, oldest first
InFlight(p) == IF pc[p] = "effect" THEN Tail(batch[p]) ELSE batch[p]
Waiting     == InFlight("main") \o InFlight("periodic") \o InFlight("verify")
                 \o InFlight("adhoc") \o buffer

\* With a buffer that is large enough, every private event reaches the projection
\* once and in the order received, whatever resyncs, failures and reconnects
\* happen in between: the events not yet applied are the next ones.
EventsInOrder ==
  /\ applied + Len(Waiting) = tally.events
  /\ \A i \in 1..Len(Waiting) : Waiting[i].no = applied + i

\* A REST answer in hand is applied before any private event received after it
\* was asked for, so an old answer never overwrites a newer event.
NoEventOvertakesSnapshot ==
  [][applied' # applied /\ ~ProcessEnds =>
       \A p \in Syncing : pc[p] # "snap"]_vars

DrawdownTrips == reason' = "breaker" /\ reason # "breaker" /\ ~loss

\* The drawdown breaker, which closes positions, trips only on a complete income
\* ledger and after the 30 s guard (docs/ops/2026-06-23-...-drawdown.md:60-64),
\* whatever readings, transfers, bypasses and new limits come before; the one
\* exception is a drawdown that a command has just lowered the limit to.
DrawdownTripIsAttributed ==
  [][DrawdownTrips => lowered \/ (ledger = "CONFIRMED" /\ guard = "old")]_vars

\* Once the stream stays up, the pause its fault caused is lifted.
StreamPauseEnds == <>[](pc["stream"] = "up") => <>[]~armed

\* A private event the engine has received is applied in the end.
EventsApplied ==
  \A n \in 1..MaxEvents : (tally.events >= n) ~> (applied >= n)
=============================================================================
