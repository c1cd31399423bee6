# A model of binance-trade

TLA+ modules, TLC runs and TLAPS proofs about the trading engine of this
repository: what halts new entries, what lifts a halt, in which order the
tasks of the engine may do so, whether the account the engine sees is the
account the exchange has, what becomes of a position from its entry to its exit, what
one order call trades and says it traded, to whom each fill is booked, which
reconstruction of the trades the account page shows, and what becomes of an
operator's command.
Paths below are relative to the repository;
`loop.py` is `src/src/engine/loop.py`, `account.py` is `src/src/state/account.py`,
`runtime.py` is `src/src/state/runtime.py`, `executor.py` is
`src/src/execution/executor.py`, `repo.py` is `src/src/store/repo.py`, `service.py` is
`src/src/reconcile/service.py`, `server.py` is `src/web/server.py`.

## 1. The system

One asyncio process (`main.py`, `TradingEngine`) trades; one web process shows
the state and queues commands. They share a SQLite database and nothing else.

| component | state it keeps | operations | what makes it correct |
|---|---|---|---|
| Entry gate (`loop.py`, `runtime.py`, `risk/manager.py:101-117`) | `halt_new_entries` and its reason, `_stream_halted_entries`, capital-flow status and guard, `strategy.paused` in the database | a dozen places halt; resync, capital-flow guard, RESUME and RESUME_ALL lift; `validate` reads | a halt is lifted only by what may lift it; no entry while the stream is down; the breaker trips on attributed drawdowns only |
| Private user stream (`exchange/user_stream.py`) | session, listen key, health | connect, receive, keepalive, rotate, drop, reconnect | reconnects for ever; each end of a session is reported before the next begins |
| Event buffer and resync (`loop.py:335-349, 536-588, 4577-4614`) | `_buffer_private_events`, `_private_event_buffer`, `_state_sync_lock` | buffer, fetch, apply, replay | an event is applied once, in order, and never overwritten by an older answer |
| Account projection (`account.py`) | positions, orders, balances, entity versions; the inbox table | submit, drain, apply, REST snapshot, replay at start | duplicates are harmless, the newest state wins, a crash loses nothing recorded |
| Position lifecycle (`loop.py:2066-4537`) | claims, ownership, protection orders, condition orders | open, close, adjust, reconcile, adopt, repair, flatten | every position of the engine has a stop or is closed; foreign positions are not touched |
| Execution (`execution/executor.py`) | one call's attempts, their order ids and cumulative fill | maker first, re-quote, market fallback, retry, cancel, confirm | one live order at a time; the result is what traded; a close never reverses; the call ends |
| Commands and settings (`loop.py:662-1323`, `web/server.py`) | `control_commands`, `runtime_settings` with versions | queue, execute, mark; versioned updates | what is answered "done" is stored; answers in order; no update overwrites one it has not seen |
| Capital-flow ledger (`loop.py:4676-4825`) | income rows, ledger status | stream ingest, REST sync | a transfer is counted once; the status is honest |
| Fill ledger (`repo.py:998-1660`, `loop.py:3960-3989`) | `exchange_fills`, `external_trades` and their allocations; claims, orders and trades of the engine decide the owner | stream ingest, REST compensation, reclassify, rebuild | a fill is booked once, to the one it belongs to; the compensation leaves no hole |
| Trade reconciliation (`reconcile/`, `server.py:1042-1160`) | preview tasks, runs, the active run | preview, apply, activate, fail interrupted tasks | the run that is shown is true; one task at a time, which ends |
| LLM chain (`llm/`) | profiles, cooldowns | decide, fail over, swap | the first healthy profile answers; a swap does not disturb a call |
| Throttle and guards (`throttle/gate.py`, `engine/decision_guards.py`) | last decision, skip counts | evaluate | a skip is bounded; a trigger is never missed |

How they interact: the stream task calls `_on_private_event` and
`_on_stream_health` of the engine; the engine submits events and REST snapshots
to the projection's queue and waits for it to drain; the main task, the periodic
reconcile loop and the tasks spawned by stream events all run the same resync
under one lock; operator commands are rows of the database that the main task
reads between cycles and after every symbol.

What is hard: every coroutine of the engine yields at each `await`, and most
operations await several times between reading the halt flag or the stream
status and acting on it. The stream fails and comes back at any point; REST
answers are older than the events that arrive while they travel; a round may
fail half way; the process may be killed and started again with what the
database kept. The repository's tests cover each coroutine by itself and none of
the interleavings of `_on_stream_health`, `_rest_resync_with_event_buffer` and the
commands. `PROJECT.json` lists the hazards line by line with the properties that
cover them.

## 2. Modules

| module | models |
|---|---|
| `EntryGate` | the entry gate with the stream session, the event buffer, the resync, the commands, the capital-flow guard, the breaker and the restart guard |
| `MCEntryGate`, `MCTradeReconcile` | the inputs of the TLC runs, each with a statement of the documentation that the code does not keep |
| `EntryGateProofs` | the theorems about `EntryGate`: types and halts |
| `EntryGateEventProofs` | the theorems about `EntryGate`: events, the resync, the breaker, the stream |
| `AccountProjection` | the account coordinator, its inbox and tables, the event buffer and the REST resync that feed it, the exchange and the socket |
| `AccountProjectionProofs` | the theorems about `AccountProjection` |
| `PositionLifecycle` | one symbol: entry under a claim, condition orders, adjust, close, exits by the exchange, repair, and the reconcile pass that compares exchange and books |
| `PositionLifecycleProofs` | the theorems about `PositionLifecycle` |
| `OrderExecution` | one call of `open_position` or `close_position` with the exchange it trades on |
| `OrderContract` | what such a call promises its caller, whatever route it takes |
| `OrderExecutionProofs` | the theorems about `OrderExecution`, among them that it implements `OrderContract` |
| `FillLedger` | the fills of one symbol, their owners and the archive of external trades, with the three writers |
| `FillLedgerProofs` | the theorems about `FillLedger` |
| `TradeReconcile` | the preview tasks, runs and the apply of the web process, while the account trades |
| `TradeCycles` | the replay of fills into cycles, on top of `TradeReconcile`, with a reference definition |
| `TradeReconcileProofs` | the theorems about `TradeReconcile` and `TradeCycles` |
| `ControlCommands` | the command queue and the versioned settings, over failed writes and crashes |
| `ControlCommandsProofs` | the theorems about `ControlCommands` |
| the other `MC...` | the small instances of each for TLC |

The two specifications meet at the buffer and the resync. `EntryGate` models in
full which tasks resync, when, and under which lock, and counts events only;
`AccountProjection` takes that order (one resync at a time, begun at any moment) and
models what events and answers say and what becomes of it. `PositionLifecycle` stands on
both: it takes an entry as admitted, and an event as delivered once or lost. What it
takes as one answer of the executor (filled, filled in part, nothing) is what
`OrderContract` allows, and `OrderExecution` is shown to implement that. `FillLedger` takes
the engine's calls as writers of claims and orders, with the one gap `OrderExecution`
shows: attempts that filled and are not in the result. `TradeReconcile` takes the
ledger as a set of fills that grows. `ControlCommands` has the life of a command between the two
processes, which `EntryGate` takes as one step.

### EntryGate

An action is the code between two awaits of one task. `pc` says where each of
the five tasks is: `main` (startup, then cycles), `stream` (the session and its
health callback), and three that resync: `periodic` (`_reconcile_loop`), `verify`
(spawned by a disconnect) and `adhoc` (spawned by a connect or an event). `due`
counts tasks that were created and wait for the state lock.

| part of the model | code |
|---|---|
| `Boot` .. `StartupComplete` | `startup`, `_apply_runtime_settings` (loop.py:201-278, 827-967) |
| `Acquire`, `RestAnswers`, `RestFails`, `ApplySnapshot`, `Replay`, `ReplayEffect`, `FinishReplay`, `Release`, `CheckProtection` | `_reconcile_exchange_state`, `_snapshot`, `_rest_resync_with_event_buffer`, `_submit_rest_account_snapshot`, `_replay_private_event_buffer` |
| `Connect`, `Opened`, `Drop`, `Lost`, `SpawnVerify`, `Rotate`, `Rotated`, `Closed`, `KeepAlive`, `HealthFails` | `BinanceUserDataStream._run`, `_run_session`, `_keepalive`, `_emit_health`; `_on_stream_health` |
| `Receive`, `Applied`, `EventEffect` | `_on_private_event`, `_apply_private_event` and what it calls |
| `UpdateGuard`, `GuardWaits` | `_update_capital_flow_guard`, `_record_balance_snapshot` |
| `Pause` .. `ResumeAllDone` | `_process_commands`, `_exec_command`, `_cancel_and_flatten`, `_resume_all_symbols` |
| `ChangeLimits`, `CheckLimits` | `_update_risk_settings`: the limits change at once, `_check_circuit_breaker` follows the write |
| `BreakerDefers`, `BreakerTrips`, `BreakerQuiet`, `RecheckQuiet` | `_run_cycle`, `_check_circuit_breaker` |
| `Hold`, `Admit`, `Reject`, `Submit`, `RefreshFails`, `NextSymbol`, `EndCycle` | `_process_symbol`, `_handle_open`, `validate`, `_refresh_positions_after_open` |
| `Shutdown`, `Restart`, `Fresh` | `shutdown`, a crash at any point, the next `__init__` |

Variables under "observation" (`guarded`, `lifted`, `applied`, `lowered`)
record what happened for the properties; no guard reads them.

Simplifications, each of which keeps the order of the state changes:

- A settings write takes effect with the assignment before it. Its delay is
  covered by the interleaving of the steps that follow; writes that overwrite
  each other are left to `PauseStore` (section 6). A write itself does not fail.
- Event kinds are classes: MARGIN_CALL; REVIEW (every event that pauses and
  schedules a reconcile: a leverage above the limit, multi-assets mode, an
  unknown configuration event); TRANSFER (a deposit or withdrawal the
  ledger ingests); OTHER (only the projection cares).
- A REST round reports a `Reading`: ledger complete or not, balance parsed or
  not, drawdown at its limit, realized loss at its limit. `OPEN` stands for
  PROVISIONAL, INCOMPLETE and ERROR, which the guard treats alike.
- Time is three ages of the guard: off, younger than 30 s, older.
- KILL_SWITCH is STOP as far as the gate sees it. `bypass` and `loss` outlive a
  restart (the database keeps the first, the startup recomputes the second); the day turns
  only where a cycle begins, and the risk keys are saved in one transaction.
- Tasks of the same kind run one after the other; at most `MaxTasks` reconcile
  tasks are past the lock.
- New limits put the drawdown and the realized loss on either side of them:
  `ChangeLimits` chooses `crossing` and `loss` afresh. `lowered` says that the drawdown is over
  its limit because a command has lowered that; the next balance, which the guard then
  looks at, and a new day end it.
- CANCEL_AND_FLATTEN is its halt and the write of `strategy.paused`; positions and orders
  are not part of this module.
- The halts at startup for what is unreadable are left out: persisted figures and settings
  (loop.py:846-930), a missing LLM profile (loop.py:4965).

### AccountProjection

An entity is what the code keeps a version for: a position or an order. Its
state at the exchange (`truth`) is when it last changed and whether it is open;
a view shows the time of the state it has, or 0 for what is not open. `Truth` is
what a correct view shows.

| part of the model | code |
|---|---|
| `Change`, `Drop`, `Connect`, `Receive`, `Received` | the exchange and the socket (external); `_on_stream_health`, `_on_private_event`: buffer, drop at the limit, or submit and drain |
| `BeginResync`, `FetchPositions`, `FetchOrders`, `FetchFails`, `SnapshotApplied` | `_snapshot`, `_rest_resync_with_event_buffer`, `_submit_rest_account_snapshot` |
| `TakeBuffer`, `ReplayNext`, `ReplayApplied`, `ReplayFails`, `ReplayDone` | `_replay_private_event_buffer` |
| `Record`, `RecordFails`, `Finish`, `JobFails` | `_run`, `record_exchange_event`, `mark_exchange_event_applied`, `mark_exchange_event_failed`, `_sync_runtime` |
| `Newer`, `ApplyEvent`, `WriteTables` | `_newer`, `_apply_account_update`, `_apply_order_update`, `_apply_algo_update`, `upsert_live_*` |
| `Replaced`, `ApplySnapshot`, `ClearTables`, `WriteTables` | `_apply_rest_snapshot`, `replace_live_account` |
| `EngineWrites` | what the engine writes into `runtime.positions` itself: the answers of `_confirm_exchange_flat`, `_confirm_unmanaged_live_position`, `_adopt_orphan_position`, `_recheck_orphan_before_emergency` and `_refresh_positions_after_open` (loop.py:4026, 4056-4091, 4363, 4465, 3441), and the positions it drops once they are closed (loop.py:1345, 1960, 2380, 3542, 4081) |
| `Crash`, `ReplayInbox`, `Started` | a kill at any point, the next process, `AccountStateCoordinator.start` |

`view` is what the engine reads, `runtime.positions` and `runtime.open_orders`. The coordinator
writes it from its memory after every job; the engine also writes positions itself, under no
lock and past the queue, some from an answer that may be older than an event already applied.
`EngineWrites` therefore sets any positions to any state they have had, or drops them; `patched` names
them until the next `_sync_runtime`, which replaces the whole view. Orders the engine writes only where the
coordinator is not started (loop.py:3999, 4589).

`stale`, `fresh`, `torn` and `patched` are observation; no guard reads them. `stale` holds the
entities of which an event was lost (the session ended with it, the buffer was
full, the store raised, a replay was cut short, the process died); a REST round
clears those of which no older event was on its way when it asked (`fresh`).

Simplifications:

- An event is about one entity. An ACCOUNT_UPDATE about several is as many events
  to the version check, which the code does entity by entity. Balances are
  written by the same statements as positions and have no entity of their own.
- The socket may deliver out of order and twice. Binance promises order within a
  session; the version check and the unique key exist for the other case.
- A REST answer shows positions, or orders, as they are at one moment of its
  call; the two calls are separate steps.
- Events without a time, `wait_for_order`, pruning of the inbox and the truncation
  of long payloads are left out.

### PositionLifecycle

An action is one request to the exchange with what the code does about its
answer. `task` says what each task is doing: `main` (a decision of the strategy, run to
its end), `stream` (the handler of a filled condition order), and the reconcile passes.
Neither a lock nor the claim keeps a pass out of a flow that has begun; what does
is what the pass asks before it acts (`ClaimActive`, `RecentEntry`, `FlatDeferred`,
`justClosed`).

| part of the model | code |
|---|---|
| `OpenRefused`, `OpenStart`, `OpenUnfilled`, `OpenFilled`, `OpenLosesFill`, `OpenLogged`, `Precheck`, `Attached` | `_handle_open`, the claim rows, `_open_market_position`, `log_order`, `_precheck_before_attach_sl_tp`, `_handle_missing_stop_after_open` |
| `Placed`, `NotPlaced`, `WithOrder` | `place_sl_tp`, `place_protection_orders`, the hash that is the client id, `_find_matching_condition_order` |
| `Sold`, `NotSold`, `SaleBooked`, `BookExit` | `_close_market_position`, `_close_open_trades_with_exit_order`, and what the three callers do with a full, a partial and no sale |
| `CloseStart`, `AdjustStart`, `Adjusted`, `AdjustCancels`, `Emergency`, `CancelAll` | `_handle_close`, `_handle_adjust_sltp`, `_emergency_close_unprotected_position`, `_cancel_symbol_condition_orders` |
| `Repair`, `RepairCancels`, `Replan`, `PlanRepair`, `Repaired`, `RepairFails` | `_repair_sl_tp` and the handlers around its calls |
| `SyncStart` .. `Recheck` | `_enforce_exchange_invariants`, `_confirm_exchange_flat`, `_should_enforce_position_protection`, `_adopt_orphan_position`, `reconcile_symbol_flat` |
| `ReadHistory`, `StreamExit` | the two ways a fill of a condition order reaches the books: `sync_condition_order_history` and `mark_condition_exit` |
| `Trigger`, `LoseExit`, `Cross`, `ForeignAct`, `Settle` | the exchange, the price, and other users of the account (external) |
| `Mature`, `ClaimExpires`, `CloseForgotten` | the ages the code compares: 60 s of a trade, 300 s and 15 min of a claim, 30 s of a close |

`own` and `foreign` split the position of the exchange, which shows their sum. No
guard of the engine reads the split; the properties do. `Mismatch` is the one idea
that decides about a condition order: a stop of another quantity than the position,
or one the mark has crossed, and a target larger than the position, are stale.

Simplifications:

- One symbol and one direction. Quantities are small integers; a plan of prices is a
  number, and `crossed` says that the mark is beyond every stop.
- A database write takes effect with the step before it. Trades are two heaps,
  `young` and `old`, and an exit takes from the old first; which trade an order
  belongs to is not kept; only that the event of an order books nothing once a pass has
  closed its trade (`BookFlat`). `exits` keeps every condition order that filled, with what
  has booked it; an exit is `due` while its event still comes. Of claims the newest is kept, and whether an older one is active (`stuck`).
- A position query may miss the last fill for less than 60 s (`lag`, `Mature`). A trade does not
  grow old between the flat check of a pass and its booking, which is what
  `opened_before_ms` sees to. A claim outlives the flow that holds it.
- The confirming queries of `_confirm_exchange_flat` are one answer; the position the
  runtime has cached is read where a close starts.
- There is one target, of half the quantity; a repair's covers all. An order below the
  exchange's minimum takes the way of a failed precheck.
- Adoption uses the prices of the latest decision; the way without one, through
  repair, is left out.
- Not modelled: the operator's CLOSE_POSITION, FLATTEN, PROTECT_POSITION and REPAIR commands
  (the last runs `Repair`), the flatten of the breaker, `_detect_external_closes` of the
  snapshot, and the disabling on EXTERNAL_ORDER_DETECTED.

### OrderExecution

An action is one request to the exchange with what the code does about its
answer, or a step of the exchange itself. `pc` is the await at which the call stands.

| part of the model | code |
|---|---|
| `Quote`, `MarketOrder`, `Refusable`, `Accept`, `Create` | `_open_maker_position`, `_close_maker_position`, `_open_market_position`, `_close_market_position`, `_with_retry`, the create that is answered, refused, or lost after the exchange took it |
| `Recover`, `Known` | `_recover_ambiguous_order`: the query by client id after an unanswered create |
| `Poll`, `GiveUp`, `GiveUpOnEnded`, `Cancel` | `_wait_maker_fill`, `_recover_via_my_trades`, `_cancel_regular_order_safe` |
| `Trades`, `Books`, `ParsedFill` | `_fetch_order_trades_safe`, `_trade_fill_summary`, `_parse_fill` and the cumulative quantity |
| `NextAttempt`, `FallBack`, `WrapUp`, `Residual`, `ResidualDone` | re-quotes, the market fallback, `_reconcile_maker_residual_fills` and the result |
| `Fill`, `Expire` | the exchange (external) |

`counted`, `stray` and `raced` are observation. What is assumed of the exchange: a
market order trades what it trades, which may be nothing, when it is accepted; a duplicate client id is
refused only while the first order is open; a reduce-only order is refused when flat
and cut to the position otherwise. Quantities are lots, and prices are what
decides whether a rest is above the minimum notional. Time is the order of
steps: a wait may end at any point. So the hard cap in `_wait_maker_fill`
(executor.py:896-897, 915) has no step of its own: it is never reached before the deadline,
and it is checked between two queries, so it does not interrupt one that hangs.

`OrderContract` has three variables. The call works until it returns or raises; the
exchange may trade on its orders at any time; a claim for a post-only order is at
most what it had traded by then, and is not taken back. The mapping: `traded` is
`orders[i].filled`, `claimed` is `counted`, once the call has returned.

### FillLedger

| part of the model | code |
|---|---|
| `EngineFill`, `ManualFill` | the exchange (external) |
| `BeginClaim`, `LogOpen`, `MarkClaim`, `FinishClaim`, `OpenRaises`, `BeginClose`, `LogClose`, `BookStop` | the rows `_handle_open`, `_handle_close` and the condition exits write, one by one |
| `StreamIngest`, `StreamDrops` | `_apply_private_event`, `ingest_exchange_fill` |
| `SyncBegin`, `SyncFetch`, `SyncIngest`, `SyncFails`, `SyncResolve` | `_sync_exchange_fills`: watermark, pages, then `resolve_unknown_exchange_fills` |
| `Owner`, `OwnerByAnyClaim`, `Claimed`, `Managed` | `_classify_exchange_fill` |
| `ApplyExternal`, `AddTo`, `CloseWith`, `CarryIn`, `Replay` | `_apply_external_fill`, `_rebuild_external_symbol` |

Assumed: fills have distinct times, fewer than a page share a millisecond, an open
call is shorter than its claim's 300 s, and only the newest claim matters. The 60 s
between two syncs are left to the scheduler. A restart in the middle of an open call
leaves its claim active for ever, and the fills in it unknown (`engine = "crashed"`);
`UnknownIsResolved` leaves that case out because the code does. The offline import
(main.py:127-191) and the limit of 200 unknown fills per pass are not modelled.

### TradeReconcile and TradeCycles

| part of the model | code |
|---|---|
| `RequestPreview`, `ActiveTasks` | `api_trade_reconcile_preview`, `create_or_reuse_reconcile_task` |
| `BeginPreview`, `BeginApply` | `_execute_trade_reconcile_task`, `api_trade_reconcile_apply`, under one lock |
| `ReadFills`, `ReadPosition`, `Refused`, `Found`, `Persist`, `Succeed`, `JobFails` | `BinanceTradeReconciler.preview` and the handler around it |
| `OrdersAsked`, `LateProgress` | `_fetch_order_metadata`: one query of several fails, another is answered later and its `_progress` writes the row of the task |
| `Compare`, `SameHash`, `Activate` | `apply`: a second look, the two hashes, `_activate_run` |
| `Restart`, `Interrupted` | the next web process, `fail_interrupted_reconcile_tasks` |
| `Initial`, `Replayed`, `Accepted` | `_derive_initial_positions`, `_validate_final_positions` |
| `Cycles`, `ReplayFill`, `Reduced`, `Added`, `Exited` (TradeCycles) | `replay_trade_cycles` |
| `Trade`, `Ingest` | the exchange and the engine's ledger (external) |

The position is read after the fills (service.py:125, 584), so what trades between the
two makes the first position of a preview wrong. Nothing in the preview can tell; the second
look of apply does (service.py:237-251), because a later scope and a wrong position
cannot have the hash of the first one. That is `ActiveRunIsTrue`. `TradeCycles` is the
replay as a fold; `Lives` is its reference definition, which cuts the
position's history at its zeros without looking at quantities one by one, and puts the cuts in
order (`InOrder`).

A task has a status and, until it ends, the unique `active_slot`. The two part when a query of an order
fails while others run (`late`): the job ends, the row says "failed" and the slot is free; then
a late answer writes "running" into the row, with the slot still free (`LateProgress`; service.py:440,
server.py:1045-1052, repo.py:3012-3013). Requests look at the status (`ActiveTasks`), so that row
is what they are answered with until a restart, and it may stand beside the task of the request in
between: `reconcile_two_tasks`. `SlotFreed` says what is left, that every preview gives up its slot.

Left out: prices, fees, profits, the metadata of a fill's order, more than one symbol.
The write that ends a task is assumed to get through (server.py:1061, 1085), and so is the
startup's (server.py:2101); otherwise a task keeps its slot until the next restart. A query of the
position is assumed to show every fill before it, as `_current_positions` takes it (service.py:584), while
`PositionLifecycle` lets one lag by up to 60 s: a lag that both looks of an apply share would
give a run that is wrong and passes.

### ControlCommands

| part of the model | code |
|---|---|
| `ApplyForm`, `PressResume`, `Enqueue` | the apply endpoints and `api_command`, `enqueue_command` |
| `Fetch`, `Takes` | `fetch_pending_commands`, the loop of `_process_commands` |
| `Current`, `Adopt`, `Conflict`, `Refuse`, `Resume` | `_update_risk_settings`, `_update_engine_settings`, `_update_execution_settings`, `_exec_command` |
| `Save`, `SaveFails`, `Breaker` | `set_runtime_settings`, the breaker after a risk update |
| `Mark`, `MarkDoneFails`, `MarkFailedFails` | `mark_command` and the two handlers it may raise in |
| `Crash`, `Boot` | a kill at any point; `_apply_runtime_settings` |

The settings a row asks for have the row's name, so two rows never ask for the same.
A form is the version it showed: any version the store ever had, since a form may
stay open and its preview may be old. Validation is a choice (`Refuse`). `halted` is the
restart guard of mainnet and nothing else. Left out: stored settings
that no longer parse (the engine then starts from its YAML with version 0, loop.py:893,
and an old form of version 0 would be accepted), a first start with an empty
table, and all other commands.

## 3. Runs

| run | question | bounds |
|---|---|---|
| `gate_pauses` | does the pause a process starts with last until a resume, and is any other halt that neither the stream nor the capital-flow guard caused lifted by operators only? `TypeOK`, `RestartGuard`, `OnlyOperatorLifts` | mainnet, 2 events (margin calls or review events), a buffer of 1, rounds with an incomplete ledger and a balance that does not parse, one of PAUSE, CANCEL_AND_FLATTEN, RESUME, RESUME_ALL, UPDATE_RISK_SETTINGS, STOP, 1 session with any number of faults (during startup too), 1 failing health report, 1 restart |
| `gate_stream` | are events applied once and in order, is no older REST answer applied over them, are entries closed while the stream is down, do stream pauses end, are events applied in the end? `EventsInOrder`, `NoEventOvertakesSnapshot`, `EntriesNeedLiveStream`, `StreamPauseEnds`, `EventsApplied` | 2 events that only the projection sees, a buffer of 2, 2 sessions, 1 failed round, 2 reconcile tasks at a time |
| `gate_flow` | does the breaker trip on attributed drawdowns only, or on one that a command has just put the limit under? `DrawdownTripIsAttributed` | every reading whose balance parses, a transfer, a new day, one change of the limits, 1 session |
| `projection` | does the inbox hold at most one unapplied event, do the tables follow the memory, is what no lost event touched shown as it is, and does the view become right in the end? `TypeOK`, `OneEventUnapplied`, `TablesFollowMemory`, `SettledIsTrue`, `Converges` | a position and an order, 2 changes, any 2 faults (drop, copy, failed query, failed write, crash), 1 write of the engine past the queue, a buffer of 2 |
| `life_books` | does what the engine bought and holds stay in its books? `TypeOK`, `NothingDisowned` | 1 pass at a time, an entry of 2, an adjust, a close, one of: a cancel failed, a sale in part; the claim of an earlier process |
| `life_protect` | is a known position stopped in the end, and a flat symbol clean? `EventuallyProtected`, `EventuallyClean` | 1 pass at a time, an entry of 1, the mark crosses once, one act of somebody else, one of: a query, a placement or a cancel failed, a sale refused, an event lost, a fill lost by an exception |
| `exec_calls` | does a call keep one live order, never reverse a position, count what traded, end, and keep its contract? `TypeOK`, `OneLiveOrder`, `NeverReverses`, `ExactWhenAnswered`, `CallEnds`, `KeepsContract` | every kind and mode, 2 lots, 2 prices, 3 maker attempts, 1 retry, any 2 calls lost, refused or unanswered |
| `fills` | is each fill booked once and to its owner, is the window of the compensation covered, does what is unknown get an owner? `TypeOK`, `ArchivedOnce`, `OnlyUnreportedEntriesEscape`, `SyncCoversWindow`, `UnknownIsResolved` | 3 fills (engine or manual, a buy of 1 or a sale of 2), pages of 2, one open and one close call, 1 lost event, failed call or restart |
| `reconcile` | is the applied run true, are cycles the stretches of the position, does every preview give up the active slot? `TypeOK`, `ActiveRunIsTrue`, `CyclesFollowPosition`, `SlotFreed` | 2 fills between positions -2 and 2, by the engine or not, 2 tasks, 2 runs, 1 failure, 1 restart |
| `commands` | is what is answered "done" stored, do answers keep the order, is every update built on what is stored, does each command get an answer? `TypeOK`, `DoneIsStored`, `AnsweredInOrder`, `UpdatesStack`, `EveryCommandAnswered` | 3 commands of 2 kinds of settings and RESUME, 2 failed calls, 2 crashes |

The bounds count what the environment does; the engine's own steps are not
bounded. Two sessions are needed for one failure and one recovery, which is what
arms and lifts a stream pause; in `gate_pauses` one is enough, because a keepalive report
sets LIVE again during a rotation (user_stream.py:84-94). Two events show
order and fill a buffer of 1; `gate_stream` has room for both, since an event
dropped at the limit is lost by design. One command is enough: it meets the pause of
the startup, of a full buffer, of a margin call, a review event or of the stream, each before and after
a restart; that two commands change nothing is part of the theorems
`RestartGuardHolds` and `ManualHaltsLast`, which hold for any number (section 5). `CHECK_DEADLOCK FALSE`:
a stopped engine does nothing, and the bounds end every run.

In `projection`, two changes are an older and a newer event about one entity, or one of
each kind; two faults are a loss and a failure of what repairs it; one write of the
engine meets each step of the coordinator and the resync, and a second would only set `view` once more. The deadlock
check is off there because the code can stop: if marking a failed event raises
too, `_run` ends, and every `drain()` waits for ever (account.py:112-124). `Converges`
therefore speaks of behaviours in which the task lives.

`DropsWhileBooting` is FALSE where the baseline of the startup, which runs without the
state lock, would share the buffer with a verify task (a hazard of its own, loop.py:256).
In `life_books`, a quantity of 2 is the least of which a target closes a part and a
sale may fill in part. `life_protect` asks about the end of things, so its quantity is 1, no
target closes a part and nothing is adjusted, and the mark may stay crossed or come back. `StreamFirst` is TRUE in both: the event of a
fill comes before a pass reads it in the history; in the other order it is booked twice
(below). The theorem `BooksCoverPosition` has any number of entries, and of passes as long
as the mark crosses no stop (section 5). Outside its hypotheses TLC finds
`NothingDisowned` violated, in ways the code has too:

- with two entries and two foreign acts, a target that was left over sells a quantity of
  somebody else, and its event is booked against the next trade;
- with two passes and a crossed stop, a pass that books its sale more than 60 s later
  can book it against an entry made in between (three entries);
- with `StreamFirst` = FALSE, a fill is booked twice.

Health reports fail in `gate_pauses` only: if `record_stream_health` raises inside
the DISCONNECTED report, `_on_stream_health` does not get to the halt, the stream task
ends (user_stream.py:166-168), and on testnet entries stay open without a stream.
Nothing in the code prevents that, so `gate_stream` does not ask it.

In `exec_calls`, two lots are the least that fill in part; of the two prices one puts what is
left of a partly filled entry below the minimum notional and one does not, so that a later
quote can be refused as too small; three attempts are a first, one whose
fill is reported late, and one after it; two faults are an ambiguous create and
a failed recovery. In `fills`, three fills over pages of two make a sync
come back for a second page, and a sale of two closes and reverses. In `reconcile`, two
fills put one inside and one after a scope, and two runs are a true and a wrong one; the
theorem covers any number. In `commands`, two rows compete for one version while a third
comes from a newer form; two faults are what it takes to lose both answers of a row,
and two crashes repeat a row twice. Deadlock is not checked in these either: when the call
has ended, the fills are made or the commands answered, nothing is left to do.

### Disagreements with the documentation

Two runs expect a violation; each checks one sentence of the repository.

| run | the document says | the code does |
|---|---|---|
| `gate_resync_lifts_pause` | contributing.md:115-116: the resync restores the pause caused by the stream fault | it lifts whatever halt is there once a fault has armed it (loop.py:551) |
| `reconcile_two_tasks` | docs/ops/2026-06-23-async-binance-reconcile.md:44: one environment has only one active task, which the unique `active_slot` guarantees | a late answer makes a failed task active again, without the slot, beside the task that has it (service.py:440, server.py:1045-1052, repo.py:3012-3013) |

More differences are visible in the models and have no run of their own. The gate:

- A resume checks the stream, awaits, and clears a halt set in between (`ResumeDone`;
  loop.py:758-770; RUNBOOK.md:14 says a failed stream stops entries at once).
- An answer fetched before the reconnect suffices to lift the pause, if the stream
  is LIVE when its round ends (contributing.md:115, loop.py:551).
- The pause is lifted before the protection orders are checked; RUNBOOK.md:15 names
  them the other way round (`FinishReplay`, then `CheckProtection`).
- An order validated before a fault is sent after it (`Admit`, `Submit`;
  loop.py:3263-3300, RUNBOOK.md:14).
- A drawdown seen while another halt is there sets no halt of its own, and the
  other one may go first, so entries are open during the attribution (loop.py:4869; the
  document on drawdowns, lines 54-55, says they are paused).
- A balance that does not parse skips the guard but not the ledger's status, so the next
  cycle trips on the old drawdown (`ApplySnapshot`, loop.py:4646; the document on drawdowns,
  lines 60-61, wants a complete ledger and 30 s first). `gate_flow` therefore has
  balances that parse; `DrawdownTripIsAttributed` fails with the others.
- UPDATE_RISK_SETTINGS asks the breaker at once under the new limits: a limit that is lowered below
  the drawdown there is trips without the guard and its 30 s (`ChangeLimits`, `CheckLimits`; loop.py:980-986,
  the document on drawdowns, lines 52-61). `DrawdownTripIsAttributed` names the exception (`lowered`).

The projection:

- A REST snapshot does not raise the versions (account.py:147-217), so an event older than
  the snapshot is applied over it; if the later event was lost, the view is wrong until
  the next round (`ApplyEvent`; tests/test_account_state.py:54: duplicate and stale events are
  idempotent).

The position:

- A fill found in the history by a pass and then told by its event is added twice (repo.py:2288,
  2224); a target of half the position then closes the whole trade, and nothing protects
  the rest (`StreamFirst` = FALSE; docs/ops/2026-06-16-condition-exit-private-stream-timestamp.md:91-99:
  the trade aggregates rest on the real fill).
- The handler of a target fill cancels all condition orders, the stop of the rest
  too (`CancelAll`; loop.py:464; docs/ops/2026-06-08-protection-claim-and-takeover.md:21: no naked
  position may be left); the next pass repairs it.
- ADJUST places the new stop before it cancels the old one, "to avoid a naked window"
  (loop.py:3709). If the position shrinks or the mark crosses in between, a pass may
  cancel the new stop as stale while the flow cancels the old one: the position is naked
  until the next pass (`AdjustCancels`, `Check`).
- A stop the mark has crossed is cancelled as stale (`Mismatch`; loop.py:2744-2750, while the
  comment at 2739-2741 says it must not be).
- With a foreign quantity on the symbol the pass compares the stop with the whole
  position, and a repair sizes it to the managed part, so each pass cancels what the
  last one placed (loop.py:4218-4245; docs/ops/2026-06-23-circuit-breaker-ownership-boundary.md:24-25).
- A close, a target fill and the flat branch cancel condition orders of others too
  (`CancelAll`, `BookFlat`; the same document, line 40: external ones are only observed).
- Whoever opened it, a position that fits the size of a strategy claim of the last 15 min is adopted
  (`Adopt`; contributing.md:223).
- A repair does not ask for claims again after its queries, so it can meet an entry
  that has just begun (docs/ops/2026-06-16-protection-repair-race-disable.md).

Orders, fills and cycles:

- A fill that lands between the last look at an attempt and its cancel is missing from the result
  if another attempt of the entry fills, or if the call is a close (`raced`; executor.py:597-598
  and 773-775 say that fills are accumulated over attempts for this reason).
- So is such a fill if a later quote makes the entry too small: the call answers
  "rejected" without reading the trades of its attempts (`Missed`; executor.py:617-643).
- A market order that is accepted and expires empty is counted in full: `_parse_fill` takes the amount of the
  order where no quantity is reported (executor.py:293-296, called at 554 and 1318), also with every call answered;
  `ExactWhenAnswered` names this case and no other (`Assumed`). The caller then books a position that is not there.
- The wait for a maker order is said to have a hard cap; see `OrderExecution` above.
- A gap in the private stream that is older than `Overlap` when a newer fill gets in is never
  filled (`Since`; loop.py:3961: "REST compensation for private-stream fill gaps").
- A fill of an attempt that the call did not report is archived as an external trade
  (`OnlyUnreportedEntriesEscape` says that no other is; repo.py:1234: "archive pure external
  lifecycles").
- The archive splits a reversal's profit by quantity (repo.py:1543); the replay gives it all
  to the closing part, because "Binance realizedPnl belongs entirely to the closing part of a
  reversal" (binance_trades.py:292, tests/test_binance_trade_reconcile.py:92). Profits are not
  in the models.

Commands:

- A RESUME queued before a restart is carried out after it and lifts the restart guard;
  docs/ops/2026-06-16-runtime-execution-params.md:112 asks for a manual resume (`Fetch`, `Resume`).
- Settings whose write failed are answered "failed" and stay in force until a restart, while
  the settings page shows the stored ones (`SaveFails`); an update that took effect just before
  a crash is answered "failed" by the next process (`Conflict`).
- The page reads settings and version in two sessions (server.py:1196-1197): an update stored between them gives
  old values under the new version, and the version check accepts them.

## 4. Fairness

`gate_stream` assumes weak fairness of the startup, of the stream task and of
"some resync goes on". asyncio runs every ready callback, and each network call
the code makes has a timeout, so a step that stays enabled is taken. No order among the
waiting tasks is assumed. Nothing is assumed of the network, the operator or the
strategy: the stream may stay down for ever, and `StreamPauseEnds` only speaks
of behaviours in which it stays up.

`projection` assumes the same of four parts of `AccountProjection`: the stream
task, the resync (`_reconcile_loop` begins one every interval, loop.py:3932-3950),
the coordinator, and the start of a process. A fault is never forced and never
forbidden; the bound on faults is what lets `Converges` look at the end.

`life_protect` assumes weak fairness of the flow of `main` once begun, of the stream's
handler, of time, and of the reconcile passes, which the loop and the private events start
again and again (loop.py:3932-3958). No decision of the strategy, trigger, price
move or fault is forced.

`exec_calls` assumes weak fairness of `Step`, the next step of the call: each request has a
timeout or an answer. The exchange is free to fill nothing. `fills` assumes that a sync runs
again and again (`[]<><<SyncStep>>_vars`, the loop at loop.py:3932) and that an open call goes
on once begun. `reconcile` assumes weak fairness of the job that holds the lock, and
strong fairness of a waiting task's turn: an asyncio lock is fair, so a task is not passed over for
ever by applies that keep coming. `commands` assumes weak fairness of the engine's next step, the start of
a process included (`Restart=on-failure`, deploy/binance-trade@.service:18); between two
cycles the queue is polled every second (loop.py:605-628).

## 5. Proofs

`EntryGateProofs` holds for every value of the constants, that is any number of
events, sessions, commands, failures and restarts, with the three assumptions of
`EntryGate`: the two modes are Boolean, the inputs are among the known kinds, the
bounds are natural numbers.

- `TypeCorrect`: `Spec => [](TypeOK /\ BatchOK)`. `TypeOK` is not inductive by
  itself: a replay takes the tail of its batch, so `BatchOK` adds that a task which
  applies an event has one. One lemma per group of actions.
- `ManualHaltsLast`: `Spec => OnlyOperatorLifts`. `ManualHalt` is a halt with the
  stream flag down and a reason other than the capital-flow one. The lemma
  `ManualHaltKept` shows that every action but boot, the two resumes and the end
  of the process keeps it.
- `RestartGuardHolds`: `Spec => []RestartGuard`. `RestartGuard` only says that the gate is
  closed; what is inductive is `RestartGuardInv`, that the halt is a `ManualHalt`,
  with `BootOK`, that nothing is armed and no stream runs before the settings are
  read.

`EntryGateEventProofs` is about the same module. Its theorems have a hypothesis
on the constants, which names what else breaks the property in the code.

- `SnapshotsComeFirst`: `Spec => NoEventOvertakesSnapshot`, and `OrderedEvents`:
  `Spec => []EventsInOrder`, if `QuietStartup`: the baseline of the startup, which has no lock,
  runs alone. The lemma `SyncCorrect` is the lock invariant: one task between request and
  release, events buffered while it asks, and nothing older left once it has
  replayed. `OrderedEvents` also has a buffer that holds every event, since one that
  overflows drops events by design; its invariant follows each event from the socket over the
  buffer and the batch to the point of its application.
- `DrawdownTripsLate`: `Spec => DrawdownTripIsAttributed`, if every balance parses (section 3).
  `FlowOK`: a drawdown at its limit without bypass that is not being attributed, and that no
  command has just put the limit under (`lowered`), has a confirmed ledger and a guard older than 30 s.
- `EntriesWaitForStream`: `Spec => []EntriesNeedLiveStream`, if `OnlyResyncsLift`: no operator resumes,
  no attribution ends and no health callback raises, each of which opens entries by itself. `LiveOK`
  says of the steps of the stream task which of them may find entries open.

`AccountProjectionProofs` holds for any two disjoint sets of positions and orders,
any limit of the buffer and any number of changes and faults.

- `TypeCorrect`: `Spec => []TypeOK`, which is inductive. It is split into one
  conjunct per group of variables, with a lemma per action.
- `InboxIsSerial`: `Spec => []OneEventUnapplied`. The inductive `InboxInv` adds what a
  task that lives makes of the inbox: while it runs, nothing but the event in hand
  is there as "received"; at the start, and after the task has died, at most one.
- `TablesAreRight`: `Spec => []TablesFollowMemory`. The inductive `TablesInv` says, of each step
  of a job, in which entities the tables and the memory may differ.
- `SettledIsRight`: `Spec => []SettledIsTrue`. The inductive `SettledInv` has, of each entity that is not
  stale, that its last change is `Carried` by an event still to be applied, or `Settled`: memory
  and view have it, and each event on its way is a copy or older. `Numbered` says what an
  event or a version may claim, `Rounds` and `Answers` what a REST answer holds at each step of
  a round, `Booting` what a start has read. What the engine writes past the queue changes `view` and
  `patched` only; the property then speaks of the memory until the next sync, which replaces the view.

`OrderExecutionProofs` holds for any size, minimum, prices, re-quotes, retries and faults
within `ExecutionAssumption`.

- `TypeCorrect`: `Spec => []TypeOK`, with the bookkeeping of attempts that makes it inductive.
- `NeverReversed`: `Spec => []NeverReverses`: every order of a close is reduce-only, and such an order
  moves the position towards zero by at most what is left.
- `OneOrderLive`: `Spec => []OneLiveOrder`. The invariant: an order that is open and is not the one the call
  works on is stray, and a new one is sent only when the last has ended or is stray.
- `ContractKept`: `Spec => KeepsContract`, the refinement. The initial states map to initial states;
  each step is a `Trade`, a `Return`, a `Raise` or a stutter of `OrderContract`. It rests on the invariant that what is
  counted for a post-only order has been read from the exchange and has traded.
- `FillsAreCounted`: `Spec => []ExactWhenAnswered`. The invariant follows what an attempt has traded
  and the call has not yet counted: it is in the hands of the call, is read at the end, or was
  `raced`. `Missed` names the outcomes that cannot recover a raced fill, the rejected
  re-quote among them, and `Assumed` the market order that expired empty and is counted in full (section 3).

`PositionLifecycleProofs` holds for any entry, any numbers of passes, fills and faults
within the assumptions of `PositionLifecycle`.

- `TypeCorrect`: `Spec => []TypeOK`. `Typed` adds that the set of condition orders is finite, without
  which `NewOrder` would have no number to give.
- `BooksCoverPosition`: `Spec => []NothingDisowned`, if `Undisturbed`: nobody else trades the symbol,
  no fill is lost by an exception, an event comes before the history, and there is at most
  one pass or no stop is crossed; section 3 says what happens otherwise. The inductive
  `BooksInv` weighs the quantity open, the exits still to be booked and the sales in the hands of a
  task against the trades (`Kept`); the one other case is that a pass has closed the
  trades of a position that is gone while `main` still books its sale (`Gone`). `FlatOK`,
  `LagOK`, `ClaimOK` and `LogOK` are what the flat check of a pass may rely on.

`FillLedgerProofs` holds for any number of fills, pages, overlap and faults.

- `SyncLeavesNoHole`: `Spec => []SyncCoversWindow`. `Window`: a fill within `Overlap` of the watermark the
  sync began with is in the ledger, in the page at hand or on a later page.
- `OnlyUnreportedEscape`: `Spec => []OnlyUnreportedEntriesEscape`, from what a call's rows say
  at each of its steps (`Calls`), when its fills were made (`Times`) and which of them are
  filed as external (`Filed`).
- `TypeCorrect`: `Spec => []TypeOK`. The replay of the archive is a recursive function over
  the fills; the theorem of the library on well-founded sets gives a least counterexample, so
  that no induction scheme with an operator parameter is needed.
- `BookedOnce`: `Spec => []ArchivedOnce`. The inductive `ArchiveInv`: a fill has one row, and the archive has all the
  lots of each external fill and none of another (`Archived`, of the `Weights` of the external rows), on at most one open
  trade (`Single`). `Lots` is a sum over a set: `SumsExists` and `SumsUnique` show, by a smallest set for which it
  fails, that such a sum exists and is unique, and `LotsAdd` what one more allocation adds. `ApplyExternalArchived` is
  the step of one fill, through a trade carried in, added to, closed and reversed; `ReplayArchived`
  is the same for a whole rebuild.

`TradeReconcileProofs` holds for any positions, fills, tasks, runs, faults and restarts.

- `TypeCorrect`: `Spec => []TypeOK`.
- `ActiveRunTrue`: `Spec => []ActiveRunIsTrue`. The invariant adds what a look saw: a run, or a job, whose scope ends
  with the newest fill has the position after that fill; so a wrong run is one whose scope is old, and the
  second look of an apply, whose scope ends later, has another hash.
- `CyclesTrue`: `Spec => []CyclesFollowPosition`. The state lemma behind it, `CyclesAreLives`, is
  about any scope whose fills each change the position: the cycles computed fill by fill are those
  of the reference, which looks at the whole walk of the position at once. `FoldReplays` gives the
  books after each fill of the fold; `Tells(b, h, a, z, s, n)` says what they are after fill `n`:
  the position of the walk, and, for the fills `s` that began a cycle so far, in their order, the
  reference `LifeOf` over the fills seen so far, all of them over but perhaps the last (`Flat`,
  `Held`), of which what was opened less what was closed is the size of the position (`Balanced`).
  `TellsNext` keeps it over one fill in four cases: from flat, adding, taking, and turning the
  position round (`TellsFlat`, `TellsAdds`, `TellsTakes`, `TellsTurns`); `TellsAll` takes the least
  fill after which it fails. The sums of a cycle are reasoned about as the lots of `FillLedger` are,
  and `AscendsUnique` shows that only one sequence puts a set in order. The hypotheses of
  `CyclesAreLives` are the inductive `Scopes`: the exchange has no fill that leaves the position as
  it was, and no scope of a job or a run ends before the fill in front of it.

`ControlCommandsProofs` holds for any subset of the three kinds and any number of
commands, faults and crashes. The invariant: memory is what is stored or one version ahead; forms show
versions that were stored, and a form that shows the stored version comes after the row that
stored it; the batch misses no row that is earlier than one of its own. From it follow
`TypeCorrect`, `DoneKept` (`Spec => []DoneIsStored`), `QueueOrder` (`Spec => []AnsweredInOrder`), and the action
property `UpdatesStackUp`.

Left to TLC: liveness (`StreamPauseEnds`, `EventsApplied`, `Converges`, `EventuallyProtected`,
`EventuallyClean`, `CallEnds`, `UnknownIsResolved`, `SlotFreed`, `EveryCommandAnswered`), which is beyond the
prover. Every safety invariant and action property of a passing run is stated by a theorem.
The hypotheses above are the other limit: `gate_stream`, `gate_flow`
and `life_books` check the same properties, and section 3 names what breaks them.

## 6. Plan

All modules of the plan that concern concurrent state are written: `EntryGate`,
`AccountProjection`, `PositionLifecycle`, `OrderExecution` with `OrderContract`, `FillLedger`,
`TradeReconcile` with `TradeCycles`, `ControlCommands`. What is left, the most important first:

1. `BooksCoverPosition` for two passes and a crossed stop, with as a hypothesis that a
   pass books its sale within 60 s instead of that it is alone.
2. To model: the operator's commands on positions and symbols (the symbol registry is reloaded while a
   command changes it, loop.py:717-741 and 1286-1308), flatten, takeover; the settings table with
   concurrent writers of the pause keys (`PauseStore`); the capital-flow ledger's rows.

## 7. Not modelled

- Indicators and features, exchange I/O and parsing, notifications, configuration parsing,
  the offline backtest, deployment files: no state machine of their own, or an
  input of the models above.
- The throttle gate, the decision guards and the risk rules on sizes and margins: sequential
  arithmetic on the inputs of one decision, which no other task touches meanwhile.
- The LLM chain: clients tried in order, swapped under a lock; it decides what is
  tried, and the models allow every decision.
- The web server beyond commands and reconciliation tasks: pages that read the database. The
  confirmation tokens of mainnet are kept out; they restrict who may queue a
  command, not what becomes of it.
- The symbol registry, the operator's commands on positions, takeover and the breaker's flatten
  (section 6, item 2).
