--------------------------- MODULE PositionLifecycle ---------------------------
(***************************************************************************)
(* The life of a position (src/src/engine/loop.py, store/repo.py and       *)
(* execution/executor.py): it is opened under a claim, protected by a stop *)
(* and a target, adjusted, closed, or closed by the exchange; a reconcile  *)
(* pass compares the exchange with the books and repairs either.           *)
(*                                                                         *)
(* One symbol, one direction.  An action is one request to the exchange    *)
(* with what the code does about its answer; between two requests of a     *)
(* task any other task may act.  The tasks:                                *)
(*                                                                         *)
(*   "main"       a decision of the strategy at a time                     *)
(*   "stream"     the handler of the event that a condition order filled   *)
(*   Reconcilers  passes of _enforce_exchange_invariants, which hold no    *)
(*                lock against "main" or each other                        *)
(*                                                                         *)
(* The engine does not see whose quantity a position is; the model does:   *)
(* `own` is what its orders bought and have not sold.                      *)
(***************************************************************************)
EXTENDS Integers, Sequences, FiniteSets

CONSTANTS
  Reconcilers,   \* reconcile passes that may run at a time
  OrderQty,      \* quantity of an opening order
  Faults,        \* what may fail, see Fault
  StreamFirst,   \* does the event of a fill come before the order history?
  \* bounds of the model
  MaxOpens, MaxAdjusts, MaxCloses, MaxCrossings, MaxForeign, MaxFaults

AllFaults == {"fetch", "place", "cancel", "reject", "partial", "lost", "orphan"}

ASSUME TaskAssumption  ==
  IsFiniteSet(Reconcilers) /\ {"main", "stream"} \cap Reconcilers = {}
ASSUME FaultAssumption == Faults \subseteq AllFaults /\ StreamFirst \in BOOLEAN
ASSUME BoundAssumption ==
  /\ OrderQty \in Nat \ {0}
  /\ MaxOpens \in Nat /\ MaxAdjusts \in Nat /\ MaxCloses \in Nat
  /\ MaxCrossings \in Nat /\ MaxForeign \in Nat /\ MaxFaults \in Nat

VARIABLES
  \* the exchange
  own,         \* open quantity bought by the engine's orders
  foreign,     \* open quantity bought by anybody else
  lag,         \* part of the last fill that position queries may still omit
  conds,       \* open condition orders
  crossed,     \* the mark price is beyond the stop triggers
  exits,       \* filled condition orders: is the exit booked, the event due?
  \* the database
  young,       \* open quantity of the trades of the last 60 s
  old,         \* open quantity of older trades
  claim,       \* the newest position claim
  stuck,       \* an older claim is still active
  enabled,     \* the symbol accepts new entries
  \* the engine
  justClosed,  \* explicit close less than 30 s ago
  plan,        \* number of the newest set of trigger prices
  task,        \* what each task is doing
  tally        \* how often the environment has acted

exchange == <<own, foreign, lag, conds, crossed, exits>>
lots     == <<young, old>>
claims   == <<claim, stuck>>
books    == <<young, old, claim, stuck, enabled>>
vars     == <<own, foreign, lag, conds, crossed, exits, young, old, claim,
              stuck, enabled, justClosed, plan, task, tally>>

-----------------------------------------------------------------------------
(* Values                                                                   *)

Tasks == {"main", "stream"} \cup Reconcilers
Kinds == {"SL", "TP"}

\* where a task is; "place" is preceded by the flow it belongs to
MainLabels   == {"order", "log", "precheck", "attach", "uncancel", "undo",
                 "undone", "undonepart", "close", "closed", "closedpart",
                 "closecancel", "adjust", "adjustcancel"}
SyncLabels   == {"conds", "confirm", "flat", "flatcancel", "live", "adopt",
                 "adoptplace", "reread", "check", "synccancel", "restop",
                 "unmanaged"}
SharedLabels == {"idle", "exit", "repair", "repaircancel", "replan",
                 "repairplace", "emergency", "dump", "dumped", "dumpedpart"}

Condition == [id : Nat, kind : Kinds, qty : Nat, trig : Nat, ours : BOOLEAN]
Task  == [at : MainLabels \cup SyncLabels \cup SharedLabels, qty : Nat,
          seen : SUBSET Condition, need : SUBSET Kinds, got : SUBSET Kinds,
          trig : Nat]
Claim == [status : {"none", "active", "done"}, qty : Nat, filled : BOOLEAN,
          inTTL : BOOLEAN]
Exit  == [order : Condition, qty : Nat, booked : BOOLEAN, due : BOOLEAN]

Idle    == [at |-> "idle", qty |-> 0, seen |-> {}, need |-> {}, got |-> {},
            trig |-> 0]
NoClaim == [status |-> "none", qty |-> 0, filled |-> FALSE, inTTL |-> FALSE]

Limit == [open |-> MaxOpens, adjust |-> MaxAdjusts, close |-> MaxCloses,
          cross |-> MaxCrossings, foreign |-> MaxForeign, fault |-> MaxFaults]

Count(k) == /\ tally[k] < Limit[k]
            /\ tally' = [tally EXCEPT ![k] = @ + 1]
Fault(f) == f \in Faults /\ Count("fault")
NoFault  == UNCHANGED tally

Least(a, b) == IF a < b THEN a ELSE b

Live    == own + foreign
Managed == young + old

\* what a position query may answer: a fill of the last seconds may be missing
Answers == {Live, Live - Least(lag, own)}

At(t, label) == task[t].at = label
\* the next request of a task: with all it remembers, with q and set, with nothing
Goto(t, label) == task' = [task EXCEPT ![t].at = label]
Hold(t, label, q, set) ==
  task' = [task EXCEPT ![t] = [Idle EXCEPT !.at = label, !.qty = q, !.seen = set]]
Turn(t, label) == Hold(t, label, 0, {})
Done(t)        == Turn(t, "idle")

-----------------------------------------------------------------------------
(* Operators on orders and books                                            *)

\* a new order: not one that is open, was filled, or that a task remembers
Used == conds \cup {exits[i].order : i \in DOMAIN exits}
              \cup UNION {task[t].seen : t \in Tasks}
NewOrder(kind, q, trig, ours) ==
  LET Numbered(i) == [id |-> i, kind |-> kind, qty |-> q, trig |-> trig, ours |-> ours]
  IN  Numbered(CHOOSE i \in 1..(Cardinality(Used) + 1) : Numbered(i) \notin Used)

\* The client id is a hash of kind, quantity and trigger, so the exchange refuses
\* a second order with the same, and the executor then finds the first.
WithOrder(kind, q, trig) ==
  IF \E c \in conds : c.ours /\ c.kind = kind /\ c.qty = q /\ c.trig = trig
  THEN conds
  ELSE conds \cup {NewOrder(kind, q, trig, TRUE)}

Mismatch(c, q) == IF c.kind = "SL" THEN c.qty # q \/ crossed ELSE c.qty > q
Has(set, kind, q) == \E c \in set : c.kind = kind /\ ~Mismatch(c, q)
Stale(set, q)  == {c \in set : c.ours /\ Mismatch(c, q)}

\* the target covers half the position, rounded up; a repair covers all of it
TargetQty(q) == (q + 1) \div 2

\* an order of the engine that reduces the position by n
Sell(n) ==
  /\ own' = own - Least(n, own)
  /\ foreign' = foreign - (n - Least(n, own))
  /\ lag' = Least(lag, own')

\* an exit is allocated to the oldest trades first
BookExitUnclamped(n) == old' = old - n /\ UNCHANGED young
BookExit(n) ==
  /\ old' = old - Least(n, old)
  /\ young' = young - Least(young, n - Least(n, old))

ClaimActive  == stuck \/ (claim.status = "active" /\ claim.inTTL)
RecentEntry  == \/ stuck
                \/ claim.inTTL /\ (claim.status = "active" \/ claim.filled)
FlatDeferred == RecentEntry \/ young > 0

EndClaim == claim' = [claim EXCEPT !.status = "done"]

\* The order history: fills that are not booked yet, of orders that the pass has
\* not seen open.
Unbooked(r) == {i \in DOMAIN exits :
                  ~exits[i].booked /\ exits[i].order \notin task[r].seen}
Total(w, n) == LET upto[i \in 0..n] == IF i = 0 THEN 0 ELSE upto[i - 1] + w[i]
               IN  upto[n]
HistoryQty(r) ==
  Total([i \in DOMAIN exits |-> IF i \in Unbooked(r) THEN exits[i].qty ELSE 0],
        Len(exits))
InOrder(r) == StreamFirst => \A i \in Unbooked(r) : ~exits[i].due
ReadHistoryOnly(r) == UNCHANGED exits
ReadHistory(r) ==
  /\ InOrder(r)
  /\ exits' = [i \in DOMAIN exits |->
                 [exits[i] EXCEPT !.booked = @ \/ i \in Unbooked(r)]]

-----------------------------------------------------------------------------
(* Opening                                                                  *)

\* Condition orders of a symbol, with or without a position, refuse the entry;
\* those that do not fit the position disable the symbol as well.
OpenRefused ==
  /\ At("main", "idle") /\ enabled /\ conds # {} /\ NoFault
  /\ \E p \in Answers :
       enabled' = ~(p = 0 \/ Stale(conds, p) # {})
  /\ UNCHANGED <<exchange, lots, claims, justClosed, plan, task>>

OpenStart ==
  /\ At("main", "idle") /\ enabled /\ conds = {}
  /\ Count("open")
  /\ claim' = [status |-> "active", qty |-> OrderQty, filled |-> FALSE,
               inTTL |-> TRUE]
  /\ stuck' = ClaimActive
  /\ Turn("main", "order")
  /\ UNCHANGED <<exchange, lots, enabled, justClosed, plan>>

OpenUnfilled ==
  /\ At("main", "order") /\ NoFault
  /\ EndClaim /\ Done("main")
  /\ UNCHANGED <<exchange, lots, stuck, enabled, justClosed, plan>>

OpenFilled ==
  /\ At("main", "order") /\ NoFault
  /\ \E n \in 1..OrderQty :
       /\ own' = own + n /\ lag' = n
       /\ Hold("main", "log", n, {})
  /\ UNCHANGED <<foreign, conds, crossed, exits, books, justClosed, plan>>

\* open_position raises although a part was filled: nothing is booked
OpenLosesFill ==
  /\ At("main", "order") /\ Fault("orphan")
  /\ \E n \in 1..OrderQty : own' = own + n /\ lag' = n
  /\ EndClaim /\ Done("main")
  /\ UNCHANGED <<foreign, conds, crossed, exits, lots, stuck, enabled,
                 justClosed, plan>>

OpenLogged ==
  /\ At("main", "log") /\ NoFault
  /\ young' = young + task["main"].qty
  /\ claim' = [claim EXCEPT !.filled = TRUE, !.qty = task["main"].qty]
  /\ Goto("main", "precheck")
  /\ UNCHANGED <<exchange, old, stuck, enabled, justClosed, plan>>

\* The position must be there and no condition order with it; a query of the
\* orders that fails counts as none.  Only what this order bought is protected.
Precheck ==
  /\ At("main", "precheck")
  /\ \E p \in Answers, none \in {conds = {}, TRUE} :
       /\ IF none = (conds = {}) THEN NoFault ELSE Fault("fetch")
       /\ IF p = 0 \/ ~none
          THEN Goto("main", "undo") /\ enabled' = FALSE
          ELSE /\ task' = [task EXCEPT !["main"] =
                    [@ EXCEPT !.at = "attach", !.need = Kinds, !.trig = plan + 1,
                              !.qty = Least(p, task["main"].qty)]]
               /\ UNCHANGED enabled
  /\ UNCHANGED <<exchange, lots, claims, justClosed, plan>>

Attached ==
  /\ At("main", "attach") /\ task["main"].need = {} /\ NoFault
  /\ IF "SL" \in task["main"].got
     THEN EndClaim /\ Done("main") /\ UNCHANGED enabled
     ELSE /\ Hold("main", "uncancel", task["main"].qty, {})
          /\ enabled' = FALSE /\ UNCHANGED claim
  /\ UNCHANGED <<exchange, lots, stuck, justClosed, plan>>

-----------------------------------------------------------------------------
(* Placing condition orders: the stop first                                 *)

Placing == {"attach", "adjust", "adoptplace", "repairplace"}
NextKind(t) == IF "SL" \in task[t].need THEN "SL" ELSE "TP"

Placed(t) ==
  /\ task[t].at \in Placing /\ task[t].need # {} /\ NoFault
  /\ LET kind == NextKind(t)
         q == IF kind = "SL" \/ At(t, "repairplace") THEN task[t].qty
              ELSE TargetQty(task[t].qty)
     IN  /\ ~(kind = "SL" /\ crossed)
         /\ conds' = WithOrder(kind, q, task[t].trig)
         /\ task' = [task EXCEPT ![t].need = @ \ {kind},
                                 ![t].got = @ \cup {kind}]
  /\ plan' = IF task[t].trig > plan THEN task[t].trig ELSE plan
  /\ UNCHANGED <<own, foreign, lag, crossed, exits, books, justClosed>>

\* the exchange refuses a stop that would trigger at once
NotPlaced(t) ==
  /\ task[t].at \in Placing /\ task[t].need # {}
  /\ \/ NextKind(t) = "SL" /\ crossed /\ NoFault
     \/ Fault("place")
  /\ task' = [task EXCEPT ![t].need = @ \ {NextKind(t)}]
  /\ UNCHANGED <<exchange, books, justClosed, plan>>

-----------------------------------------------------------------------------
(* Selling at the market, reduce-only                                       *)

Selling == {"undo", "close", "dump"}
SoldAt     == [undo |-> "undone", close |-> "closed", dump |-> "dumped"]
SoldPartAt == [undo |-> "undonepart", close |-> "closedpart",
               dump |-> "dumpedpart"]

Sold(t) ==
  /\ task[t].at \in Selling /\ Live > 0
  /\ \E n \in 1..Least(task[t].qty, Live) :
       /\ \/ n = Least(task[t].qty, Live) /\ NoFault
          \/ n < Least(task[t].qty, Live) /\ Fault("partial")
       /\ Sell(n)
       /\ task' = [task EXCEPT ![t] = [@ EXCEPT !.qty = n,
            !.at = IF n = task[t].qty THEN SoldAt[task[t].at]
                   ELSE SoldPartAt[task[t].at]]]
  /\ UNCHANGED <<conds, crossed, exits, books, justClosed, plan>>

\* the slippage guard refuses, or there is nothing left to reduce and the order
\* raises; only the refusal comes back as a result
NotSold(t) ==
  /\ task[t].at \in Selling
  /\ \/ Live = 0 /\ NoFault /\ UNCHANGED claim
     \/ /\ Fault("reject")
        /\ IF At(t, "undo") THEN EndClaim ELSE UNCHANGED claim
  /\ Done(t)
  /\ UNCHANGED <<exchange, lots, stuck, enabled, justClosed, plan>>

SaleBooked(t) ==
  /\ NoFault /\ BookExit(task[t].qty)
  /\ \/ /\ task[t].at \in {"undone", "undonepart"}
        /\ EndClaim /\ Done(t) /\ UNCHANGED justClosed
     \/ /\ task[t].at \in {"dumped", "dumpedpart"}
        /\ Done(t) /\ UNCHANGED <<claim, justClosed>>
     \/ /\ At(t, "closed")
        /\ justClosed' = TRUE /\ Turn(t, "closecancel") /\ UNCHANGED claim
     \/ /\ At(t, "closedpart")
        /\ Turn(t, "repair") /\ UNCHANGED <<claim, justClosed>>
  /\ UNCHANGED <<exchange, stuck, enabled, plan>>

-----------------------------------------------------------------------------
(* Closing, adjusting, emergency                                            *)

\* the share of a position of size p that the books cover
Slice(p) == Least(Managed, p)

CloseStart ==
  /\ At("main", "idle") /\ Count("close")
  /\ \E p \in Answers : Slice(p) > 0 /\ Hold("main", "close", Slice(p), {})
  /\ UNCHANGED <<exchange, books, justClosed, plan>>

AdjustStart ==
  /\ At("main", "idle") /\ Count("adjust") /\ ~crossed
  /\ \A c \in conds : c.ours
  /\ \E p \in Answers :
       /\ Slice(p) > 0
       /\ task' = [task EXCEPT !["main"] =
            [Idle EXCEPT !.at = "adjust", !.qty = Slice(p), !.seen = conds,
                         !.need = Kinds, !.trig = plan + 1]]
  /\ UNCHANGED <<exchange, books, justClosed, plan>>

\* the new orders stand before the ones they replace go
Adjusted ==
  /\ At("main", "adjust") /\ task["main"].need = {} /\ NoFault
  /\ IF "SL" \in task["main"].got
     THEN /\ task' = [task EXCEPT !["main"].at = "adjustcancel",
               !["main"].seen = {c \in @ : c.kind \in task["main"].got}]
          /\ UNCHANGED enabled
     ELSE Turn("main", "emergency") /\ enabled' = FALSE
  /\ UNCHANGED <<exchange, lots, claims, justClosed, plan>>

AdjustCancels ==
  /\ At("main", "adjustcancel")
  /\ \/ conds' = conds \ task["main"].seen /\ NoFault
     \/ UNCHANGED conds /\ Fault("cancel")
  /\ Done("main")
  /\ UNCHANGED <<own, foreign, lag, crossed, exits, books, justClosed, plan>>

Emergency(t) ==
  /\ At(t, "emergency")
  /\ \/ /\ NoFault
        /\ \E p \in Answers : IF Slice(p) = 0 THEN Done(t)
                              ELSE Hold(t, "dump", Slice(p), {})
     \/ Fault("fetch") /\ Done(t)
  /\ UNCHANGED <<exchange, books, justClosed, plan>>

\* _cancel_symbol_condition_orders: everything that is open, whoever placed it
CancelAll(t) ==
  /\ task[t].at \in {"closecancel", "uncancel", "exit"}
  /\ \/ /\ NoFault /\ conds' = {} /\ UNCHANGED enabled
        /\ IF At(t, "uncancel") THEN Goto(t, "undo") ELSE Done(t)
     \/ /\ conds # {} /\ Fault("cancel") /\ UNCHANGED conds /\ enabled' = FALSE
        /\ IF At(t, "uncancel") THEN Goto(t, "undo") ELSE Done(t)
     \/ Fault("fetch") /\ UNCHANGED <<conds, enabled>> /\ Done(t)
  /\ UNCHANGED <<own, foreign, lag, crossed, exits, lots, claims, justClosed, plan>>

-----------------------------------------------------------------------------
(* Repairing the protection                                                 *)

RepairFails(t, close) ==
  /\ enabled' = FALSE
  /\ IF close \/ t = "main" THEN Turn(t, "emergency") ELSE Done(t)

\* what is missing from the orders that are open now
PlanRepair(t, q) ==
  LET missing == {k \in Kinds : ~Has(conds, k, q)} IN
  IF "SL" \in missing /\ crossed THEN RepairFails(t, TRUE)
  ELSE /\ IF missing = {} THEN Done(t)
          ELSE task' = [task EXCEPT ![t] = [Idle EXCEPT !.at = "repairplace",
                          !.qty = q, !.need = missing, !.trig = plan]]
       /\ UNCHANGED enabled

Repair(t) ==
  /\ At(t, "repair")
  /\ \/ /\ NoFault
        /\ \E p \in Answers :
             \/ p = 0 /\ Done(t) /\ UNCHANGED enabled
             \/ p > 0 /\ Slice(p) = 0 /\ RepairFails(t, FALSE)
             \/ /\ Slice(p) > 0 /\ Stale(conds, Slice(p)) = {}
                /\ PlanRepair(t, Slice(p))
             \/ /\ Slice(p) > 0 /\ Stale(conds, Slice(p)) # {}
                /\ Hold(t, "repaircancel", Slice(p), Stale(conds, Slice(p)))
                /\ UNCHANGED enabled
     \/ Fault("fetch") /\ RepairFails(t, FALSE)
  /\ UNCHANGED <<exchange, lots, claims, justClosed, plan>>

RepairCancels(t) ==
  /\ At(t, "repaircancel")
  /\ \/ /\ NoFault /\ conds' = conds \ task[t].seen
        /\ Hold(t, "replan", task[t].qty, {}) /\ UNCHANGED enabled
     \/ Fault("cancel") /\ UNCHANGED conds /\ RepairFails(t, FALSE)
  /\ UNCHANGED <<own, foreign, lag, crossed, exits, lots, claims, justClosed, plan>>

Replan(t) ==
  /\ At(t, "replan")
  /\ \/ NoFault /\ PlanRepair(t, task[t].qty)
     \/ Fault("fetch") /\ RepairFails(t, FALSE)
  /\ UNCHANGED <<exchange, lots, claims, justClosed, plan>>

\* one order placed is a success, whichever it is
Repaired(t) ==
  /\ At(t, "repairplace") /\ task[t].need = {} /\ NoFault
  /\ IF task[t].got = {} THEN RepairFails(t, FALSE) ELSE Done(t) /\ UNCHANGED enabled
  /\ UNCHANGED <<exchange, lots, claims, justClosed, plan>>

-----------------------------------------------------------------------------
(* Reconciling with the exchange                                            *)

SyncStart(r) ==
  /\ At(r, "idle") /\ NoFault
  /\ \E p \in Answers : Hold(r, "conds", p, {})
  /\ UNCHANGED <<exchange, books, justClosed, plan>>

SyncConds(r) ==
  /\ At(r, "conds")
  /\ \/ /\ NoFault
        /\ IF task[r].qty > 0 THEN Hold(r, "live", task[r].qty, conds)
           ELSE IF (conds = {} /\ Managed = 0) \/ FlatDeferred THEN Done(r)
           ELSE Hold(r, "confirm", 0, conds)
     \/ Fault("fetch") /\ Done(r)
  /\ UNCHANGED <<exchange, books, justClosed, plan>>

\* A flat answer must be repeated, and must not be about a fresh entry.
ConfirmFlat(r) ==
  /\ At(r, "confirm")
  /\ \/ /\ NoFault
        /\ \E p \in Answers :
             IF p > 0 THEN Hold(r, "live", p, task[r].seen)
             ELSE IF FlatDeferred THEN Done(r) ELSE Goto(r, "flat")
     \/ Fault("fetch") /\ Done(r)
  /\ UNCHANGED <<exchange, books, justClosed, plan>>

\* The history first, then what is left of the trades older than 60 s is closed; an
\* event about an order of a closed trade books nothing.
BookFlatHistory(r) ==
  /\ At(r, "flat") /\ NoFault
  /\ ReadHistory(r) /\ BookExit(HistoryQty(r))
  /\ IF task[r].seen = {} THEN Done(r) ELSE Goto(r, "flatcancel")
  /\ UNCHANGED <<own, foreign, lag, conds, crossed, claims, enabled, justClosed, plan>>
BookFlat(r) ==
  /\ At(r, "flat") /\ NoFault
  /\ InOrder(r)
  /\ exits' = [i \in DOMAIN exits |-> [exits[i] EXCEPT !.booked = TRUE, !.qty = 0]]
  /\ BookExit(IF HistoryQty(r) > old THEN HistoryQty(r) ELSE old)
  /\ IF task[r].seen = {} THEN Done(r) ELSE Goto(r, "flatcancel")
  /\ UNCHANGED <<own, foreign, lag, conds, crossed, claims, enabled, justClosed, plan>>

SyncCancels(r) ==
  /\ task[r].at \in {"flatcancel", "synccancel"}
  /\ \/ NoFault /\ conds' = conds \ task[r].seen /\ UNCHANGED enabled
     \/ Fault("cancel") /\ UNCHANGED conds /\ enabled' = FALSE
  /\ IF At(r, "flatcancel") THEN Done(r) ELSE Hold(r, "restop", task[r].qty, {})
  /\ UNCHANGED <<own, foreign, lag, crossed, exits, lots, claims, justClosed, plan>>

Enforce(r) ==
  /\ At(r, "live")
  /\ \/ ReadHistory(r) /\ BookExit(HistoryQty(r)) /\ NoFault
     \/ Fault("fetch") /\ UNCHANGED <<exits, lots>>
  /\ \/ (justClosed \/ ClaimActive) /\ Done(r)
     \/ ~(justClosed \/ ClaimActive) /\ young' + old' > 0 /\ Goto(r, "check")
     \/ ~(justClosed \/ ClaimActive) /\ young' + old' = 0 /\ Turn(r, "adopt")
  /\ UNCHANGED <<own, foreign, lag, conds, crossed, claims, enabled, justClosed, plan>>

\* A finished claim of the last 15 minutes adopts what is there, if the size fits.
Adopt(r) ==
  /\ At(r, "adopt") /\ NoFault
  /\ \E p \in Answers :
       IF claim.status = "done" /\ p > 0 /\ 2 * p <= 3 * OrderQty
       THEN /\ young' = young + Least(p, claim.qty)
            /\ enabled' = TRUE
            /\ task' = [task EXCEPT ![r] = [Idle EXCEPT !.at = "adoptplace",
                 !.qty = Least(p, claim.qty), !.need = Kinds,
                 !.trig = plan + 1]]
       ELSE Goto(r, "unmanaged") /\ UNCHANGED <<young, enabled>>
  /\ UNCHANGED <<exchange, old, claims, justClosed, plan>>

Adopted(r) ==
  /\ At(r, "adoptplace") /\ task[r].need = {} /\ NoFault
  /\ Hold(r, "reread", task[r].qty, {})
  /\ UNCHANGED <<exchange, books, justClosed, plan>>

Reread(r) ==
  /\ At(r, "reread")
  /\ \/ NoFault /\ Hold(r, "check", task[r].qty, conds)
     \/ Fault("fetch") /\ Goto(r, "check")
  /\ UNCHANGED <<exchange, books, justClosed, plan>>

Unmanaged(r) ==
  /\ At(r, "unmanaged") /\ NoFault
  /\ \E p \in Answers : enabled' = (enabled /\ p = 0)
  /\ Done(r)
  /\ UNCHANGED <<exchange, lots, claims, justClosed, plan>>

\* the orders the pass has read, against the whole position it has read
CheckStale(r) ==
  /\ At(r, "check") /\ NoFault
  /\ LET q == task[r].qty
         stale == Stale(task[r].seen, q)
     IN  IF stale # {} THEN Hold(r, "synccancel", q, stale) ELSE Done(r)
  /\ UNCHANGED <<exchange, books, justClosed, plan>>
Check(r) ==
  /\ At(r, "check") /\ NoFault
  /\ LET q == task[r].qty
         stale == Stale(task[r].seen, q)
     IN  \/ stale # {} /\ Hold(r, "synccancel", q, stale)
         \/ stale = {} /\ Has(task[r].seen, "SL", q) /\ Done(r)
         \/ stale = {} /\ ~Has(task[r].seen, "SL", q) /\ Turn(r, "repair")
  /\ UNCHANGED <<exchange, books, justClosed, plan>>

Recheck(r) ==
  /\ At(r, "restop")
  /\ \/ NoFault /\ IF Has(conds, "SL", task[r].qty) THEN Done(r) ELSE Turn(r, "repair")
     \/ Fault("fetch") /\ Done(r)
  /\ UNCHANGED <<exchange, books, justClosed, plan>>

-----------------------------------------------------------------------------
(* The exchange, the user and time                                          *)

\* A condition order is triggered; it can only reduce the position.
Trigger(c) ==
  /\ c \in conds /\ (c.kind = "SL") = crossed /\ NoFault
  /\ conds' = conds \ {c}
  /\ LET n == Least(c.qty, Live) IN
       /\ IF c.ours THEN Sell(n)
          ELSE /\ foreign' = foreign - Least(n, foreign)
               /\ own' = own - (n - Least(n, foreign))
               /\ lag' = Least(lag, own')
       /\ exits' = IF n = 0 THEN exits
                   ELSE Append(exits, [order |-> c, qty |-> IF c.ours THEN n ELSE 0,
                                       booked |-> ~c.ours, due |-> TRUE])
  /\ UNCHANGED <<crossed, books, justClosed, plan, task>>

\* mark_condition_exit does not ask whether the row is booked already
StreamExit ==
  /\ At("stream", "idle") /\ NoFault
  /\ \E i \in DOMAIN exits :
       /\ exits[i].due /\ \A j \in 1..(i - 1) : ~exits[j].due
       /\ BookExit(exits[i].qty)
       /\ exits' = [exits EXCEPT ![i].due = FALSE, ![i].booked = TRUE]
  /\ Turn("stream", "exit")
  /\ UNCHANGED <<own, foreign, lag, conds, crossed, claims, enabled, justClosed, plan>>

LoseExit ==
  /\ Fault("lost")
  /\ \E i \in DOMAIN exits :
       /\ exits[i].due
       /\ exits' = [exits EXCEPT ![i].due = FALSE]
  /\ UNCHANGED <<own, foreign, lag, conds, crossed, books, justClosed, plan, task>>

Cross ==
  /\ Count("cross") /\ crossed' = ~crossed
  /\ UNCHANGED <<own, foreign, lag, conds, exits, books, justClosed, plan, task>>

\* somebody else buys, places a condition order, or closes the whole position
ForeignAct ==
  /\ Count("foreign")
  /\ \/ foreign' = foreign + 1 /\ UNCHANGED <<own, lag, conds>>
     \/ /\ \E k \in Kinds : conds' = conds \cup {NewOrder(k, 1, 0, FALSE)}
        /\ Live > 0
        /\ UNCHANGED <<own, foreign, lag>>
     \/ Live > 0 /\ own' = 0 /\ foreign' = 0 /\ lag' = 0 /\ UNCHANGED conds
  /\ UNCHANGED <<crossed, exits, books, justClosed, plan, task>>

\* Position queries show the fill, and a trade is 60 s old after that.  What a pass
\* closes was opened before its flat check (opened_before_ms), so here no trade
\* grows old between the two.
Settle ==
  /\ lag > 0 /\ lag' = 0 /\ NoFault
  /\ UNCHANGED <<own, foreign, conds, crossed, exits, books, justClosed, plan, task>>
Mature ==
  /\ lag = 0 /\ young > 0 /\ NoFault
  /\ \A r \in Reconcilers : task[r].at \notin {"confirm", "flat"}
  /\ old' = old + young /\ young' = 0
  /\ UNCHANGED <<exchange, claims, enabled, justClosed, plan, task>>

Opening == task["main"].at \in {"order", "log", "precheck", "attach", "uncancel",
                                "undo", "undone", "undonepart"}
\* the TTL of 300 s outlives the flow that holds the claim; an older claim ends first
ClaimExpires ==
  /\ NoFault /\ stuck' = FALSE
  /\ \/ stuck /\ UNCHANGED claim
     \/ /\ claim.inTTL /\ ~Opening
        /\ claim' = IF claim.status = "active" THEN NoClaim
                    ELSE [claim EXCEPT !.inTTL = FALSE]
     \/ claim.status = "done" /\ ~claim.inTTL /\ claim' = NoClaim
  /\ UNCHANGED <<exchange, lots, enabled, justClosed, plan, task>>

CloseForgotten ==
  /\ justClosed /\ justClosed' = FALSE /\ NoFault
  /\ UNCHANGED <<exchange, books, plan, task>>

-----------------------------------------------------------------------------
(* The specification                                                        *)

\* an earlier process may have left a claim
Init ==
  /\ own = 0 /\ foreign = 0 /\ lag = 0 /\ conds = {} /\ crossed = FALSE
  /\ exits = <<>> /\ young = 0 /\ old = 0 /\ claim = NoClaim /\ stuck \in BOOLEAN
  /\ enabled = TRUE /\ justClosed = FALSE /\ plan = 0
  /\ task = [t \in Tasks |-> Idle]
  /\ tally = [k \in DOMAIN Limit |-> 0]

\* a flow that has begun goes on
Flow(t) ==
  \/ Placed(t) \/ NotPlaced(t) \/ Sold(t) \/ NotSold(t) \/ SaleBooked(t)
  \/ Emergency(t) \/ CancelAll(t) \/ Repair(t) \/ RepairCancels(t) \/ Replan(t)
  \/ Repaired(t)
MainFlow == \/ OpenUnfilled \/ OpenFilled \/ OpenLosesFill \/ OpenLogged
            \/ Precheck \/ Attached \/ Adjusted \/ AdjustCancels \/ Flow("main")
Decide   == OpenRefused \/ OpenStart \/ CloseStart \/ AdjustStart
StreamFlow == StreamExit \/ Flow("stream")
Pass(r)  == \/ SyncStart(r) \/ SyncConds(r) \/ ConfirmFlat(r) \/ BookFlat(r)
            \/ SyncCancels(r) \/ Enforce(r) \/ Adopt(r) \/ Adopted(r) \/ Reread(r)
            \/ Unmanaged(r) \/ Check(r) \/ Recheck(r) \/ Flow(r)
Time     == Settle \/ Mature \/ ClaimExpires \/ CloseForgotten
Outside  == (\E c \in conds : Trigger(c)) \/ LoseExit \/ Cross \/ ForeignAct

Next == \/ Decide \/ MainFlow \/ StreamFlow \/ Time \/ Outside
        \/ \E r \in Reconcilers : Pass(r)

Fairness == /\ WF_vars(MainFlow) /\ WF_vars(StreamFlow) /\ WF_vars(Time)
            /\ \A r \in Reconcilers : WF_vars(Pass(r))

Spec == Init /\ [][Next]_vars /\ Fairness

-----------------------------------------------------------------------------
(* Properties                                                               *)

TypeOK ==
  /\ own \in Nat /\ foreign \in Nat /\ lag \in Nat
  /\ conds \in SUBSET Condition /\ crossed \in BOOLEAN /\ exits \in Seq(Exit)
  /\ young \in Nat /\ old \in Nat /\ claim \in Claim /\ stuck \in BOOLEAN
  /\ enabled \in BOOLEAN /\ justClosed \in BOOLEAN /\ plan \in Nat
  /\ task \in [Tasks -> Task] /\ tally \in [DOMAIN Limit -> Nat]

\* a fill that open_position has returned and log_order has not booked
Unlogged == IF At("main", "log") THEN task["main"].qty ELSE 0

\* What the engine's orders bought and did not sell is in its books, or about to
\* be: no pass books an exit that did not happen, and no two tasks book the same
\* one (_exchange_flat_defer_reason, sync_condition_order_history,
\* mark_condition_exit, log_order).
NothingDisowned == own <= Managed + Unlogged

Protected == \E c \in conds : c.kind = "SL" /\ c.qty >= own

\* In the end a position the books know has a stop, or is gone: the passes make
\* up for a lost order, a failed request and a dead flow (_enforce, _repair_sl_tp).
EventuallyProtected ==
  <>[](foreign = 0 /\ own > 0 /\ Managed > 0 => Protected)

\* In the end a flat symbol has no open trade and no condition order of the
\* engine, although events are lost and others close positions
\* (reconcile_symbol_flat, _confirm_exchange_flat).
EventuallyClean ==
  <>[](Live = 0 => Managed = 0 /\ \A c \in conds : ~c.ours)
=============================================================================
